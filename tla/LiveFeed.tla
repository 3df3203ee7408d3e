------------------------------- MODULE LiveFeed -------------------------------
(***************************************************************************)
(* What the path from the fast loop to the charts of a page promises.  A   *)
(* page that joins sees every sample taken from then on, one by one and in *)
(* order, until it leaves; it never sees one before it was taken, and its  *)
(* newest point is never older than one it had.  Once in a session it may  *)
(* be filled with what the server remembers: this either brings it forward *)
(* to any sample up to the newest taken, never behind the session, or      *)
(* leaves it as it is.  Live samples that the filling has already brought  *)
(* do not make it newer and are no step here.                              *)
(***************************************************************************)
EXTENDS Integers

VARIABLES taken,    \* samples taken so far
          joined,   \* how many there were when the page joined, or Away
          filled,   \* whether the page has been filled in this session
          shown     \* the newest sample on the page, or 0

feed == <<taken, joined, filled, shown>>

Away == -1

LiveFeedInit == taken = 0 /\ joined = Away /\ filled = FALSE /\ shown = 0

Take == taken' = taken + 1 /\ UNCHANGED <<joined, filled, shown>>

Join ==
    /\ joined = Away
    /\ joined' = taken
    /\ UNCHANGED <<taken, filled, shown>>

Fill ==
    /\ joined # Away
    /\ ~filled
    /\ filled' = TRUE
    /\ \/ UNCHANGED shown
       \/ shown' \in joined..taken /\ shown < shown'
    /\ UNCHANGED <<taken, joined>>

NextToShow == IF shown < joined THEN joined + 1 ELSE shown + 1

Show ==
    /\ joined # Away
    /\ NextToShow <= taken
    /\ shown' = NextToShow
    /\ UNCHANGED <<taken, joined, filled>>

Leave ==
    /\ joined # Away
    /\ joined' = Away
    /\ filled' = FALSE
    /\ UNCHANGED <<taken, shown>>

Reload == joined = Away /\ shown' = 0 /\ UNCHANGED <<taken, joined, filled>>

LiveFeedNext == Take \/ Join \/ Fill \/ Show \/ Leave \/ Reload

LiveFeedSpec == LiveFeedInit /\ [][LiveFeedNext]_feed
=============================================================================
