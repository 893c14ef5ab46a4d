------------------------------- MODULE HeapSpec -------------------------------
(***************************************************************************)
(* What the heap of BermudaOS promises its callers: a region that is in    *)
(* use lies inside the heap and shares no memory with another one or with  *)
(* its header, until the caller gives it back.  It is at least as long as  *)
(* was asked for, and not much longer.                                     *)
(***************************************************************************)
EXTENDS Integers

CONSTANTS Start, End,   \* the memory of the heap: the addresses Start .. End - 1
          Header,       \* the memory in front of every region
          Waste,        \* a region is less than Waste longer than asked for
          Sizes         \* the lengths that are asked for

VARIABLES
  used,   \* the regions in use
  want    \* the length that is asked for; None between two requests

hsvars == <<used, want>>

None == -1

Apart(r, s) ==
  \/ r.start + r.len + Header <= s.start
  \/ s.start + s.len + Header <= r.start

Init ==
  /\ used = {}
  /\ want = None

Request(n) ==
  /\ want = None
  /\ want' = n
  /\ UNCHANGED used

Serve(r) ==
  /\ want # None
  /\ r.len - want \in 0 .. Waste - 1
  /\ Start + Header <= r.start
  /\ r.start + r.len <= End
  /\ \A s \in used : Apart(r, s)
  /\ used' = used \cup {r}
  /\ want' = None

GiveBack(r) ==
  /\ want = None
  /\ used' = used \ {r}
  /\ UNCHANGED want

Region == [start : Start .. End, len : 0 .. End]

Next ==
  \/ \E n \in Sizes : Request(n)
  \/ \E r \in Region : Serve(r)
  \/ \E r \in used : GiveBack(r)

Spec == Init /\ [][Next]_hsvars
=============================================================================
