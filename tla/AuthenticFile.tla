----------------------------- MODULE AuthenticFile -----------------------------
(***************************************************************************)
(* What IDmVerityProtectedFile promises its clients: a file of fixed bytes *)
(* that answers a read with exactly the bytes asked for, or with nothing.  *)
(* A read past the end is always refused.  How the bytes are stored, read, *)
(* cached and verified is not visible.                                     *)
(***************************************************************************)
EXTENDS Integers

CONSTANTS
  ByteAt(_),   \* the bytes of the signed image
  Capacity,    \* the size of the signed image
  MaxRead      \* bound of the model: the largest read

VARIABLES
  fileSize,    \* 0 while the file is closed
  phase,       \* "idle", "busy" with a read, or "returned" with its reply
  request,     \* the read: [offset, size]
  reply        \* the answer: [ok, bytes]

absVars == <<fileSize, phase, request, reply>>

Refused == [ok |-> FALSE, bytes |-> [k \in {} |-> 0]]
NoRequest == [offset |-> 0, size |-> 0]
Bytes(r) == [ok |-> TRUE, bytes |-> [k \in 0 .. r.size - 1 |-> ByteAt(r.offset + k)]]
Inside(r) == r.offset < fileSize /\ r.size <= fileSize - r.offset

AbsInit ==
  /\ fileSize = 0
  /\ phase = "idle"
  /\ request = NoRequest
  /\ reply = Refused

AbsOpen ==
  /\ fileSize = 0
  /\ fileSize' \in 1 .. Capacity
  /\ UNCHANGED <<phase, request, reply>>

AbsClose ==
  /\ fileSize > 0 /\ phase = "idle"
  /\ fileSize' = 0
  /\ UNCHANGED <<phase, request, reply>>

AbsCall ==
  /\ fileSize > 0 /\ phase = "idle"
  /\ request' \in [offset : Nat, size : 0 .. MaxRead]
  /\ phase' = IF Inside(request') THEN "busy" ELSE "returned"
  /\ UNCHANGED <<fileSize, reply>>

AbsAnswer ==
  /\ phase = "busy"
  /\ phase' = "returned"
  /\ reply' \in {Bytes(request), Refused}
  /\ UNCHANGED <<fileSize, request>>

AbsTake ==
  /\ phase = "returned"
  /\ phase' = "idle"
  /\ request' = NoRequest
  /\ reply' = Refused
  /\ UNCHANGED fileSize

AbsNext == AbsOpen \/ AbsClose \/ AbsCall \/ AbsAnswer \/ AbsTake

AbsSafety == AbsInit /\ [][AbsNext]_absVars
AbsSpec == AbsSafety /\ WF_absVars(AbsAnswer)
=============================================================================
