------------------------------ MODULE I2cVector ------------------------------
(***************************************************************************)
(* The message vector of an I2C adapter (dev/i2c/i2c-msg.c): an array that *)
(* grows, of the messages that wait for the bus.  A vector is a record of  *)
(* the array (NULL before i2c_create_msg_vector), its length and its       *)
(* limit, the number of entries allocated.  Indices start at 0 as in C.    *)
(*                                                                         *)
(* realloc does not fail: BermudaHeapAlloc returns no NULL (sys/mem.c:71). *)
(***************************************************************************)
EXTENDS Integers, Sequences, FiniteSetsExt

CONSTANTS
  NULL,
  DefaultLimit    \* DEFAULT_MSG_LIMIT, 10 in the code

ASSUME VectorConstants == DefaultLimit \in Nat \ {0}

-----------------------------------------------------------------------------
Vector(d, n, l) == [data |-> d, length |-> n, limit |-> l]

\* The adapter before its first message: all zero.
Uninit == Vector(NULL, 0, 0)

Create == Vector([i \in 0 .. DefaultLimit - 1 |-> NULL], 0, DefaultLimit)

\* realloc to n entries.
Resized(v, n) ==
  Vector([i \in 0 .. n - 1 |-> IF i < v.limit THEN v.data[i] ELSE NULL], v.length, n)

\* The messages in the order of their indices.
Elements(v) == [i \in 1 .. v.length |-> v.data[i - 1]]

\* A negative index is one past the end in a size_t.
Get(v, i) == IF i \in 0 .. v.length - 1 THEN v.data[i] ELSE NULL

\* i2c_vector_locate: -1 for NULL, an impossible index for a message that is not there.
Locate(v, m) ==
  LET at == {i \in 0 .. v.length - 1 : v.data[i] = m}
  IN  IF m = NULL THEN -1 ELSE IF at = {} THEN v.length + 1 ELSE Min(at)

\* FAULT: the array does not grow.
ShiftRightFull(v, i) ==
  Vector([j \in DOMAIN v.data |->
            IF j > i /\ j <= v.length THEN v.data[j - 1] ELSE v.data[j]], v.length + 1, v.limit)

\* i2c_vector_shift_right by one: room for a new entry at i.
ShiftRight(v, i) ==
  LET w == IF v.length + 1 >= v.limit THEN Resized(v, v.limit + 1) ELSE v
  IN  Vector([j \in DOMAIN w.data |->
                IF j > i /\ j <= v.length THEN w.data[j - 1] ELSE w.data[j]], v.length + 1, w.limit)

\* i2c_vector_shift_left behind the entry i, or the last entry given up.  What
\* is left behind the length is never read: NULL.
Delete(v, i) ==
  Vector([j \in DOMAIN v.data |->
            IF j < i THEN v.data[j]
            ELSE IF j < v.length - 1 THEN v.data[j + 1] ELSE NULL], v.length - 1, v.limit)

DeleteAt(v, i) == IF v.data # NULL /\ i \in 0 .. v.length - 1 THEN Delete(v, i) ELSE v

DeleteMsg(v, m) ==
  IF v.data # NULL /\ Locate(v, m) \in 0 .. v.length - 1 THEN Delete(v, Locate(v, m)) ELSE v

InsertEntry(v, m, i) ==
  LET w == ShiftRight(v, i) IN Vector([w.data EXCEPT ![i] = m], w.length, w.limit)

\* FAULT: a message of a master is put behind those of slaves.
AddAppends(v, m, slaves) ==
  LET w == IF v.length = v.limit THEN Resized(v, v.limit + DefaultLimit) ELSE v
  IN  Vector([w.data EXCEPT ![v.length] = m], v.length + 1, w.limit)

\* i2c_vector_add: in front of the first of the slaves' messages, or at the end.
Add(v, m, slaves) ==
  LET w  == IF v.length = v.limit THEN Resized(v, v.limit + DefaultLimit) ELSE v
      at == {i \in 0 .. v.length - 1 : v.data[i] \in slaves}
  IN  IF m \notin slaves /\ at # {}
      THEN InsertEntry(w, m, Min(at))
      ELSE Vector([w.data EXCEPT ![v.length] = m], v.length + 1, w.limit)

\* i2c_vector_error of an add that failed: there was no vector, or it was
\* longer than its limit.
AfterError(v) == IF v.data = NULL THEN Create ELSE Resized(v, v.length + 1)

\* The condition of i2c_vector_reshape for shrinking the array.
Reshape(v) ==
  IF v.limit # DefaultLimit /\ v.length + DefaultLimit < v.length
  THEN Resized(v, v.length + DefaultLimit)
  ELSE v

\* The first index of one of the messages, or NULL.
FirstMsg(v, messages) ==
  LET at == {i \in 0 .. v.length - 1 : v.data[i] \in messages}
  IN  IF at = {} THEN NULL ELSE Min(at)
=============================================================================
