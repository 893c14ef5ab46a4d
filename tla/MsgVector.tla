------------------------------ MODULE MsgVector ------------------------------
(***************************************************************************)
(* The message vector of I2cVector on its own, with the messages of        *)
(* masters and of slaves mixed as they come, and every entry taken out     *)
(* anywhere: what I2cBus asks of it, and more.                             *)
(***************************************************************************)
EXTENDS I2cVector, SequencesExt

CONSTANTS MasterMsg, SlaveMsg

ASSUME MsgVectorConstants ==
  /\ MasterMsg \cap SlaveMsg = {}
  /\ NULL \notin MasterMsg \cup SlaveMsg

VARIABLES
  msgv,      \* adapter->msg_vector
  arrived    \* history: the messages in it, as they came

msgvVars == <<msgv, arrived>>

MsgvInit == msgv = Uninit /\ arrived = <<>>

ArrivedIs(n) == \E i \in DOMAIN arrived : arrived[i] = n

\* i2c_vector_add, which fails without an array: i2c_vector_error makes one.
MsgvAdd(n) ==
  /\ ~ArrivedIs(n)
  /\ IF msgv.data = NULL
     THEN msgv' = AfterError(msgv) /\ UNCHANGED arrived
     ELSE msgv' = Add(msgv, n, SlaveMsg) /\ arrived' = Append(arrived, n)

\* i2c_vector_delete_at and i2c_vector_delete_msg, then i2c_vector_reshape as
\* in cleanup_adapter_msgs.
MsgvDeleteAt(i) ==
  /\ msgv' = Reshape(DeleteAt(msgv, i))
  /\ arrived' = RemoveFirst(arrived, Get(msgv, i))

MsgvDelete(n) ==
  /\ msgv' = Reshape(DeleteMsg(msgv, n))
  /\ arrived' = RemoveFirst(arrived, n)

MsgvNext ==
  \/ \E n \in MasterMsg \cup SlaveMsg : MsgvAdd(n) \/ MsgvDelete(n)
  \/ \E i \in 0 .. msgv.length : MsgvDeleteAt(i)

-----------------------------------------------------------------------------
MsgvTypeOK ==
  /\ msgv.length \in 0 .. msgv.limit
  /\ msgv.data # NULL => DOMAIN msgv.data = 0 .. msgv.limit - 1

\* The message m was added before n.
CameBefore(m, n) ==
  \E j \in DOMAIN arrived : \E i \in 1 .. j - 1 : arrived[i] = m /\ arrived[j] = n

(***************************************************************************)
(* i2c_vector_add, i2c_vector_delete: the vector holds exactly the messages*)
(* that came and were not deleted, those of masters first, each kind in    *)
(* the order in which they came, whenever the array grew or was shifted.   *)
(***************************************************************************)
MastersFirst ==
  /\ {arrived[i] : i \in DOMAIN arrived} = {Get(msgv, i) : i \in 0 .. msgv.length - 1}
  /\ \A j \in 0 .. msgv.length - 1 : \A i \in 0 .. j - 1 :
       LET m == Get(msgv, i)
           n == Get(msgv, j)
       IN  /\ m # n
           /\ m \in SlaveMsg => n \in SlaveMsg
           /\ (m \in SlaveMsg) = (n \in SlaveMsg) => CameBefore(m, n)
=============================================================================
