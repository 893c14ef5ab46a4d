-------------------------------- MODULE Network --------------------------------
(***************************************************************************)
(* The core of the network (net/core/dev.c, net/tokenbucket.c): the list   *)
(* of devices, the two threads that process the core queues, and the token *)
(* buckets that packets are paid from.  Nothing in the system enqueues     *)
(* packets, wakes the threads or cashes tokens yet: those steps are        *)
(* external.                                                               *)
(***************************************************************************)
EXTENDS Integers, Sequences, SequencesExt, Functions

CONSTANTS
  NetDev, NetName,     \* the devices and their names
  Mtu,                 \* the MTU of each device
  Packet,              \* the packets that are enqueued
  PacketDev,           \* nb->dev
  Segments,            \* the packet and its segments, along nb->next
  Length,              \* nb->length of each segment
  NoPacket,            \* NULL
  TokenMax,            \* the largest number of tokens, 2^64 - 1
  Cashes               \* the amounts of tokens that each bucket gets

ASSUME NetworkConstants ==
  /\ PacketDev \in [Packet -> NetDev]
  /\ Segments \in [Packet -> Seq(DOMAIN Length)] /\ \A s \in DOMAIN Length : Length[s] \in Nat
  /\ \A p \in Packet : Segments[p] # <<>> /\ Segments[p][1] = p
  /\ \A p, r \in Packet : \A i \in DOMAIN Segments[p], j \in DOMAIN Segments[r] :
       Segments[p][i] = Segments[r][j] => p = r /\ i = j   \* a segment is of one packet
  /\ Mtu \in [NetDev -> Nat] /\ TokenMax \in Nat /\ Cashes \in [NetDev -> SUBSET (1 .. TokenMax)]

NetQueue == {"tx", "rx"}

VARIABLES
  netdevs,     \* the list from devRoot on
  coreQueue,   \* tx_queue and rx_queue
  proc,        \* where each netif_processor is
  tokens,      \* bucket->tokens
  lastEntry,   \* the packet of the last entry of bucket->queue
  cashed,      \* history: the tokens that went into each bucket
  came,        \* history: the packets enqueued, in order
  bought       \* history: the segments bought, in order

netVars == <<netdevs, coreQueue, proc, tokens, lastEntry, cashed, came, bought>>

\* The bucket of a device and its queue of one entry are the driver's.
NetInit ==
  /\ netdevs = <<>>
  /\ coreQueue = [q \in NetQueue |-> <<>>]
  /\ proc = [q \in NetQueue |-> "off"]
  /\ tokens = [d \in NetDev |-> 0]
  /\ lastEntry = [d \in NetDev |-> NoPacket]
  /\ cashed = [d \in NetDev |-> 0]
  /\ came = [q \in NetQueue |-> <<>>]
  /\ bought = [d \in NetDev |-> <<>>]

-----------------------------------------------------------------------------
\* netif_init: the threads, and the first device.
NetifInit(d) ==
  /\ netdevs = <<>>
  /\ netdevs' = <<d>>
  /\ proc' = [q \in NetQueue |-> "look"]
  /\ UNCHANGED <<coreQueue, tokens, lastEntry, cashed, came, bought>>

(***************************************************************************)
(* netif_init_dev adds a device at the end; one that is on the list, or    *)
(* has the name of one, is refused, and so is every device before          *)
(* netif_init.  It returns -1 also for the device that it adds.            *)
(***************************************************************************)
NetifInitDev(d) ==
  /\ netdevs # <<>>
  /\ \A i \in DOMAIN netdevs : netdevs[i] # d /\ NetName[netdevs[i]] # NetName[d]
  /\ netdevs' = Append(netdevs, d)
  /\ UNCHANGED <<coreQueue, proc, tokens, lastEntry, cashed, came, bought>>

\* cash_tokens: a sum that would roll over is the largest number.
CashTokens(d, n) ==
  LET sum == (tokens[d] + n) % (TokenMax + 1)
      new == IF sum < tokens[d] THEN TokenMax ELSE tokens[d] + n
  IN  /\ tokens' = [tokens EXCEPT ![d] = new]
      /\ cashed' = [cashed EXCEPT ![d] = @ + new - tokens[d]]
      /\ UNCHANGED <<netdevs, coreQueue, proc, lastEntry, came, bought>>

(***************************************************************************)
(* External: a packet comes into a core queue.  sends is TRUE in an entry  *)
(* whose type is NETIF_TX_QUEUE_FLAG alone.                                *)
(***************************************************************************)
Enqueue(q, p, sends) ==
  /\ \A r \in NetQueue : ~Contains(came[r], p)
  /\ coreQueue' = [coreQueue EXCEPT ![q] = Append(@, [packet |-> p, sends |-> sends])]
  /\ came' = [came EXCEPT ![q] = Append(@, p)]
  /\ UNCHANGED <<netdevs, proc, tokens, lastEntry, cashed, bought>>

-----------------------------------------------------------------------------
\* FAULT: any token pays for any packet.
CanAffordAny(t, s) == t > 0

\* tbucket_can_afford_packet
CanAfford(t, s) == t >= Length[s]

\* tbucket_buy_packet
BuyPacket(t, s) == (t - Length[s]) % (TokenMax + 1)

\* netif_nb_needs_gso
NeedsGso(nb) == Length[nb] > Mtu[PacketDev[nb]]

(***************************************************************************)
(* One turn of the loop of __netif_start_xmit: a segment is bought, or put *)
(* into the last entry of the queue of the bucket, over the packet there.  *)
(* The entry that the code allocates for it is not linked.                 *)
(***************************************************************************)
Offered(b, s) ==
  IF CanAfford(b.tokens, s)
  THEN [b EXCEPT !.tokens = BuyPacket(b.tokens, s), !.bought = Append(@, s)]
  ELSE [b EXCEPT !.last = s]

\* The loop over the segments of a packet.
OfferAll(b, segments) ==
  LET after[n \in 0 .. Len(segments)] ==
        IF n = 0 THEN b ELSE Offered(after[n - 1], segments[n])
  IN  after[Len(segments)]

(***************************************************************************)
(* __netif_start_xmit.  A packet larger than the MTU stays at the head of  *)
(* the queue, whether it may be fragmented or not: netif_eval_err takes    *)
(* every result of gso_segment for an error.                               *)
(***************************************************************************)
StartXmit(q) ==
  LET nb == coreQueue[q][1].packet
      d  == PacketDev[nb]
      b  == OfferAll([tokens |-> tokens[d], last |-> lastEntry[d], bought |-> bought[d]],
                     Segments[nb])
  IN  IF NeedsGso(nb) THEN UNCHANGED <<coreQueue, tokens, lastEntry, bought>>
      ELSE /\ coreQueue' = [coreQueue EXCEPT ![q] = Tail(@)]
           /\ tokens' = [tokens EXCEPT ![d] = b.tokens]
           /\ lastEntry' = [lastEntry EXCEPT ![d] = b.last]
           /\ bought' = [bought EXCEPT ![d] = b.bought]

(***************************************************************************)
(* netif_processor looks into its queue; if it is empty, the code reads    *)
(* the type of no entry to choose what to wait for.                        *)
(***************************************************************************)
Look(q) ==
  /\ proc[q] = "look"
  /\ proc' = [proc EXCEPT ![q] = IF coreQueue[q] = <<>> THEN "waits" ELSE "found"]
  /\ UNCHANGED <<netdevs, coreQueue, tokens, lastEntry, cashed, came, bought>>

\* Back from BermudaThreadYield: only an entry for sending is handled.
Found(q) ==
  /\ proc[q] = "found"
  /\ proc' = [proc EXCEPT ![q] = "look"]
  /\ IF coreQueue[q][1].sends THEN StartXmit(q)
     ELSE UNCHANGED <<coreQueue, tokens, lastEntry, bought>>
  /\ UNCHANGED <<netdevs, cashed, came>>

(***************************************************************************)
(* Back from BermudaEventWait, when whoever signals, external: the code    *)
(* again reads the type of no entry, and takes any of the cases.  With the *)
(* case of sending and a queue that is empty still, it would read a packet *)
(* from the address NULL: left out.                                        *)
(***************************************************************************)
Woken(q) ==
  /\ proc[q] = "waits"
  /\ proc' = [proc EXCEPT ![q] = "look"]
  /\ \/ UNCHANGED <<coreQueue, tokens, lastEntry, bought>>
     \/ coreQueue[q] # <<>> /\ StartXmit(q)
  /\ UNCHANGED <<netdevs, cashed, came>>

NetNext ==
  \/ \E d \in NetDev : NetifInit(d) \/ NetifInitDev(d) \/ \E n \in Cashes[d] : CashTokens(d, n)
  \/ \E q \in NetQueue, p \in Packet, sends \in BOOLEAN : Enqueue(q, p, sends)
  \/ \E q \in NetQueue : Look(q) \/ Found(q) \/ Woken(q)

-----------------------------------------------------------------------------
NetTypeOK ==
  /\ \A q \in NetQueue : proc[q] \in {"off", "look", "waits", "found"}
  /\ \A d \in NetDev : tokens[d] \in 0 .. TokenMax

\* What some segments cost.
Cost(segments) ==
  LET cost[n \in 0 .. Len(segments)] ==
        IF n = 0 THEN 0 ELSE cost[n - 1] + Length[segments[n]]
  IN  cost[Len(segments)]

(***************************************************************************)
(* The segments bought from each bucket cost no more than was cashed, and  *)
(* what they did not cost is in the bucket.  Each is bought once, the ones *)
(* of a core queue in the order in which they came, none behind a packet   *)
(* too large for its device, and no two devices have one name.             *)
(***************************************************************************)
PaidInOrder ==
  /\ \A d \in NetDev : tokens[d] + Cost(bought[d]) = cashed[d]
  /\ \A d \in NetDev : IsInjective(bought[d])
  /\ \A q \in NetQueue, d \in NetDev : \A i, j \in DOMAIN bought[d], m, n \in DOMAIN came[q] :
       i < j /\ bought[d][i] = came[q][m] /\ bought[d][j] = came[q][n] => m < n
  /\ \A q \in NetQueue : \A i, j \in DOMAIN came[q] :
       i < j /\ NeedsGso(came[q][i]) => \A d \in NetDev : ~Contains(bought[d], came[q][j])
  /\ IsInjective([i \in DOMAIN netdevs |-> NetName[netdevs[i]]])
=============================================================================
