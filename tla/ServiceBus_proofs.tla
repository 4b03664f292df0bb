-------------------------- MODULE ServiceBus_proofs --------------------------
(***************************************************************************)
(* Proofs about ServiceBus, for any clients, queues, topics, namespaces,   *)
(* casts and bounds; the last one is that it implements MessageQueue for   *)
(* one client with the plain map.                                          *)
(***************************************************************************)
EXTENDS ServiceBus, Sequences, FiniteSetTheorems, WellFoundedInduction, TLAPS

USE BoundsAssumption

(* Every nonempty set of numbers has a least element.                      *)
LEMMA LeastExists ==
  ASSUME NEW T \in SUBSET Nat, T # {}
  PROVE  \E x \in T : \A y \in T : x <= y
<1> DEFINE Below(t) == {y \in T : y <= t}
<1> DEFINE F == {Below(t) : t \in T}
<1> DEFINE R == StrictSubsetOrdering(Nat)
<1>1. \A t \in T : IsFiniteSet(Below(t))
  BY FS_BoundedSetOfNaturals
<1>2. F \subseteq FiniteSubsetsOf(Nat) /\ F # {}
  BY <1>1 DEF FiniteSubsetsOf
<1>3. \E B \in F : \A C \in F : ~ (<<C, B>> \in R)
  <2> HIDE DEF F, R
  <2>1. IsWellFoundedOn(StrictSubsetOrdering(Nat), FiniteSubsetsOf(Nat))
    BY FS_StrictSubsetOrderingWellFounded
  <2> QED BY <1>2, <2>1, WFMin DEF R
<1>4. PICK t \in T : \A u \in T : ~ (<<Below(u), Below(t)>> \in R)
  BY <1>3
<1>5. ASSUME NEW u \in T, u < t PROVE FALSE
  <2>1. Below(u) \in SUBSET Nat /\ Below(t) \in SUBSET Nat
    OBVIOUS
  <2>2. Below(u) \subseteq Below(t) /\ t \in Below(t) /\ t \notin Below(u)
    <3>1. u \in Nat /\ t \in Nat
      OBVIOUS
    <3>2. \A y \in Nat : y <= u => y <= t
      BY <1>5, <3>1
    <3>3. t <= t /\ ~ (t <= u)
      BY <1>5, <3>1
    <3> QED BY <3>2, <3>3
  <2>3. <<Below(u), Below(t)>> \in R
    BY <2>1, <2>2 DEF StrictSubsetOrdering
  <2> QED BY <2>3, <1>4
<1> QED BY <1>5

(* The oldest message of a mailbox is the smallest, if there is one.       *)
LEMMA OldestIs ==
  ASSUME NEW b \in [Numbers -> 0 .. MaxSends], NEW x \in Stored(b), \A y \in Stored(b) : x <= y
  PROVE  Oldest(b) = x
<1>1. Stored(b) \subseteq Nat
  BY DEF Stored
<1>2. \A z : z \in Stored(b) /\ (\A y \in Stored(b) : z <= y) => z = x
  BY <1>1
<1> QED BY <1>2 DEF Oldest, Min

LEMMA OldestType ==
  ASSUME NEW b \in [Numbers -> 0 .. MaxSends]
  PROVE  Oldest(b) \in 0 .. MaxSends
<1>1. Stored(b) \subseteq 0 .. MaxSends
  BY DEF Stored
<1>2. CASE Stored(b) = {}
  BY <1>2 DEF Oldest, Empty
<1>3. CASE Stored(b) # {}
  <2>1. PICK x \in Stored(b) : \A y \in Stored(b) : x <= y
    BY <1>1, <1>3, LeastExists
  <2> QED BY <1>1, <2>1, OldestIs
<1> QED BY <1>2, <1>3

-----------------------------------------------------------------------------
(* Types.  The counter has not passed the messages that were sent, and has *)
(* still to be advanced once for each request at the increment.            *)

Counting == {c \in Clients : pc[c] \in {"load", "store"}}
Counted(n) == n + Cardinality(Counting) <= sends
CountInv == /\ IsFiniteSet(Counting)
            /\ Counted(msgId)
            /\ \A c \in Clients : pc[c] = "store" => Counted(reg[c])

DiskType == /\ disk.queues \subseteq Queues
            /\ disk.namespaces \subseteq Namespaces
            /\ disk.armChildren \subseteq Queues
            /\ disk.msgs \in [Mailboxes -> [Numbers -> 0 .. MaxSends]]
            /\ disk.due \subseteq Queues \X Numbers

(* What a request at some point is about.                                  *)
TargetInv == \A c \in Clients :
                 /\ pc[c] \in Sending => target[c] \in Mailboxes /\ body[c] \in Numbers
                 /\ pc[c] \in {"create", "sweep", "clear"} \cup Receiving => target[c] \in Queues
                 /\ pc[c] \in Sending => c \in cast.senders

TypeInv == TypeOK /\ DiskType /\ TargetInv /\ CountInv /\ sends <= cast.sends

LEMMA EmptyType == NoMessages \in [Numbers -> 0 .. MaxSends]
BY DEF NoMessages, Empty

LEMMA InitType == Init => TypeInv
<1> SUFFICES ASSUME Init PROVE TypeInv
  OBVIOUS
<1>1. cast.sends \in 0 .. MaxSends /\ cast.restarts \in Nat /\ cast.resets \in Nat
  BY CastsAssumption DEF Init
<1>2. TypeOK
  BY <1>1, EmptyType DEF Init, NoRequests, EmptyStore, TypeOK, Points, NoAnswer, Record, Idle
<1>3. DiskType
  BY EmptyType DEF Init, EmptyStore, DiskType
<1>4. TargetInv
  BY DEF Init, NoRequests, TargetInv, Sending, Receiving, Idle
<1>5. Counting = {}
  BY DEF Init, NoRequests, Counting, Idle
<1>6. CountInv
  BY <1>5, FS_EmptySet DEF Init, NoRequests, CountInv, Counted, Idle
<1> QED BY <1>1, <1>2, <1>3, <1>4, <1>6 DEF TypeInv, Init

(* The parts a step is checked by.                                         *)
StoreType == /\ queues \subseteq Queues
             /\ namespaces \subseteq Namespaces
             /\ armChildren \subseteq Queues
             /\ msgs \in [Mailboxes -> [Numbers -> 0 .. MaxSends]]
             /\ due \subseteq Queues \X Numbers
             /\ DiskType

RequestType == /\ pc \in [Clients -> Points]
               /\ target \in [Clients -> Mailboxes \cup Namespaces \cup {0}]
               /\ body \in [Clients -> 0 .. MaxSends]
               /\ reg \in [Clients -> 0 .. MaxSends]
               /\ answer \in [Clients -> NoAnswer .. Record]
               /\ TargetInv

WindowType == window \in [Clients -> SUBSET (0 .. MaxSends)]

CastType == /\ cast \in Casts
            /\ backend \in cast.backends
            /\ runs \subseteq 0 .. MaxSends
            /\ sends \in 0 .. cast.sends
            /\ restarts \in 0 .. cast.restarts
            /\ resets \in 0 .. cast.resets

TypeParts == StoreType /\ RequestType /\ WindowType /\ CastType /\ CountInv /\ msgId \in Nat

LEMMA CastBounds == CastType => /\ cast.sends \in 0 .. MaxSends /\ cast.restarts \in Nat /\ cast.resets \in Nat
                                /\ sends \in 0 .. MaxSends
                                /\ cast.senders \subseteq Clients
BY CastsAssumption DEF CastType

LEMMA CountBounds ==
  ASSUME CountInv, CastType, msgId \in Nat
  PROVE  msgId \in 0 .. MaxSends /\ Cardinality(Counting) \in Nat
<1>1. Cardinality(Counting) \in Nat
  BY FS_CardinalityType DEF CountInv
<1> QED BY <1>1, CastBounds DEF CountInv, Counted

LEMMA PartsOfType == TypeParts <=> TypeInv
<1>1. TypeInv => TypeParts
  BY DEF TypeInv, TypeOK, TypeParts, StoreType, RequestType, WindowType, CastType
<1>2. TypeParts => TypeInv
  BY CountBounds, CastBounds DEF TypeInv, TypeOK, TypeParts, StoreType, RequestType, WindowType, CastType
<1> QED BY <1>1, <1>2

LEMMA WatchType ==
  ASSUME TypeParts, Watch, StoreType', RequestType'
  PROVE  WindowType'
<1> SUFFICES ASSUME NEW c \in Clients
             PROVE  (CASE pc'[c] \in {"list", "get"} -> window[c] \cup {Oldest(msgs'[target'[c]])}
                       [] pc'[c] = "answer" -> window[c]
                       [] OTHER -> {}) \in SUBSET (0 .. MaxSends)
  BY DEF Watch, WindowType
<1>1. window[c] \in SUBSET (0 .. MaxSends)
  BY DEF TypeParts, WindowType
<1>2. CASE pc'[c] \in {"list", "get"}
  <2>1. target'[c] \in Mailboxes
    BY <1>2 DEF RequestType, TargetInv, Receiving, Mailboxes
  <2>2. Oldest(msgs'[target'[c]]) \in 0 .. MaxSends
    BY <2>1, OldestType DEF StoreType
  <2> QED BY <1>1, <1>2, <2>2
<1>3. CASE pc'[c] \notin {"list", "get"}
  BY <1>1, <1>3
<1> QED BY <1>2, <1>3

(* Requests that begin, go on and end.                                     *)
LEMMA BeginType ==
  ASSUME RequestType, NEW c \in Clients, NEW p, NEW n, Begin(c, p, n),
         UNCHANGED <<body, reg, answer, cast>>,
         \/ p \in {"create", "sweep", "clear", "list"} /\ n \in Queues
         \/ p = "queues" /\ n \in Namespaces
  PROVE  RequestType'
<1>1. pc' = [pc EXCEPT ![c] = p] /\ target' = [target EXCEPT ![c] = n]
  BY DEF Begin, Goto
<1>2. p \in Points /\ n \in Mailboxes \cup Namespaces \cup {0} /\ p \notin Sending
  BY DEF Points, Sending, Receiving, Mailboxes
<1>3. p \in {"create", "sweep", "clear"} \cup Receiving => n \in Queues
  BY DEF Receiving
<1> QED BY <1>1, <1>2, <1>3 DEF RequestType, TargetInv

LEMMA FinishType ==
  ASSUME RequestType, NEW c \in Clients, Finish(c), UNCHANGED cast
  PROVE  RequestType'
<1>1. Idle \in Points /\ Idle \notin Sending /\ Idle \notin {"create", "sweep", "clear"} \cup Receiving
      /\ NoAnswer \in NoAnswer .. Record
  BY DEF Idle, Points, Sending, Receiving, NoAnswer, Record
<1>2. pc' = [pc EXCEPT ![c] = Idle]
  BY DEF Finish, Goto
<1> QED BY <1>1, <1>2 DEF Finish, RequestType, TargetInv

LEMMA MoveType ==
  ASSUME RequestType, NEW c \in Clients, NEW p \in Points, Goto(c, p), UNCHANGED <<target, body, cast>>,
         reg' \in [Clients -> 0 .. MaxSends], answer' \in [Clients -> NoAnswer .. Record],
         p \in Sending => pc[c] \in Sending,
         p \in Receiving => pc[c] \in Receiving,
         p \notin {"create", "sweep", "clear"}
  PROVE  RequestType'
<1>1. pc' = [pc EXCEPT ![c] = p]
  BY DEF Goto
<1> QED BY <1>1 DEF RequestType, TargetInv

(* The counter and the requests at the increment.                          *)
LEMMA CountKept ==
  ASSUME CountInv, UNCHANGED <<msgId, sends>>,
         \A c \in Clients : /\ pc'[c] \in {"load", "store"} <=> pc[c] \in {"load", "store"}
                            /\ pc'[c] = "store" => pc[c] = "store" /\ reg'[c] = reg[c]
  PROVE  CountInv'
<1>1. Counting' = Counting
  BY DEF Counting
<1> QED BY <1>1 DEF CountInv, Counted

LEMMA CountMoved ==
  ASSUME CountInv, UNCHANGED <<msgId, sends>>, RequestType, NEW c \in Clients, NEW p, pc' = [pc EXCEPT ![c] = p],
         pc[c] \notin {"load", "store"}, p \notin {"load", "store"},
         \A d \in Clients \ {c} : reg'[d] = reg[d]
  PROVE  CountInv'
BY CountKept DEF RequestType

(* A step that only requests take, and the parts it must show.             *)
LEMMA StepType ==
  ASSUME TypeParts, StoreType', RequestType', CountInv', msgId' \in Nat, Watch \/ UNCHANGED window,
         UNCHANGED <<cast, backend, runs, restarts>>,
         sends' \in 0 .. cast.sends, resets' \in 0 .. cast.resets
  PROVE  TypeParts'
<1>1. WindowType'
  BY WatchType DEF TypeParts, WindowType
<1> QED BY <1>1 DEF TypeParts, CastType

LEMMA QueueStepsType ==
  ASSUME TypeParts, NEW c \in Clients, Queueing(c)
  PROVE  TypeParts'
<1> USE DEF TypeParts
<1>1. ASSUME NEW q \in Queues, CreateQueue(c, q) \/ DeleteQueue(c, q) \/ ClearMessages(c, q)
      PROVE  TypeParts'
  <2>1. PICK p \in {"create", "sweep", "clear"} : Begin(c, p, q)
    BY <1>1 DEF CreateQueue, DeleteQueue, ClearMessages
  <2>2. UNCHANGED <<namespaces, armChildren, msgs, msgId, file, body, reg, picked, answer, bounds>>
    BY <1>1 DEF CreateQueue, DeleteQueue, ClearMessages, store
  <2>3. StoreType'
    <3>1. queues' \subseteq queues /\ due' \subseteq due
      BY <1>1 DEF CreateQueue, DeleteQueue, ClearMessages, store, Forgive
    <3> QED BY <2>2, <3>1 DEF StoreType, DiskType, file
  <2>4. RequestType'
    BY <2>1, <2>2, BeginType DEF file
  <2>5. CountInv'
    BY <2>1, <2>2, CountMoved DEF Begin, Goto, At, Idle, bounds
  <2> QED BY <2>1, <2>2, <2>3, <2>4, <2>5, StepType DEF Begin, Goto, file, bounds, CastType
<1>2. ASSUME CreateSets(c) \/ DeleteSweeps(c) \/ ClearSweeps(c)
      PROVE  TypeParts'
  <2>1. pc[c] \in {"create", "sweep", "clear"} /\ Finish(c)
    BY <1>2 DEF CreateSets, DeleteSweeps, ClearSweeps, At
  <2>2. UNCHANGED <<namespaces, armChildren, msgId, file, bounds>>
    BY <1>2 DEF CreateSets, DeleteSweeps, ClearSweeps
  <2>3. target[c] \in Queues
    BY <2>1 DEF RequestType, TargetInv
  <2>4. StoreType'
    <3>1. queues' \subseteq Queues
      BY <1>2, <2>3 DEF CreateSets, DeleteSweeps, ClearSweeps, StoreType
    <3>2. due' \subseteq due
      BY <1>2 DEF CreateSets, DeleteSweeps, ClearSweeps, Forgive
    <3>3. msgs' \in [Mailboxes -> [Numbers -> 0 .. MaxSends]]
      BY <1>2, EmptyType DEF CreateSets, DeleteSweeps, ClearSweeps, StoreType
    <3> QED BY <2>2, <3>1, <3>2, <3>3 DEF StoreType, DiskType, file
  <2>5. RequestType'
    BY <2>1, <2>2, FinishType DEF file
  <2>6. CountInv'
    BY <2>1, <2>2, CountMoved DEF Finish, Goto, Idle, bounds, RequestType
  <2> QED BY <2>1, <2>2, <2>4, <2>5, <2>6, StepType DEF Finish, Goto, file, bounds, CastType
<1> QED BY <1>1, <1>2 DEF Queueing

LEMMA SendStepsType ==
  ASSUME TypeParts, NEW c \in Clients, c \in cast.senders,
         NEW m \in Mailboxes, Compose(c, m), UNCHANGED due \/ (m \in Queues /\ due' = due \cup {<<m, sends + 1>>})
  PROVE  TypeParts'
<1> USE DEF TypeParts
<1>1. /\ sends < cast.sends /\ sends' = sends + 1
      /\ body' = [body EXCEPT ![c] = sends + 1]
      /\ UNCHANGED <<store, msgId, file, reg, picked, answer, runs, restarts, resets>>
      /\ pc[c] = Idle /\ pc' = [pc EXCEPT ![c] = "load"]
      /\ target' = [target EXCEPT ![c] = m]
      /\ Watch
  BY DEF Compose, Begin, Goto, At
<1>2. sends + 1 \in Numbers /\ sends' \in 0 .. cast.sends
  BY <1>1, CastBounds DEF CastType, Numbers
<1>3. StoreType'
  <2>1. due' \subseteq Queues \X Numbers
    BY <1>2 DEF StoreType
  <2> QED BY <1>1, <2>1 DEF StoreType, DiskType, store, file
<1>4. RequestType'
  <2>1. body' \in [Clients -> 0 .. MaxSends]
    BY <1>1, <1>2 DEF RequestType, Numbers
  <2>2. "load" \in Points /\ "load" \notin {"create", "sweep", "clear"} \cup Receiving
    BY DEF Points, Sending, Receiving
  <2> QED BY <1>1, <1>2, <2>1, <2>2 DEF RequestType, TargetInv, file
<1>5. CountInv'
  <2>1. Counting' = Counting \cup {c}
    BY <1>1 DEF Counting, RequestType
  <2>2. Cardinality(Counting) \in Nat
    BY FS_CardinalityType DEF CountInv
  <2>3. IsFiniteSet(Counting') /\ Cardinality(Counting') \in Nat /\ Cardinality(Counting') <= Cardinality(Counting) + 1
    <3>1. /\ IsFiniteSet(Counting \cup {c})
          /\ Cardinality(Counting \cup {c}) = IF c \in Counting THEN Cardinality(Counting) ELSE Cardinality(Counting) + 1
      BY FS_AddElement DEF CountInv
    <3> HIDE DEF Counting
    <3> QED BY <2>1, <2>2, <3>1
  <2>4. sends \in Nat /\ sends' = sends + 1
    BY <1>1, CastBounds
  <2>5. \A n \in Nat : Counted(n) => Counted(n)'
    BY <2>2, <2>3, <2>4 DEF Counted
  <2>6. \A d \in Clients : pc'[d] = "store" => pc[d] = "store" /\ reg'[d] = reg[d] /\ reg[d] \in Nat
    BY <1>1 DEF RequestType
  <2>7. msgId' = msgId
    BY <1>1
  <2> QED BY <2>3, <2>5, <2>6, <2>7 DEF CountInv, Counted
<1> QED BY <1>1, <1>2, <1>3, <1>4, <1>5, StepType DEF file, CastType

LEMMA NumberStepsType ==
  ASSUME TypeParts, NEW c \in Clients, MsgIdLoads(c) \/ MsgIdStores(c) \/ MessageNamed(c)
  PROVE  TypeParts'
<1> USE DEF TypeParts
<1>1. msgId \in 0 .. MaxSends /\ Cardinality(Counting) \in Nat
  BY CountBounds
<1>2. UNCHANGED <<store, file, target, body, picked, answer, due, bounds>> /\ Watch
  BY DEF MsgIdLoads, MsgIdStores, MessageNamed, requests, Goto
<1>3. StoreType'
  BY <1>2 DEF StoreType, DiskType, store, file
<1>4. "store" \in Points /\ "name" \in Points /\ "set" \in Points /\ {"load", "store", "name", "set"} = Sending
      /\ Sending \cap Receiving = {}
  BY DEF Points, Sending, Receiving
<1>5. CASE MsgIdLoads(c)
  <2>1. /\ pc[c] = "load" /\ pc' = [pc EXCEPT ![c] = "store"] /\ Goto(c, "store")
        /\ reg' = [reg EXCEPT ![c] = msgId] /\ msgId' = msgId
    BY <1>5 DEF MsgIdLoads, At, Goto
  <2>2. reg' \in [Clients -> 0 .. MaxSends] /\ answer' \in [Clients -> NoAnswer .. Record]
    BY <1>1, <1>2, <2>1 DEF RequestType
  <2>3. RequestType'
    BY <1>2, <1>4, <2>1, <2>2, MoveType DEF file
  <2>4. CountInv'
    <3>1. Counting' = Counting
      BY <2>1 DEF Counting, RequestType
    <3>2. \A d \in Clients : pc'[d] = "store" => Counted(reg'[d])
      BY <2>1 DEF CountInv, RequestType
    <3> QED BY <1>2, <2>1, <3>1, <3>2 DEF CountInv, Counted, bounds
  <2> QED BY <1>2, <1>3, <2>1, <2>3, <2>4, StepType DEF file, bounds, CastType
<1>6. CASE MsgIdStores(c)
  <2>1. /\ pc[c] = "store" /\ pc' = [pc EXCEPT ![c] = "name"] /\ Goto(c, "name")
        /\ reg' = reg /\ msgId' = reg[c] + 1
    BY <1>6 DEF MsgIdStores, At, Goto, requests
  <2>2. reg' \in [Clients -> 0 .. MaxSends] /\ answer' \in [Clients -> NoAnswer .. Record] /\ reg[c] \in Nat
    BY <1>2, <2>1 DEF RequestType
  <2>3. RequestType'
    BY <1>2, <1>4, <2>1, <2>2, MoveType DEF file
  <2>4. CountInv'
    <3>1. Counting' = Counting \ {c} /\ c \in Counting
      BY <2>1 DEF Counting, RequestType
    <3>2. IsFiniteSet(Counting') /\ Cardinality(Counting') = Cardinality(Counting) - 1
      BY <3>1, FS_RemoveElement DEF CountInv
    <3>3. sends \in Nat /\ sends' = sends
      BY <1>2, CastBounds DEF bounds
    <3>4. \A n \in Nat : Counted(n) => n + 1 + Cardinality(Counting)' <= sends' /\ n + Cardinality(Counting)' <= sends'
      BY <1>1, <3>2, <3>3 DEF Counted
    <3>5. Counted(reg[c]) /\ \A d \in Clients : pc'[d] = "store" => Counted(reg[d]) /\ reg[d] \in Nat
      BY <2>1 DEF CountInv, RequestType
    <3> QED BY <2>1, <2>2, <3>2, <3>4, <3>5 DEF CountInv, Counted
  <2> QED BY <1>2, <1>3, <2>1, <2>2, <2>3, <2>4, StepType DEF file, bounds, CastType
<1>7. CASE MessageNamed(c)
  <2>1. /\ pc[c] = "name" /\ pc' = [pc EXCEPT ![c] = "set"] /\ Goto(c, "set")
        /\ reg' = [reg EXCEPT ![c] = msgId] /\ msgId' = msgId
    BY <1>7 DEF MessageNamed, At, Goto
  <2>2. reg' \in [Clients -> 0 .. MaxSends] /\ answer' \in [Clients -> NoAnswer .. Record]
    BY <1>1, <1>2, <2>1 DEF RequestType
  <2>3. RequestType'
    BY <1>2, <1>4, <2>1, <2>2, MoveType DEF file
  <2>4. CountInv'
    BY <1>2, <2>1, CountMoved DEF bounds, RequestType
  <2> QED BY <1>2, <1>3, <2>1, <2>3, <2>4, StepType DEF file, bounds, CastType
<1> QED BY <1>5, <1>6, <1>7

LEMMA SetStepType ==
  ASSUME TypeParts, NEW c \in Clients, MessageSet(c) \/ ReceiveAnswers(c) \/ DeleteNamespaceTopics(c)
  PROVE  TypeParts'
<1> USE DEF TypeParts
<1>1. pc[c] \in {"set", "answer", "topics"} /\ Finish(c)
  BY DEF MessageSet, ReceiveAnswers, DeleteNamespaceTopics, At
<1>2. UNCHANGED <<queues, namespaces, armChildren, msgId, file, due, bounds>>
  BY DEF MessageSet, ReceiveAnswers, DeleteNamespaceTopics, store
<1>3. msgs' \in [Mailboxes -> [Numbers -> 0 .. MaxSends]]
  <2>1. CASE MessageSet(c)
    <3>1. body[c] \in 0 .. MaxSends
      BY DEF RequestType
    <3>2. msgs' = [msgs EXCEPT ![target[c]] = [msgs[target[c]] EXCEPT ![reg[c]] = body[c]]]
      BY <2>1 DEF MessageSet
    <3>3. target[c] \in Mailboxes => [msgs[target[c]] EXCEPT ![reg[c]] = body[c]] \in [Numbers -> 0 .. MaxSends]
      BY <3>1 DEF StoreType
    <3> QED BY <3>2, <3>3 DEF StoreType
  <2>2. CASE ReceiveAnswers(c)
    BY <2>2 DEF ReceiveAnswers, store, StoreType
  <2>3. CASE DeleteNamespaceTopics(c)
    BY <2>3, EmptyType DEF DeleteNamespaceTopics, StoreType
  <2> QED BY <2>1, <2>2, <2>3
<1>4. StoreType'
  BY <1>2, <1>3 DEF StoreType, DiskType, file
<1>5. RequestType'
  BY <1>1, <1>2, FinishType DEF file
<1>6. CountInv'
  BY <1>1, <1>2, CountMoved DEF Finish, Goto, Idle, bounds, RequestType
<1> QED BY <1>1, <1>2, <1>4, <1>5, <1>6, StepType DEF Finish, Goto, file, bounds, CastType

(* Get answers a body, a record that is no message, or nothing.            *)
LEMMA GetType ==
  ASSUME StoreType, NEW k
  PROVE  Get(k) \in NoAnswer .. Record
<1>1. Empty \in NoAnswer .. Record /\ Record \in NoAnswer .. Record /\ 0 .. MaxSends \subseteq NoAnswer .. Record
  BY DEF NoAnswer, Record, Empty
<1>2. ASSUME k \in AllKeys, k[1] \in {2, 5}
      PROVE  msgs[k[2]][k[3]] \in 0 .. MaxSends
  <2>1. PICK m \in Mailboxes, i \in Numbers : k = MessageKey(m, i)
    <3>1. k \notin {ArmKey(q) : q \in armChildren} /\ k \notin {NamespaceKey(n) : n \in namespaces}
          /\ k \notin {QueueKey(q) : q \in queues}
      BY <1>2 DEF ArmKey, NamespaceKey, QueueKey
    <3> QED BY <1>2, <3>1 DEF AllKeys
  <2>2. k[2] = m /\ k[3] = i
    BY <2>1 DEF MessageKey
  <2> QED BY <2>2 DEF StoreType
<1> QED BY <1>1, <1>2 DEF Get

LEMMA ReceiveStepsType ==
  ASSUME TypeParts, NEW c \in Clients,
         (\E q \in Queues : ReceiveMessage(c, q)) \/ ReceiveLists(c) \/ ReceiveGets(c)
  PROVE  TypeParts'
<1> USE DEF TypeParts
<1>1. CASE \E q \in Queues : ReceiveMessage(c, q)
  <2>1. PICK q \in Queues : Begin(c, "list", q) /\ UNCHANGED <<store, msgId, file, body, reg, picked, answer, due, bounds>>
    BY <1>1 DEF ReceiveMessage
  <2>2. StoreType'
    BY <2>1 DEF StoreType, DiskType, store, file
  <2>3. RequestType'
    BY <2>1, BeginType DEF file
  <2>4. CountInv'
    BY <2>1, CountMoved DEF Begin, Goto, At, Idle, bounds
  <2> QED BY <2>1, <2>2, <2>3, <2>4, StepType DEF Begin, Goto, file, bounds, CastType
<1>2. CASE ReceiveLists(c) \/ ReceiveGets(c)
  <2>1. /\ pc[c] \in Receiving
        /\ UNCHANGED <<store, msgId, file, target, body, reg, due, bounds>>
    BY <1>2 DEF ReceiveLists, ReceiveGets, At, Receiving
  <2>2. PICK p \in {"get", "answer"} : Goto(c, p)
    BY <1>2 DEF ReceiveLists, ReceiveGets
  <2>3. StoreType'
    BY <2>1 DEF StoreType, DiskType, store, file
  <2>4. answer' \in [Clients -> NoAnswer .. Record]
    <3>1. Empty \in NoAnswer .. Record
      BY DEF Empty, NoAnswer, Record
    <3>2. CASE ReceiveLists(c)
      BY <3>1, <3>2 DEF ReceiveLists, RequestType
    <3>3. CASE ReceiveGets(c)
      BY <3>3, GetType DEF ReceiveGets, RequestType
    <3> QED BY <1>2, <3>2, <3>3
  <2>5. p \in Points /\ p \in Receiving /\ p \notin Sending
    BY DEF Points, Receiving, Sending
  <2>6. reg' \in [Clients -> 0 .. MaxSends]
    BY <2>1 DEF RequestType
  <2>7. RequestType'
    BY <2>1, <2>2, <2>4, <2>5, <2>6, MoveType DEF file
  <2>8. pc[c] \notin {"load", "store"}
    BY <2>1 DEF Receiving
  <2>9. CountInv'
    BY <2>1, <2>2, <2>8, CountMoved DEF Goto, bounds
  <2> QED BY <2>1, <2>2, <2>3, <2>7, <2>9, StepType DEF Goto, file, bounds, CastType
<1> QED BY <1>1, <1>2

LEMMA AdminStepsType ==
  ASSUME TypeParts, NEW c \in Clients, Administering(c)
  PROVE  TypeParts'
<1> USE DEF TypeParts
<1>1. ASSUME NEW n \in Namespaces, DeleteNamespace(c, n)
      PROVE  TypeParts'
  <2>1. /\ Begin(c, "queues", n)
        /\ namespaces' \subseteq namespaces
        /\ UNCHANGED <<queues, armChildren, msgs, msgId, file, body, reg, picked, answer, due, bounds>>
    BY <1>1 DEF DeleteNamespace
  <2>2. StoreType'
    BY <2>1 DEF StoreType, DiskType, file
  <2>3. RequestType'
    BY <2>1, BeginType DEF file
  <2>4. CountInv'
    BY <2>1, CountMoved DEF Begin, Goto, At, Idle, bounds
  <2> QED BY <2>1, <2>2, <2>3, <2>4, StepType DEF Begin, Goto, file, bounds, CastType
<1>2. ASSUME \/ \E n \in Namespaces : CreateOrUpdateNamespace(n)
             \/ \E q \in Queues : CreateQueueARM(q) \/ DeleteQueueARM(q)
      PROVE  TypeParts'
  <2>1. /\ UNCHANGED <<queues, msgs, msgId, file, pc, requests, due, bounds>>
        /\ Watch
    BY <1>2 DEF CreateOrUpdateNamespace, CreateQueueARM, DeleteQueueARM, Arm
  <2>2. namespaces' \subseteq Namespaces /\ armChildren' \subseteq Queues
    BY <1>2 DEF CreateOrUpdateNamespace, CreateQueueARM, DeleteQueueARM, StoreType
  <2>3. StoreType'
    BY <2>1, <2>2 DEF StoreType, DiskType, file
  <2>4. RequestType'
    BY <2>1 DEF RequestType, TargetInv, requests, file
  <2>5. CountInv'
    BY <2>1, CountKept DEF requests, bounds
  <2> QED BY <2>1, <2>3, <2>4, <2>5, StepType DEF file, bounds, CastType
<1>3. CASE DeleteNamespaceQueues(c)
  <2>1. /\ pc[c] = "queues" /\ Goto(c, "topics")
        /\ UNCHANGED <<namespaces, armChildren, msgs, msgId, file, requests, bounds>>
        /\ queues' \subseteq queues
        /\ due' \subseteq due
    BY <1>3 DEF DeleteNamespaceQueues, At, Forgive
  <2>2. StoreType'
    BY <2>1 DEF StoreType, DiskType, file
  <2>3. "topics" \in Points /\ "topics" \notin Sending /\ "topics" \notin Receiving
    BY DEF Points, Sending, Receiving
  <2>4. RequestType'
    BY <2>1, <2>3, MoveType DEF file, requests, RequestType
  <2>5. CountInv'
    BY <2>1, CountMoved DEF Goto, requests, bounds
  <2> QED BY <2>1, <2>2, <2>4, <2>5, StepType DEF Goto, file, bounds, CastType
<1>4. CASE DeleteNamespaceTopics(c)
  BY <1>4, SetStepType
<1> QED BY <1>1, <1>2, <1>3, <1>4 DEF Administering

LEMMA MessagingType ==
  ASSUME TypeParts, NEW c \in Clients, Messaging(c)
  PROVE  TypeParts'
<1>1. ASSUME NEW q \in Queues, c \in cast.senders, SendMessage(c, q)
      PROVE  TypeParts'
  BY <1>1, SendStepsType DEF SendMessage, Mailboxes
<1>2. ASSUME NEW t \in Topics, c \in cast.senders, PublishMessage(c, t)
      PROVE  TypeParts'
  BY <1>2, SendStepsType DEF PublishMessage, Mailboxes
<1> QED BY <1>1, <1>2, NumberStepsType, SetStepType, ReceiveStepsType DEF Messaging

LEMMA ProcessStepsType ==
  ASSUME TypeParts, Reset \/ Save \/ Restart
  PROVE  TypeParts'
<1> USE DEF TypeParts
<1>1. CASE Reset
  <2>1. /\ UNCHANGED <<msgId, file, pc, requests, runs, sends, restarts>> /\ Watch
        /\ resets < cast.resets /\ resets' = resets + 1
    BY <1>1 DEF Reset
  <2>2. StoreType'
    BY <1>1, <2>1, EmptyType DEF Reset, Holding, EmptyStore, StoreType, DiskType, file
  <2>3. RequestType'
    BY <2>1 DEF RequestType, TargetInv, requests, file
  <2>4. CountInv'
    BY <2>1, CountKept DEF requests
  <2>5. resets' \in 0 .. cast.resets /\ sends' \in 0 .. cast.sends
    BY <2>1, CastBounds DEF CastType
  <2> QED BY <2>1, <2>2, <2>3, <2>4, <2>5, StepType DEF file, CastType
<1>2. CASE Save
  <2>1. UNCHANGED <<store, msgId, cast, backend, pc, requests, window, due, bounds>>
    BY <1>2 DEF Save
  <2>2. StoreType'
    BY <1>2, <2>1 DEF Save, StoreType, DiskType, store
  <2>3. RequestType'
    BY <2>1 DEF RequestType, TargetInv, requests
  <2>4. CountInv'
    BY <2>1, CountKept DEF requests, bounds
  <2> QED BY <2>1, <2>2, <2>3, <2>4, StepType DEF bounds, CastType
<1>3. CASE Restart
  <2>1. /\ Holding(disk) /\ msgId' = 0 /\ runs' = runs \cup {sends}
        /\ UNCHANGED <<cast, backend, disk, sends, resets>>
        /\ restarts < cast.restarts /\ restarts' = restarts + 1
    BY <1>3 DEF Restart, file
  <2>2. /\ pc' = [c \in Clients |-> Idle] /\ target' = [c \in Clients |-> 0]
        /\ body' = [c \in Clients |-> 0] /\ reg' = [c \in Clients |-> 0]
        /\ answer' = [c \in Clients |-> NoAnswer] /\ window' = [c \in Clients |-> {}]
    BY <1>3 DEF Restart
  <2>3. StoreType'
    <3>1. due' \subseteq disk.due
      BY <1>3 DEF Restart
    <3> QED BY <2>1, <3>1 DEF Holding, StoreType, DiskType
  <2>4. RequestType'
    BY <2>2 DEF RequestType, TargetInv, Points, Idle, Sending, Receiving, NoAnswer, Record
  <2>5. CountInv'
    <3>1. Counting' = {}
      BY <2>2 DEF Counting, Idle
    <3>2. sends' \in Nat
      BY <2>1, CastBounds
    <3> QED BY <2>1, <2>2, <3>1, <3>2, FS_EmptySet DEF CountInv, Counted, Idle
  <2>6. CastType'
    BY <2>1, CastBounds DEF CastType
  <2> QED BY <2>1, <2>2, <2>3, <2>4, <2>5, <2>6 DEF WindowType
<1> QED BY <1>1, <1>2, <1>3

LEMMA NextType == TypeParts /\ [Next]_vars => TypeParts'
<1> SUFFICES ASSUME TypeParts, [Next]_vars PROVE TypeParts'
  OBVIOUS
<1>1. CASE UNCHANGED vars
  <2>1. UNCHANGED <<store, msgId, file, pc, requests, window, due, bounds>>
    BY <1>1 DEF vars
  <2>2. StoreType' /\ RequestType' /\ WindowType' /\ CastType'
    BY <2>1 DEF TypeParts, StoreType, DiskType, RequestType, TargetInv, WindowType, CastType,
                store, file, requests, bounds
  <2>3. CountInv'
    BY <2>1, CountKept DEF TypeParts, requests, bounds
  <2> QED BY <2>1, <2>2, <2>3 DEF TypeParts
<1> QED BY <1>1, QueueStepsType, MessagingType, AdminStepsType, ProcessStepsType DEF Next

LEMMA TypeHolds == Spec => []TypeInv
BY InitType, PartsOfType, NextType, PTL DEF Spec

(* Records, numbers and the requests' places keep their types; the counter *)
(* does not pass the number of the messages sent, though two loads may     *)
(* read the same value.                                                    *)
THEOREM TypeCorrect == Spec => []TypeOK
<1>1. TypeInv => TypeOK
  BY DEF TypeInv
<1> QED BY <1>1, TypeHolds, PTL

-----------------------------------------------------------------------------
(* Numbers, with one sender.  Newest is when the present life of the       *)
(* process began; what was sent since then is numbered in order, below     *)
(* what the request of the sender holds.                                   *)

Newest(r) == r \in runs /\ r <= sends /\ \A s \in runs : s <= r

Fine(v, i, r) == /\ v <= sends
                 /\ v > r => i <= msgId
                 /\ \A c \in Clients : pc[c] \in Sending =>
                        /\ v < body[c]
                        /\ v > r /\ pc[c] = "store" => i <= reg[c]
                        /\ v > r /\ pc[c] = "name" => i < msgId
                        /\ v > r /\ pc[c] = "set" => i < reg[c]

Later(x, y) == x < y \/ \E s \in runs : y <= s /\ s < x

Tidy(ms, r) == \A m \in Mailboxes : \A i \in Numbers : ms[m][i] # Empty =>
                   /\ Fine(ms[m][i], i, r)
                   /\ \A j \in Numbers : i < j /\ ms[m][j] # Empty => Later(ms[m][i], ms[m][j])

SenderInv(r) == \A c \in Clients : pc[c] \in Sending =>
                    /\ r < body[c] /\ body[c] <= sends
                    /\ pc[c] = "name" => msgId > 0
                    /\ pc[c] = "set" => reg[c] <= msgId /\ reg[c] > 0

(* With the plain map a life begins with an empty store.                   *)
Recent(r) == backend = "memory" => \A m \in Mailboxes : \A i \in Numbers :
                 /\ msgs[m][i] # Empty => msgs[m][i] > r
                 /\ disk.msgs[m][i] = Empty

OrderAt(r) == Newest(r) /\ Tidy(msgs, r) /\ Tidy(disk.msgs, r) /\ SenderInv(r) /\ Recent(r)

OrderInv == OneSender => \E r \in runs : OrderAt(r)

(* Steps that send nothing: mailboxes may be emptied, the sender stays     *)
(* where it is, and a save copies what there is.                           *)
Aside == /\ UNCHANGED <<msgId, cast, backend, runs, sends>>
         /\ \A m \in Mailboxes : msgs'[m] \in {NoMessages, msgs[m]}
         /\ \A c \in Clients : pc'[c] \in Sending => /\ pc'[c] = pc[c] /\ target'[c] = target[c]
                                                     /\ body'[c] = body[c] /\ reg'[c] = reg[c]
         /\ disk' = disk \/ (disk'.msgs = msgs /\ msgs' = msgs /\ backend = "file")

Sends(c) == /\ c \in cast.senders
            /\ \/ \E q \in Queues : SendMessage(c, q)
               \/ \E t \in Topics : PublishMessage(c, t)

LEMMA AsideShrinks ==
  ASSUME Aside
  PROVE  \A m \in Mailboxes : \A i \in Numbers : msgs'[m][i] \in {Empty, msgs[m][i]}
BY DEF Aside, NoMessages

LEMMA RequestAside ==
  ASSUME RequestType, StoreType, NEW c \in Clients, NEW p, p \notin Sending,
         pc' = [pc EXCEPT ![c] = p],
         UNCHANGED <<msgId, file, runs, sends>>,
         \A d \in Clients \ {c} : target'[d] = target[d] /\ body'[d] = body[d] /\ reg'[d] = reg[d],
         UNCHANGED msgs \/ (\E m \in Mailboxes : msgs' = [msgs EXCEPT ![m] = NoMessages])
  PROVE  Aside
<1>1. \A m \in Mailboxes : msgs'[m] \in {NoMessages, msgs[m]}
  BY DEF StoreType
<1>2. \A d \in Clients : pc'[d] \in Sending => d # c /\ pc'[d] = pc[d]
  BY DEF RequestType
<1> QED BY <1>1, <1>2 DEF Aside, file

LEMMA NotSending == /\ Idle \notin Sending
                    /\ {"create", "sweep", "clear", "queues", "topics", "list", "get", "answer"} \cap Sending = {}
BY DEF Sending, Idle

LEMMA QueueStepsAside ==
  ASSUME TypeParts, NEW c \in Clients, Queueing(c)
  PROVE  Aside
<1> USE DEF TypeParts
<1>1. ASSUME NEW q \in Queues, CreateQueue(c, q) \/ DeleteQueue(c, q) \/ ClearMessages(c, q)
      PROVE  Aside
  <2>1. PICK p \in {"create", "sweep", "clear"} : Begin(c, p, q)
    BY <1>1 DEF CreateQueue, DeleteQueue, ClearMessages
  <2>2. UNCHANGED <<msgs, msgId, file, body, reg, bounds>>
    BY <1>1 DEF CreateQueue, DeleteQueue, ClearMessages, store
  <2> QED BY <2>1, <2>2, NotSending, RequestAside DEF Begin, Goto, RequestType, bounds
<1>2. ASSUME CreateSets(c) \/ DeleteSweeps(c) \/ ClearSweeps(c)
      PROVE  Aside
  <2>1. pc[c] \in {"create", "sweep", "clear"} /\ Finish(c)
    BY <1>2 DEF CreateSets, DeleteSweeps, ClearSweeps, At
  <2>2. UNCHANGED <<msgId, file, bounds>> /\ target[c] \in Mailboxes
    BY <1>2, <2>1 DEF CreateSets, DeleteSweeps, ClearSweeps, RequestType, TargetInv, Mailboxes
  <2>3. UNCHANGED msgs \/ (\E m \in Mailboxes : msgs' = [msgs EXCEPT ![m] = NoMessages])
    BY <1>2, <2>2 DEF CreateSets, DeleteSweeps, ClearSweeps
  <2> QED BY <2>1, <2>2, <2>3, NotSending, RequestAside DEF Finish, Goto, RequestType, bounds
<1> QED BY <1>1, <1>2 DEF Queueing

LEMMA ReceiveStepsAside ==
  ASSUME TypeParts, NEW c \in Clients,
         (\E q \in Queues : ReceiveMessage(c, q)) \/ ReceiveLists(c) \/ ReceiveGets(c) \/ ReceiveAnswers(c)
  PROVE  Aside
<1> USE DEF TypeParts
<1>1. UNCHANGED <<msgs, msgId, file, bounds>>
  BY DEF ReceiveMessage, ReceiveLists, ReceiveGets, ReceiveAnswers, store
<1>2. PICK p \in {"list", "get", "answer", Idle} : pc' = [pc EXCEPT ![c] = p]
  BY DEF ReceiveMessage, ReceiveLists, ReceiveGets, ReceiveAnswers, Begin, Finish, Goto
<1>3. \A d \in Clients \ {c} : target'[d] = target[d] /\ body'[d] = body[d] /\ reg'[d] = reg[d]
  BY DEF ReceiveMessage, ReceiveLists, ReceiveGets, ReceiveAnswers, Begin, Finish, RequestType
<1> QED BY <1>1, <1>2, <1>3, NotSending, RequestAside DEF bounds

LEMMA AdminStepsAside ==
  ASSUME TypeParts, NEW c \in Clients, Administering(c)
  PROVE  Aside
<1> USE DEF TypeParts
<1>1. ASSUME NEW n \in Namespaces, DeleteNamespace(c, n)
      PROVE  Aside
  BY <1>1, NotSending, RequestAside DEF DeleteNamespace, Begin, Goto, RequestType, bounds
<1>2. ASSUME \/ \E n \in Namespaces : CreateOrUpdateNamespace(n)
             \/ \E q \in Queues : CreateQueueARM(q) \/ DeleteQueueARM(q)
      PROVE  Aside
  <2>1. UNCHANGED <<queues, msgs, msgId, file, pc, requests, due, bounds>>
    BY <1>2 DEF CreateOrUpdateNamespace, CreateQueueARM, DeleteQueueARM, Arm
  <2> QED BY <2>1 DEF Aside, file, requests, bounds
<1>3. CASE DeleteNamespaceQueues(c)
  BY <1>3, NotSending, RequestAside DEF DeleteNamespaceQueues, Goto, RequestType, requests, bounds
<1>4. CASE DeleteNamespaceTopics(c)
  <2>1. Finish(c) /\ UNCHANGED <<msgId, file, bounds>>
    BY <1>4 DEF DeleteNamespaceTopics
  <2>2. \A m \in Mailboxes : msgs'[m] \in {NoMessages, msgs[m]}
    BY <1>4 DEF DeleteNamespaceTopics
  <2>3. \A d \in Clients : pc'[d] \in Sending => d # c /\ pc'[d] = pc[d]
    BY <2>1, NotSending DEF Finish, Goto, RequestType
  <2> QED BY <2>1, <2>2, <2>3 DEF Aside, Finish, RequestType, file, bounds
<1> QED BY <1>1, <1>2, <1>3, <1>4 DEF Administering

LEMMA ProcessStepsAside ==
  ASSUME TypeParts, Reset \/ Save
  PROVE  Aside
<1>1. CASE Reset
  <2>1. \A m \in Mailboxes : msgs'[m] \in {NoMessages, msgs[m]}
    BY <1>1 DEF Reset, Holding, EmptyStore
  <2> QED BY <1>1, <2>1 DEF Reset, Aside, file, requests
<1>2. CASE Save
  <2>1. disk'.msgs = msgs
    BY <1>2 DEF Save
  <2> QED BY <1>2, <2>1 DEF Save, Aside, store, requests, bounds
<1> QED BY <1>1, <1>2

(* Every step is one of these.                                             *)
LEMMA StepKinds ==
  ASSUME TypeParts, [Next]_vars
  PROVE  \/ Aside \/ Restart
         \/ \E c \in Clients : Sends(c) \/ MsgIdLoads(c) \/ MsgIdStores(c) \/ MessageNamed(c) \/ MessageSet(c)
<1>1. CASE UNCHANGED vars
  BY <1>1 DEF vars, store, requests, file, bounds, Aside
<1>2. ASSUME NEW c \in Clients, Messaging(c)
      PROVE  Aside \/ Sends(c) \/ MsgIdLoads(c) \/ MsgIdStores(c) \/ MessageNamed(c) \/ MessageSet(c)
  BY <1>2, ReceiveStepsAside DEF Messaging, Sends
<1> QED BY <1>1, <1>2, QueueStepsAside, AdminStepsAside, ProcessStepsAside DEF Next

LEMMA SoleSender ==
  ASSUME TypeParts, OneSender, NEW c \in Clients, c \in cast.senders, NEW d \in Clients, pc[d] \in Sending
  PROVE  d = c
BY DEF TypeParts, RequestType, TargetInv, OneSender

LEMMA FineAside ==
  ASSUME Aside, NEW v \in Nat, NEW i \in Nat, NEW r \in Nat, Fine(v, i, r)
  PROVE  Fine(v, i, r)'
BY DEF Aside, Fine

LEMMA FineSends ==
  ASSUME TypeParts, OneSender, NEW c \in Clients, Sends(c),
         NEW v \in Nat, NEW i \in Nat, NEW r \in Nat, Fine(v, i, r)
  PROVE  Fine(v, i, r)'
<1>1. /\ c \in cast.senders /\ sends' = sends + 1
      /\ body' = [body EXCEPT ![c] = sends + 1] /\ UNCHANGED <<msgId, reg>>
      /\ pc[c] = Idle /\ pc' = [pc EXCEPT ![c] = "load"]
  BY DEF Sends, SendMessage, PublishMessage, Compose, Begin, Goto, At
<1>2. sends \in Nat /\ body'[c] = sends + 1
  BY <1>1, CastBounds DEF TypeParts, RequestType
<1>3. \A d \in Clients : pc'[d] \in Sending => d = c
  BY <1>1, SoleSender DEF TypeParts, RequestType
<1> QED BY <1>1, <1>2, <1>3 DEF Fine, TypeParts, RequestType

LEMMA FineNumbers ==
  ASSUME TypeParts, OneSender, NEW c \in Clients, MsgIdLoads(c) \/ MsgIdStores(c) \/ MessageNamed(c),
         NEW v \in Nat, NEW i \in Nat, NEW r \in Nat, Fine(v, i, r)
  PROVE  Fine(v, i, r)'
<1>1. pc[c] \in Sending /\ UNCHANGED <<sends, body>>
  BY DEF MsgIdLoads, MsgIdStores, MessageNamed, At, Sending, bounds, requests
<1>2. \A d \in Clients : pc[d] \in Sending => d = c
  BY <1>1, SoleSender DEF TypeParts, RequestType, TargetInv
<1>3. v < body[c] /\ msgId \in Nat /\ reg[c] \in Nat
  BY <1>1 DEF Fine, TypeParts, RequestType
<1>4. CASE MsgIdLoads(c)
  <2>1. pc' = [pc EXCEPT ![c] = "store"] /\ reg' = [reg EXCEPT ![c] = msgId] /\ msgId' = msgId
    BY <1>4 DEF MsgIdLoads, Goto
  <2> QED BY <1>1, <1>2, <1>3, <2>1 DEF Fine, TypeParts, RequestType
<1>5. CASE MsgIdStores(c)
  <2>1. pc[c] = "store" /\ pc' = [pc EXCEPT ![c] = "name"] /\ reg' = reg /\ msgId' = reg[c] + 1
    BY <1>5 DEF MsgIdStores, Goto, requests, At
  <2> QED BY <1>1, <1>2, <1>3, <2>1 DEF Fine, TypeParts, RequestType
<1>6. CASE MessageNamed(c)
  <2>1. pc[c] = "name" /\ pc' = [pc EXCEPT ![c] = "set"] /\ reg' = [reg EXCEPT ![c] = msgId] /\ msgId' = msgId
    BY <1>6 DEF MessageNamed, Goto, At
  <2> QED BY <1>1, <1>2, <1>3, <2>1 DEF Fine, TypeParts, RequestType
<1> QED BY <1>4, <1>5, <1>6

LEMMA FineSet ==
  ASSUME TypeParts, OneSender, NEW c \in Clients, MessageSet(c),
         NEW v \in Nat, NEW i \in Nat, NEW r \in Nat, v <= sends, v > r => i <= msgId
  PROVE  Fine(v, i, r)'
<1>1. pc[c] \in Sending /\ UNCHANGED <<sends, msgId>> /\ pc' = [pc EXCEPT ![c] = Idle]
  BY DEF MessageSet, Finish, Goto, At, Sending, bounds
<1>2. \A d \in Clients : pc[d] \in Sending => d = c
  BY <1>1, SoleSender DEF TypeParts, RequestType, TargetInv
<1>3. \A d \in Clients : pc'[d] \notin Sending
  BY <1>1, <1>2, NotSending DEF TypeParts, RequestType
<1> QED BY <1>1, <1>3 DEF Fine

(* A store whose messages all were in a tidy one is tidy.                  *)
LEMMA TidyKept ==
  ASSUME NEW r \in Nat, NEW ms, NEW ns, Tidy(ms, r), UNCHANGED runs,
         \A m \in Mailboxes : \A i \in Numbers : ms[m][i] \in Nat /\ ns[m][i] \in {Empty, ms[m][i]},
         \A v, i \in Nat : Fine(v, i, r) => Fine(v, i, r)'
  PROVE  Tidy(ns, r)'
<1>1. \A x, y : Later(x, y) => Later(x, y)'
  BY DEF Later
<1> SUFFICES ASSUME NEW m \in Mailboxes, NEW i \in Numbers, ns[m][i] # Empty
             PROVE  /\ Fine(ns[m][i], i, r)'
                    /\ \A j \in Numbers : i < j /\ ns[m][j] # Empty => Later(ns[m][i], ns[m][j])'
  BY DEF Tidy
<1>2. i \in Nat /\ ns[m][i] = ms[m][i] /\ ms[m][i] # Empty /\ ms[m][i] \in Nat
  BY DEF Numbers
<1>3. Fine(ms[m][i], i, r)
  BY <1>2 DEF Tidy
<1>4. Fine(ms[m][i], i, r)'
  BY <1>2, <1>3
<1>5. ASSUME NEW j \in Numbers, i < j, ns[m][j] # Empty
      PROVE  Later(ns[m][i], ns[m][j])'
  <2>1. ns[m][j] = ms[m][j] /\ Later(ms[m][i], ms[m][j])
    BY <1>2, <1>5 DEF Tidy
  <2> QED BY <1>1, <1>2, <2>1
<1> QED BY <1>2, <1>4, <1>5

LEMMA StoresKept ==
  ASSUME TypeParts, NEW r \in Nat, Tidy(msgs, r), Tidy(disk.msgs, r), UNCHANGED runs,
         \A m \in Mailboxes : \A i \in Numbers : msgs'[m][i] \in {Empty, msgs[m][i]},
         disk' = disk \/ (disk'.msgs = msgs /\ msgs' = msgs),
         \A v, i \in Nat : Fine(v, i, r) => Fine(v, i, r)'
  PROVE  Tidy(msgs, r)' /\ Tidy(disk.msgs, r)'
<1>1. \A m \in Mailboxes : \A i \in Numbers : msgs[m][i] \in Nat /\ disk.msgs[m][i] \in Nat
  BY DEF TypeParts, StoreType, DiskType
<1>2. PICK ms, ns, ds : ms = msgs /\ ns = msgs' /\ ds = disk.msgs
  OBVIOUS
<1>3. Tidy(ns, r)'
  <2>1. Tidy(ms, r) /\ \A m \in Mailboxes : \A i \in Numbers : ms[m][i] \in Nat /\ ns[m][i] \in {Empty, ms[m][i]}
    BY <1>1, <1>2
  <2> QED BY <2>1, TidyKept
<1>4. Tidy(ds, r)'
  <2>1. Tidy(ds, r) /\ \A m \in Mailboxes : \A i \in Numbers : ds[m][i] \in Nat /\ ds[m][i] \in {Empty, ds[m][i]}
    BY <1>1, <1>2
  <2> QED BY <2>1, TidyKept
<1>5. Tidy(msgs, r)'
  BY <1>2, <1>3
<1>6. disk'.msgs = ds \/ disk'.msgs = ns
  BY <1>2
<1> QED BY <1>3, <1>4, <1>5, <1>6

LEMMA OrderAside ==
  ASSUME TypeParts, NEW r \in Nat, OrderAt(r), Aside
  PROVE  OrderAt(r)'
<1>1. UNCHANGED <<msgId, cast, backend, runs, sends>>
  BY DEF Aside
<1>2. Tidy(msgs, r)' /\ Tidy(disk.msgs, r)'
  BY <1>1, FineAside, AsideShrinks, StoresKept DEF OrderAt, Aside
<1>3. SenderInv(r)'
  BY <1>1 DEF OrderAt, SenderInv, Aside
<1>4. Recent(r)'
  <2>1. ASSUME backend = "memory", NEW m \in Mailboxes, NEW i \in Numbers
        PROVE  (msgs'[m][i] # Empty => msgs'[m][i] > r) /\ disk'.msgs[m][i] = Empty
    BY <2>1, AsideShrinks DEF OrderAt, Recent, Aside
  <2> QED BY <1>1, <2>1 DEF Recent
<1> QED BY <1>1, <1>2, <1>3, <1>4 DEF OrderAt, Newest

LEMMA OrderSends ==
  ASSUME TypeParts, OneSender, NEW r \in Nat, OrderAt(r), NEW c \in Clients, Sends(c)
  PROVE  OrderAt(r)'
<1>1. /\ c \in cast.senders /\ sends' = sends + 1
      /\ body' = [body EXCEPT ![c] = sends + 1]
      /\ UNCHANGED <<msgs, disk, backend, msgId, reg, runs>>
      /\ pc[c] = Idle /\ pc' = [pc EXCEPT ![c] = "load"]
  BY DEF Sends, SendMessage, PublishMessage, Compose, Begin, Goto, At, store, file
<1>2. sends \in Nat /\ body'[c] = sends + 1 /\ pc'[c] = "load"
  BY <1>1, CastBounds DEF TypeParts, RequestType
<1>3. \A d \in Clients : pc'[d] \in Sending => d = c
  BY <1>1, SoleSender DEF TypeParts, RequestType
<1>4. Tidy(msgs, r)' /\ Tidy(disk.msgs, r)'
  BY <1>1, FineSends, StoresKept DEF OrderAt
<1>5. Newest(r)' /\ r < sends + 1
  BY <1>1, <1>2 DEF OrderAt, Newest
<1>6. SenderInv(r)'
  BY <1>1, <1>2, <1>3, <1>5 DEF SenderInv
<1>7. Recent(r)'
  BY <1>1 DEF OrderAt, Recent
<1> QED BY <1>4, <1>5, <1>6, <1>7 DEF OrderAt

LEMMA OrderNumbers ==
  ASSUME TypeParts, OneSender, NEW r \in Nat, OrderAt(r), NEW c \in Clients,
         MsgIdLoads(c) \/ MsgIdStores(c) \/ MessageNamed(c)
  PROVE  OrderAt(r)'
<1>1. pc[c] \in Sending /\ UNCHANGED <<msgs, disk, backend, sends, runs, body>>
  BY DEF MsgIdLoads, MsgIdStores, MessageNamed, At, Sending, bounds, requests, store, file
<1>2. \A d \in Clients : pc[d] \in Sending => d = c
  BY <1>1, SoleSender DEF TypeParts, RequestType, TargetInv
<1>3. Tidy(msgs, r)' /\ Tidy(disk.msgs, r)'
  BY <1>1, FineNumbers, StoresKept DEF OrderAt
<1>4. Newest(r)' /\ Recent(r)'
  BY <1>1 DEF OrderAt, Newest, Recent
<1>5. SenderInv(r)'
  <2>1. r < body[c] /\ body[c] <= sends /\ msgId \in Nat /\ reg[c] \in Nat
    BY <1>1 DEF OrderAt, SenderInv, TypeParts, RequestType
  <2>2. CASE MsgIdLoads(c)
    <3>1. pc' = [pc EXCEPT ![c] = "store"]
      BY <2>2 DEF MsgIdLoads, Goto
    <3> QED BY <1>1, <1>2, <2>1, <3>1 DEF SenderInv, TypeParts, RequestType
  <2>3. CASE MsgIdStores(c)
    <3>1. pc' = [pc EXCEPT ![c] = "name"] /\ msgId' = reg[c] + 1
      BY <2>3 DEF MsgIdStores, Goto
    <3> QED BY <1>1, <1>2, <2>1, <3>1 DEF SenderInv, TypeParts, RequestType
  <2>4. CASE MessageNamed(c)
    <3>1. pc[c] = "name" /\ pc' = [pc EXCEPT ![c] = "set"] /\ reg' = [reg EXCEPT ![c] = msgId] /\ msgId' = msgId
      BY <2>4 DEF MessageNamed, Goto, At
    <3>2. msgId > 0
      BY <1>1, <3>1 DEF OrderAt, SenderInv
    <3> QED BY <1>1, <1>2, <2>1, <3>1, <3>2 DEF SenderInv, TypeParts, RequestType
  <2> QED BY <2>2, <2>3, <2>4
<1> QED BY <1>3, <1>4, <1>5 DEF OrderAt

LEMMA OrderSet ==
  ASSUME TypeParts, OneSender, NEW r \in Nat, OrderAt(r), NEW c \in Clients, MessageSet(c)
  PROVE  OrderAt(r)'
<1> DEFINE t == target[c]
<1> DEFINE n == reg[c]
<1> DEFINE b == body[c]
<1>1. /\ pc[c] = "set" /\ pc[c] \in Sending /\ UNCHANGED <<disk, backend, sends, runs, msgId>>
      /\ msgs' = [msgs EXCEPT ![t][n] = b]
      /\ pc' = [pc EXCEPT ![c] = Idle]
  BY DEF MessageSet, Finish, Goto, At, Sending, bounds, file
<1>2. \A d \in Clients : pc[d] \in Sending => d = c
  BY <1>1, SoleSender DEF TypeParts, RequestType, TargetInv
<1>3. \A d \in Clients : pc'[d] \notin Sending
  BY <1>1, <1>2, NotSending DEF TypeParts, RequestType
<1>4. /\ t \in Mailboxes /\ b \in Nat /\ r < b /\ b <= sends
      /\ n <= msgId /\ n > 0 /\ msgId \in Nat /\ n \in Nat
  BY <1>1 DEF OrderAt, SenderInv, TypeParts, RequestType, TargetInv, Numbers
<1>5. \A v, i \in Nat : Fine(v, i, r) => Fine(v, i, r)'
  BY FineSet DEF Fine
<1>7. Tidy(disk.msgs, r)'
  <2>1. PICK ds : ds = disk.msgs
    OBVIOUS
  <2>2. Tidy(ds, r) /\ \A m \in Mailboxes : \A i \in Numbers : ds[m][i] \in Nat /\ ds[m][i] \in {Empty, ds[m][i]}
    BY <2>1 DEF OrderAt, TypeParts, StoreType, DiskType
  <2>3. Tidy(ds, r)'
    BY <1>1, <1>5, <2>2, TidyKept
  <2> QED BY <1>1, <2>1, <2>3
<1>8. Tidy(msgs, r)'
  <2> SUFFICES ASSUME NEW m \in Mailboxes, NEW i \in Numbers, msgs'[m][i] # Empty
               PROVE  /\ Fine(msgs[m][i], i, r)'
                      /\ \A j \in Numbers : i < j /\ msgs'[m][j] # Empty => Later(msgs[m][i], msgs[m][j])'
    BY DEF Tidy
  <2>1. Tidy(msgs, r) /\ msgs \in [Mailboxes -> [Numbers -> 0 .. MaxSends]]
    BY DEF OrderAt, TypeParts, StoreType
  <2>2. \A k \in Numbers : msgs'[m][k] = IF m = t /\ k = n THEN b ELSE msgs[m][k]
    BY <1>1, <1>4, <2>1
  <2>3. ASSUME NEW k \in Numbers, msgs[m][k] # Empty
        PROVE  msgs[m][k] < b /\ (msgs[m][k] > r => k < n) /\ msgs[m][k] \in Nat
    BY <1>1, <2>1, <2>3 DEF Tidy, Fine
  <2>4. Fine(msgs[m][i], i, r)'
    <3>1. CASE m = t /\ i = n
      <4>1. msgs'[m][i] = b
        BY <2>2, <3>1
      <4>2. b <= sends' /\ n <= msgId'
        BY <1>1, <1>4
      <4> QED BY <1>3, <3>1, <4>1, <4>2 DEF Fine
    <3>2. CASE ~ (m = t /\ i = n)
      <4>1. msgs'[m][i] = msgs[m][i] /\ i \in Nat
        BY <2>2, <3>2 DEF Numbers
      <4>2. Fine(msgs[m][i], i, r) /\ msgs[m][i] \in Nat
        BY <2>1, <2>3, <4>1 DEF Tidy
      <4>3. msgs'[m][i] <= sends' /\ (msgs'[m][i] > r => i <= msgId')
        BY <1>1, <4>1, <4>2 DEF Fine
      <4> QED BY <1>3, <4>3 DEF Fine
    <3> QED BY <3>1, <3>2
  <2>5. ASSUME NEW j \in Numbers, i < j, msgs'[m][j] # Empty
        PROVE  Later(msgs[m][i], msgs[m][j])'
    <3>1. CASE m = t /\ i = n
      <4>1. msgs'[m][j] = msgs[m][j] /\ msgs'[m][i] = b
        BY <2>2, <2>5, <3>1 DEF Numbers
      <4>2. msgs[m][j] <= r
        <5>1. msgs[m][j] \in Nat /\ (msgs[m][j] > r => j < n)
          <6>1. msgs[m][j] # Empty
            BY <2>5, <4>1
          <6> QED BY <2>3, <6>1
        <5>2. ~ (j < n)
          BY <1>4, <2>5, <3>1 DEF Numbers
        <5> QED BY <5>1, <5>2
      <4>3. r \in runs'
        BY <1>1 DEF OrderAt, Newest
      <4> QED BY <1>4, <4>1, <4>2, <4>3 DEF Later
    <3>2. CASE m = t /\ j = n
      <4>1. msgs'[m][i] = msgs[m][i] /\ msgs'[m][j] = b
        BY <2>2, <2>5, <3>2 DEF Numbers
      <4>2. msgs[m][i] # Empty
        BY <4>1
      <4>3. msgs[m][i] < b
        BY <2>3, <4>2
      <4> QED BY <4>1, <4>3 DEF Later
    <3>3. CASE ~ (m = t /\ i = n) /\ ~ (m = t /\ j = n)
      <4>1. msgs'[m][i] = msgs[m][i] /\ msgs'[m][j] = msgs[m][j]
        BY <2>2, <3>3
      <4>2. Later(msgs[m][i], msgs[m][j])
        BY <2>1, <2>5, <4>1 DEF Tidy
      <4> QED BY <1>1, <4>1, <4>2 DEF Later
    <3> QED BY <3>1, <3>2, <3>3
  <2> QED BY <2>4, <2>5
<1>9. Newest(r)' /\ SenderInv(r)'
  BY <1>1, <1>3 DEF OrderAt, Newest, SenderInv
<1>10. Recent(r)'
  BY <1>1, <1>4 DEF OrderAt, Recent, TypeParts, StoreType
<1> QED BY <1>7, <1>8, <1>9, <1>10 DEF OrderAt

LEMMA OrderRestart ==
  ASSUME TypeParts, NEW r \in Nat, OrderAt(r), Restart
  PROVE  sends \in runs' /\ OrderAt(sends)'
<1>1. /\ msgs' = disk.msgs /\ msgId' = 0 /\ runs' = runs \cup {sends} /\ UNCHANGED <<backend, disk, sends>>
      /\ pc' = [c \in Clients |-> Idle]
  BY DEF Restart, Holding, file
<1>2. sends \in Nat /\ runs \subseteq Nat
  BY CastBounds DEF TypeParts, CastType
<1>3. \A c \in Clients : pc'[c] \notin Sending
  BY <1>1, NotSending
<1>4. Newest(sends)'
  BY <1>1, <1>2 DEF OrderAt, Newest
<1>5. SenderInv(sends)' /\ Recent(sends)'
  BY <1>1, <1>3 DEF OrderAt, SenderInv, Recent, Empty
<1>6. Tidy(disk.msgs, sends)'
  <2> SUFFICES ASSUME NEW m \in Mailboxes, NEW i \in Numbers, disk.msgs[m][i] # Empty
               PROVE  /\ Fine(disk.msgs[m][i], i, sends)'
                      /\ \A j \in Numbers : i < j /\ disk.msgs[m][j] # Empty =>
                             Later(disk.msgs[m][i], disk.msgs[m][j])'
    BY <1>1 DEF Tidy
  <2>1. disk.msgs[m][i] \in Nat /\ Fine(disk.msgs[m][i], i, r)
    BY DEF OrderAt, Tidy, TypeParts, StoreType, DiskType
  <2>2. Fine(disk.msgs[m][i], i, sends)'
    BY <1>1, <1>2, <1>3, <2>1 DEF Fine
  <2>3. \A j \in Numbers : i < j /\ disk.msgs[m][j] # Empty => Later(disk.msgs[m][i], disk.msgs[m][j])
    BY DEF OrderAt, Tidy
  <2> QED BY <1>1, <2>2, <2>3 DEF Later
<1> QED BY <1>1, <1>4, <1>5, <1>6 DEF OrderAt

LEMMA InitOrder == Init => OrderInv
<1> SUFFICES ASSUME Init PROVE OrderAt(0)
  BY DEF Init, OrderInv
<1>1. \A m \in Mailboxes : \A i \in Numbers : msgs[m][i] = Empty /\ disk.msgs[m][i] = Empty
  BY DEF Init, EmptyStore, NoMessages
<1>2. Tidy(msgs, 0) /\ Tidy(disk.msgs, 0) /\ Recent(0)
  BY <1>1 DEF Tidy, Recent
<1>3. SenderInv(0) /\ Newest(0)
  BY NotSending DEF Init, NoRequests, SenderInv, Newest
<1> QED BY <1>2, <1>3 DEF OrderAt

LEMMA NextOrder == TypeParts /\ OrderInv /\ [Next]_vars => OrderInv'
<1> SUFFICES ASSUME TypeParts, OrderInv, [Next]_vars PROVE OrderInv'
  OBVIOUS
<1>1. cast' = cast
  <2>1. ASSUME NEW c \in Clients, Sends(c) PROVE cast' = cast
    BY <2>1 DEF Sends, SendMessage, PublishMessage, Compose, file
  <2> QED BY <2>1, StepKinds DEF Aside, Restart, MsgIdLoads, MsgIdStores, MessageNamed, MessageSet, file
<1> SUFFICES ASSUME OneSender PROVE \E r \in runs' : OrderAt(r)'
  BY <1>1 DEF OrderInv, OneSender
<1>2. PICK r \in runs : OrderAt(r)
  BY DEF OrderInv
<1>3. r \in Nat
  BY DEF TypeParts, CastType
<1>4. CASE Restart
  BY <1>2, <1>3, <1>4, OrderRestart DEF Restart, file, bounds
<1>5. CASE ~Restart
  <2>1. OrderAt(r)'
    BY <1>2, <1>3, <1>5, StepKinds, OrderAside, OrderSends, OrderNumbers, OrderSet
  <2> QED BY <2>1 DEF OrderAt, Newest
<1> QED BY <1>4, <1>5

LEMMA PartsHold == Spec => []TypeParts
BY InitType, PartsOfType, NextType, PTL DEF Spec

LEMMA OrderHolds == Spec => []OrderInv
BY PartsHold, InitOrder, NextOrder, PTL DEF Spec

(* One sender's messages are numbered in the order in which they were      *)
(* sent, whoever creates, deletes, clears and restores queues meanwhile:   *)
(* msgId++ against restarts and every other handler.                       *)
THEOREM NumbersFollow == Spec => []NumbersFollowTheSends
<1>1. OrderInv => NumbersFollowTheSends
  BY DEF OrderInv, OrderAt, Tidy, Later, NumbersFollowTheSends
<1> QED BY <1>1, OrderHolds, PTL

-----------------------------------------------------------------------------
(* Receives, with one sender and the plain map.  The key that was picked   *)
(* is the first of its queue as long as it is there, because its number is *)
(* not used again; when it has gone, the whole queue has been emptied.     *)

PickedInv == picked = [c \in Clients |-> picked[c]]

PickedAt(c, r) == \E i \in Numbers : \E v \in Nat :
    /\ picked[c] = MessageKey(target[c], i)
    /\ v > r /\ Fine(v, i, r)
    /\ msgs[target[c]][i] = v \/ (msgs[target[c]][i] = Empty /\ Empty \in window[c])
    /\ \A j \in Numbers : j < i => msgs[target[c]][j] = Empty

WindowAt(r) == \A c \in Clients :
    /\ pc[c] \in {"list", "get"} => Oldest(msgs[target[c]]) \in window[c]
    /\ pc[c] = "get" => PickedAt(c, r)
    /\ pc[c] = "answer" => answer[c] \in window[c]

(* What one step does to a request that is not at its beginning.           *)
Stays(c) == pc'[c] = pc[c] /\ target'[c] = target[c] /\ picked'[c] = picked[c] /\ answer'[c] = answer[c]

Noted == Watch \/ UNCHANGED <<msgs, target, pc, window>>

LEMMA NextPicked == PickedInv /\ [Next]_vars => PickedInv'
<1> SUFFICES ASSUME PickedInv, [Next]_vars PROVE PickedInv'
  OBVIOUS
<1>1. ASSUME UNCHANGED picked \/ (\E c \in Clients : \E k : picked' = [picked EXCEPT ![c] = k])
      PROVE  PickedInv'
  BY <1>1 DEF PickedInv
<1>2. CASE UNCHANGED vars
  BY <1>1, <1>2 DEF vars, requests
<1>3. ASSUME NEW c \in Clients, Queueing(c) PROVE PickedInv'
  BY <1>1, <1>3 DEF Queueing, CreateSets, DeleteSweeps, ClearSweeps, CreateQueue, DeleteQueue, ClearMessages, Finish
<1>4. ASSUME NEW c \in Clients, Messaging(c) PROVE PickedInv'
  <2>1. ASSUME NEW q, SendMessage(c, q) \/ PublishMessage(c, q) \/ ReceiveMessage(c, q) PROVE PickedInv'
    BY <1>1, <2>1 DEF SendMessage, PublishMessage, Compose, ReceiveMessage
  <2>2. ASSUME MsgIdLoads(c) \/ MsgIdStores(c) \/ MessageNamed(c) \/ MessageSet(c) PROVE PickedInv'
    BY <1>1, <2>2 DEF MsgIdLoads, MsgIdStores, MessageNamed, MessageSet, Finish, requests
  <2>3. ASSUME ReceiveLists(c) \/ ReceiveGets(c) \/ ReceiveAnswers(c) PROVE PickedInv'
    <3>1. CASE ReceiveLists(c)
      BY <1>1, <3>1 DEF ReceiveLists
    <3>2. CASE ReceiveGets(c) \/ ReceiveAnswers(c)
      BY <1>1, <3>2 DEF ReceiveGets, ReceiveAnswers, Finish
    <3> QED BY <2>3, <3>1, <3>2
  <2> QED BY <1>4, <2>1, <2>2, <2>3 DEF Messaging
<1>5. ASSUME NEW c \in Clients, Administering(c) PROVE PickedInv'
  BY <1>1, <1>5 DEF Administering, DeleteNamespace, CreateOrUpdateNamespace, CreateQueueARM, DeleteQueueARM, Arm,
                    DeleteNamespaceQueues, DeleteNamespaceTopics, Finish, requests
<1>6. CASE Reset \/ Save
  BY <1>1, <1>6 DEF Reset, Save, requests
<1>7. CASE Restart
  BY <1>7 DEF Restart, PickedInv
<1> QED BY <1>2, <1>3, <1>4, <1>5, <1>6, <1>7 DEF Next

LEMMA NextNoted == [Next]_vars /\ ~Restart => Noted
<1> SUFFICES ASSUME [Next]_vars, ~Restart PROVE Noted
  OBVIOUS
<1>1. CASE UNCHANGED vars
  BY <1>1 DEF vars, store, requests, Noted
<1>2. ASSUME NEW c \in Clients, NEW p, Goto(c, p) PROVE Watch
  BY <1>2 DEF Goto
<1>3. ASSUME NEW c \in Clients, Queueing(c) PROVE Watch
  BY <1>2, <1>3 DEF Queueing, CreateSets, DeleteSweeps, ClearSweeps, CreateQueue, DeleteQueue, ClearMessages, Finish, Begin
<1>4. ASSUME NEW c \in Clients, Messaging(c) PROVE Watch
  <2>1. ASSUME NEW q, SendMessage(c, q) \/ PublishMessage(c, q) \/ ReceiveMessage(c, q) PROVE Watch
    BY <1>2, <2>1 DEF SendMessage, PublishMessage, Compose, ReceiveMessage, Begin
  <2>2. ASSUME MsgIdLoads(c) \/ MsgIdStores(c) \/ MessageNamed(c) \/ MessageSet(c) PROVE Watch
    BY <1>2, <2>2 DEF MsgIdLoads, MsgIdStores, MessageNamed, MessageSet, Finish
  <2>3. ASSUME ReceiveLists(c) \/ ReceiveGets(c) \/ ReceiveAnswers(c) PROVE Watch
    BY <1>2, <2>3 DEF ReceiveLists, ReceiveGets, ReceiveAnswers, Finish
  <2> QED BY <1>4, <2>1, <2>2, <2>3 DEF Messaging
<1>5. ASSUME NEW c \in Clients, Administering(c) PROVE Watch
  BY <1>2, <1>5 DEF Administering, DeleteNamespace, CreateOrUpdateNamespace, CreateQueueARM, DeleteQueueARM,
                    DeleteNamespaceQueues, DeleteNamespaceTopics, Finish, Begin
<1>6. CASE Reset
  BY <1>6 DEF Reset, Noted
<1>7. CASE Save
  BY <1>7 DEF Save, store, requests, Noted
<1> QED BY <1>1, <1>3, <1>4, <1>5, <1>6, <1>7 DEF Next, Noted

LEMMA WindowGrows ==
  ASSUME TypeParts, Noted, NEW c \in Clients, pc'[c] \in Receiving
  PROVE  /\ window[c] \subseteq window'[c]
         /\ pc'[c] \in {"list", "get"} =>
                \/ Oldest(msgs'[target'[c]]) \in window'[c]
                \/ UNCHANGED <<msgs, target, pc, window>>
<1>1. CASE Watch
  <2>1. CASE pc'[c] \in {"list", "get"}
    <3>1. window'[c] = window[c] \cup {Oldest(msgs'[target'[c]])}
      BY <1>1, <2>1 DEF Watch
    <3> QED BY <3>1
  <2>2. CASE pc'[c] = "answer"
    <3>1. window'[c] = window[c]
      BY <1>1, <2>2 DEF Watch
    <3> QED BY <2>2, <3>1
  <2> QED BY <2>1, <2>2 DEF Receiving
<1>2. CASE UNCHANGED <<msgs, target, pc, window>>
  BY <1>2
<1> QED BY <1>1, <1>2 DEF Noted

(* A request that is receiving after a step was in the same place before   *)
(* it, or took the step itself.                                            *)
Elsewhere(c) == \E d \in Clients \ {c} : \E p, t, k, a :
    /\ pc' = [pc EXCEPT ![d] = p]
    /\ target' = [target EXCEPT ![d] = t] \/ target' = target
    /\ picked' = [picked EXCEPT ![d] = k] \/ picked' = picked
    /\ answer' = [answer EXCEPT ![d] = a] \/ answer' = answer

LEMMA ElsewhereStays ==
  ASSUME TypeParts, PickedInv, NEW c \in Clients, Elsewhere(c)
  PROVE  Stays(c)
<1>1. PICK d \in Clients \ {c} : \E p, t, k, a :
    /\ pc' = [pc EXCEPT ![d] = p]
    /\ target' = [target EXCEPT ![d] = t] \/ target' = target
    /\ picked' = [picked EXCEPT ![d] = k] \/ picked' = picked
    /\ answer' = [answer EXCEPT ![d] = a] \/ answer' = answer
  BY DEF Elsewhere
<1>2. pc'[c] = pc[c] /\ target'[c] = target[c] /\ answer'[c] = answer[c]
  BY <1>1 DEF TypeParts, RequestType
<1>3. picked'[c] = picked[c]
  BY <1>1 DEF PickedInv
<1> QED BY <1>2, <1>3 DEF Stays

LEMMA Receivers ==
  ASSUME TypeParts, PickedInv, [Next]_vars, ~Restart, NEW c \in Clients, pc'[c] \in Receiving
  PROVE  Stays(c) \/ pc'[c] = "list" \/ ReceiveLists(c) \/ ReceiveGets(c)
<1>1. CASE UNCHANGED vars
  BY <1>1 DEF vars, requests, Stays
<1>2. CASE Reset \/ Save
  BY <1>2 DEF Reset, Save, requests, Stays
<1> USE DEF TypeParts, RequestType, Receiving, Idle
<1>3. ASSUME NEW d \in Clients, NEW p \in Points \ Receiving, pc' = [pc EXCEPT ![d] = p]
      PROVE  d # c
  BY <1>3
<1>4. ASSUME NEW d \in Clients, Queueing(d) PROVE Stays(c)
  <2>1. ASSUME NEW q \in Queues, CreateQueue(d, q) \/ DeleteQueue(d, q) \/ ClearMessages(d, q) PROVE Elsewhere(c)
    BY <1>3, <2>1 DEF CreateQueue, DeleteQueue, ClearMessages, Begin, Goto, Elsewhere, Points
  <2>2. ASSUME CreateSets(d) \/ DeleteSweeps(d) \/ ClearSweeps(d) PROVE Elsewhere(c)
    BY <1>3, <2>2 DEF CreateSets, DeleteSweeps, ClearSweeps, Finish, Goto, Elsewhere, Points
  <2> QED BY <1>4, <2>1, <2>2, ElsewhereStays DEF Queueing
<1>5. ASSUME NEW d \in Clients, Messaging(d)
      PROVE  Stays(c) \/ pc'[c] = "list" \/ ReceiveLists(c) \/ ReceiveGets(c)
  <2>1. ASSUME NEW q, SendMessage(d, q) \/ PublishMessage(d, q) PROVE Elsewhere(c)
    BY <1>3, <2>1 DEF SendMessage, PublishMessage, Compose, Begin, Goto, Elsewhere, Points, Sending
  <2>2. ASSUME MsgIdLoads(d) \/ MsgIdStores(d) \/ MessageNamed(d) PROVE Elsewhere(c)
    BY <1>3, <2>2 DEF MsgIdLoads, MsgIdStores, MessageNamed, Goto, Elsewhere, Points, Sending, requests
  <2>3. ASSUME MessageSet(d) \/ ReceiveAnswers(d) PROVE Elsewhere(c)
    BY <1>3, <2>3 DEF MessageSet, ReceiveAnswers, Finish, Goto, Elsewhere, Points
  <2>4. ASSUME NEW q \in Queues, ReceiveMessage(d, q) PROVE Elsewhere(c) \/ pc'[c] = "list"
    BY <2>4 DEF ReceiveMessage, Begin, Goto, Elsewhere
  <2>5. ASSUME ReceiveLists(d) \/ ReceiveGets(d) PROVE Elsewhere(c) \/ d = c
    BY <2>5 DEF ReceiveLists, ReceiveGets, Goto, Elsewhere
  <2> QED BY <1>5, <2>1, <2>2, <2>3, <2>4, <2>5, ElsewhereStays DEF Messaging
<1>6. ASSUME NEW d \in Clients, Administering(d) PROVE Stays(c)
  <2>1. ASSUME NEW n, DeleteNamespace(d, n) PROVE Elsewhere(c)
    BY <1>3, <2>1 DEF DeleteNamespace, Begin, Goto, Elsewhere, Points
  <2>2. ASSUME DeleteNamespaceQueues(d) \/ DeleteNamespaceTopics(d) PROVE Elsewhere(c)
    BY <1>3, <2>2 DEF DeleteNamespaceQueues, DeleteNamespaceTopics, Finish, Goto, Elsewhere, Points, requests
  <2>3. ASSUME NEW q, CreateOrUpdateNamespace(q) \/ CreateQueueARM(q) \/ DeleteQueueARM(q) PROVE Stays(c)
    BY <2>3 DEF CreateOrUpdateNamespace, CreateQueueARM, DeleteQueueARM, Arm, requests, Stays
  <2> QED BY <1>6, <2>1, <2>2, <2>3, ElsewhereStays DEF Administering
<1> QED BY <1>1, <1>2, <1>4, <1>5, <1>6 DEF Next

(* The first key of a queue is that of its least number.                   *)
LEMMA FirstIsLeast ==
  ASSUME StoreType, PlainMap, NEW q \in Queues, ListKeysByPrefix(q) # {}
  PROVE  \E i \in Numbers : /\ First(ListKeysByPrefix(q)) = MessageKey(q, i)
                            /\ msgs[q][i] # Empty
                            /\ \A j \in Numbers : j < i => msgs[q][j] = Empty
<1> DEFINE T == {i \in Numbers : msgs[q][i] # Empty}
<1> DEFINE K == {<<2, q, i>> : i \in T}
<1>1. ListKeysByPrefix(q) = K
  <2>1. ASSUME NEW i \in T PROVE <<2, q, i>> \in AllKeys
    <3>1. <<q, i>> \in {y \in Mailboxes \X Numbers : msgs[y[1]][y[2]] # Empty}
      BY DEF Mailboxes
    <3>2. MessageKey(q, i) \in AllKeys
      BY <3>1 DEF AllKeys
    <3> QED BY <3>2 DEF MessageKey
  <2>2. ASSUME NEW k \in AllKeys, k[1] = 2, k[2] = q PROVE k \in K
    <3>1. PICK x \in {y \in Mailboxes \X Numbers : msgs[y[1]][y[2]] # Empty} : k = MessageKey(x[1], x[2])
      BY <2>2 DEF AllKeys, ArmKey, NamespaceKey, QueueKey
    <3>2. x[1] = q /\ x[2] \in T
      BY <2>2, <3>1 DEF MessageKey
    <3> QED BY <3>1, <3>2 DEF MessageKey
  <2>3. {k \in AllKeys : k[1] = 2 /\ k[2] = q} = K
    <3>1. \A k \in K : k \in AllKeys /\ k[1] = 2 /\ k[2] = q
      BY <2>1
    <3> HIDE DEF K
    <3> QED BY <2>2, <3>1
  <2> QED BY <2>3 DEF ListKeysByPrefix, PlainMap
<1>2. T # {} /\ T \in SUBSET Nat
  BY <1>1 DEF Numbers
<1>3. PICK x \in T : \A y \in T : x <= y
  BY <1>2, LeastExists
<1>4. \A y \in T \ {x} : Before(<<2, q, x>>, <<2, q, y>>)
  <2> SUFFICES ASSUME NEW y \in T \ {x} PROVE Before(<<2, q, x>>, <<2, q, y>>)
    OBVIOUS
  <2>1. x < y
    BY <1>2, <1>3
  <2> QED BY <2>1 DEF Before
<1>5. \A l \in K \ {<<2, q, x>>} : Before(<<2, q, x>>, l)
  BY <1>4
<1>6. First(K) \in K /\ \A l \in K \ {First(K)} : Before(First(K), l)
  <2>1. \E k \in K : \A l \in K \ {k} : Before(k, l)
    BY <1>3, <1>5
  <2> HIDE DEF K
  <2> QED BY <2>1 DEF First
<1>7. PICK i \in T : First(K) = <<2, q, i>>
  BY <1>6
<1>8. ASSUME NEW j \in Numbers, j < i, msgs[q][j] # Empty PROVE FALSE
  <2>1. j \in T /\ j \in Nat /\ i \in Nat /\ <<2, q, j>> # <<2, q, i>>
    BY <1>2, <1>8
  <2>2. Before(<<2, q, i>>, <<2, q, j>>)
    BY <1>6, <1>7, <2>1
  <2>3. q \in Nat
    BY NamesAssumption
  <2> QED BY <1>8, <2>1, <2>2, <2>3 DEF Before
<1> QED BY <1>1, <1>7, <1>8 DEF MessageKey

LEMMA PickedStays ==
  ASSUME TypeParts, OneSender, PlainMap, NEW r \in Nat, OrderAt(r), NEW c \in Clients, PickedAt(c, r),
         pc[c] = "get", Stays(c), Noted, [Next]_vars, ~Restart
  PROVE  PickedAt(c, r)'
<1> DEFINE q == target[c]
<1>1. PICK i \in Numbers, v \in Nat :
         /\ picked[c] = MessageKey(q, i)
         /\ v > r /\ Fine(v, i, r)
         /\ msgs[q][i] = v \/ (msgs[q][i] = Empty /\ Empty \in window[c])
         /\ \A j \in Numbers : j < i => msgs[q][j] = Empty
  BY DEF PickedAt
<1>2. q \in Queues /\ pc'[c] = "get" /\ i \in Nat /\ msgs[q] \in [Numbers -> 0 .. MaxSends]
  BY DEF TypeParts, RequestType, StoreType, TargetInv, Receiving, Stays, Numbers, Mailboxes
<1>3. /\ window[c] \subseteq window'[c]
      /\ Oldest(msgs'[q]) \in window'[c] \/ UNCHANGED msgs
  BY <1>2, WindowGrows DEF Receiving, Stays
<1>4. ASSUME /\ Fine(v, i, r)'
             /\ msgs'[q][i] = msgs[q][i] \/ (msgs'[q][i] = Empty /\ Empty \in window'[c])
             /\ \A j \in Numbers : j < i => msgs'[q][j] = Empty
      PROVE  PickedAt(c, r)'
  <2>1. picked'[c] = MessageKey(q, i) /\ target'[c] = q
    BY <1>1 DEF Stays
  <2>2. msgs'[q][i] = v \/ (msgs'[q][i] = Empty /\ Empty \in window'[c])
    BY <1>1, <1>3, <1>4
  <2> QED BY <1>1, <1>4, <2>1, <2>2 DEF PickedAt, MessageKey
<1>5. CASE Aside
  <2>1. Fine(v, i, r)'
    BY <1>1, <1>2, <1>5, FineAside
  <2>2. CASE msgs'[q] = msgs[q]
    BY <1>1, <1>4, <2>1, <2>2
  <2>3. CASE msgs'[q] = NoMessages /\ msgs'[q] # msgs[q]
    <3>1. Stored(NoMessages) = {}
      BY DEF Stored, NoMessages
    <3>2. Empty \in window'[c]
      BY <1>3, <2>3, <3>1 DEF Oldest
    <3> QED BY <1>4, <2>1, <2>3, <3>2 DEF NoMessages
  <2> QED BY <1>2, <1>5, <2>2, <2>3 DEF Aside, Mailboxes
<1>6. ASSUME NEW d \in Clients, Sends(d) \/ MsgIdLoads(d) \/ MsgIdStores(d) \/ MessageNamed(d)
      PROVE  PickedAt(c, r)'
  <2>1. Fine(v, i, r)'
    BY <1>1, <1>2, <1>6, FineSends, FineNumbers
  <2>2. UNCHANGED msgs
    BY <1>6 DEF Sends, SendMessage, PublishMessage, Compose, MsgIdLoads, MsgIdStores, MessageNamed, store
  <2> QED BY <1>1, <1>4, <2>1, <2>2
<1>7. ASSUME NEW d \in Clients, MessageSet(d)
      PROVE  PickedAt(c, r)'
  <2>1. Fine(v, i, r)'
    BY <1>1, <1>2, <1>7, FineSet DEF Fine
  <2>2. pc[d] = "set" /\ msgs' = [msgs EXCEPT ![target[d]][reg[d]] = body[d]]
    BY <1>7 DEF MessageSet, At
  <2>3. i < reg[d] /\ reg[d] \in Nat
    BY <1>1, <2>2 DEF Fine, Sending, TypeParts, RequestType
  <2>4. \A j \in Numbers : j <= i => msgs'[q][j] = msgs[q][j]
    BY <1>2, <2>2, <2>3 DEF Numbers, TypeParts, StoreType, Mailboxes
  <2>5. \A j \in Numbers : j < i => j <= i
    BY <1>2 DEF Numbers
  <2> QED BY <1>1, <1>2, <1>4, <2>1, <2>4, <2>5
<1> QED BY <1>5, <1>6, <1>7, StepKinds

LEMMA ListsPicks ==
  ASSUME TypeParts, OneSender, PlainMap, NEW r \in Nat, OrderAt(r), OrderAt(r)', WindowAt(r), NEW c \in Clients,
         ReceiveLists(c), PickedInv
  PROVE  /\ pc'[c] = "get" => PickedAt(c, r)'
         /\ pc'[c] = "answer" => answer'[c] \in window[c]
<1> DEFINE q == target[c]
<1>1. pc[c] = "list" /\ q \in Queues /\ q \in Mailboxes
  BY DEF ReceiveLists, At, TypeParts, RequestType, TargetInv, Receiving, Mailboxes
<1>2. UNCHANGED <<msgs, target>>
  BY DEF ReceiveLists, store
<1>3. msgs[q] \in [Numbers -> 0 .. MaxSends] /\ StoreType
  BY <1>1 DEF TypeParts, StoreType
<1>4. CASE ListKeysByPrefix(q) = {}
  <2>1. pc' = [pc EXCEPT ![c] = "answer"] /\ answer' = [answer EXCEPT ![c] = Empty]
    BY <1>4 DEF ReceiveLists, Goto
  <2>2. pc'[c] = "answer" /\ answer'[c] = Empty
    BY <2>1 DEF TypeParts, RequestType
  <2>3. ASSUME NEW i \in Numbers, msgs[q][i] # Empty PROVE FALSE
    <3>1. <<q, i>> \in {y \in Mailboxes \X Numbers : msgs[y[1]][y[2]] # Empty}
      BY <1>1, <2>3
    <3>2. MessageKey(q, i) \in AllKeys
      BY <3>1 DEF AllKeys
    <3> QED BY <1>1, <1>4, <3>2 DEF MessageKey, ListKeysByPrefix, PlainMap
  <2>4. Oldest(msgs[q]) = Empty
    BY <2>3 DEF Oldest, Stored
  <2> QED BY <1>1, <2>2, <2>4 DEF WindowAt
<1>5. CASE ListKeysByPrefix(q) # {}
  <2>1. pc' = [pc EXCEPT ![c] = "get"] /\ picked' = [picked EXCEPT ![c] = First(ListKeysByPrefix(q))]
    BY <1>5 DEF ReceiveLists, Goto
  <2>2. pc'[c] = "get" /\ picked'[c] = First(ListKeysByPrefix(q))
    BY <2>1 DEF TypeParts, RequestType, PickedInv
  <2>3. PICK i \in Numbers : /\ First(ListKeysByPrefix(q)) = MessageKey(q, i)
                             /\ msgs[q][i] # Empty
                             /\ \A j \in Numbers : j < i => msgs[q][j] = Empty
    BY <1>1, <1>3, <1>5, FirstIsLeast
  <2>4. PICK v \in Nat : v = msgs[q][i]
    BY <1>3
  <2>5. v > r
    BY <1>1, <2>3, <2>4 DEF OrderAt, Recent, PlainMap
  <2>6. Fine(msgs[q][i], i, r)'
    BY <1>1, <1>2, <2>3 DEF OrderAt, Tidy
  <2>7. Fine(v, i, r)'
    BY <1>2, <2>4, <2>6
  <2> QED BY <1>2, <2>2, <2>3, <2>4, <2>5, <2>7 DEF PickedAt, MessageKey
<1> QED BY <1>4, <1>5

LEMMA GetsOldest ==
  ASSUME TypeParts, PlainMap, NEW r \in Nat, OrderAt(r), WindowAt(r), NEW c \in Clients, ReceiveGets(c)
  PROVE  answer'[c] \in window[c]
<1> DEFINE q == target[c]
<1>1. pc[c] = "get" /\ q \in Queues /\ q \in Mailboxes
  BY DEF ReceiveGets, At, TypeParts, RequestType, TargetInv, Receiving, Mailboxes
<1>2. answer'[c] = Get(picked[c])
  BY DEF ReceiveGets, TypeParts, RequestType
<1>3. PICK i \in Numbers, v \in Nat :
         /\ picked[c] = MessageKey(q, i)
         /\ v > r /\ Fine(v, i, r)
         /\ msgs[q][i] = v \/ (msgs[q][i] = Empty /\ Empty \in window[c])
         /\ \A j \in Numbers : j < i => msgs[q][j] = Empty
  BY <1>1 DEF WindowAt, PickedAt
<1>4. picked[c][1] = 2 /\ picked[c][2] = q /\ picked[c][3] = i
  BY <1>1, <1>3 DEF MessageKey
<1>5. Get(picked[c]) \in {Empty, msgs[q][i]}
  BY <1>4 DEF Get
<1>6. CASE msgs[q][i] = Empty
  BY <1>2, <1>3, <1>5, <1>6 DEF Empty
<1>7. CASE msgs[q][i] # Empty
  <2>1. <<q, i>> \in {y \in Mailboxes \X Numbers : msgs[y[1]][y[2]] # Empty}
    BY <1>1, <1>7
  <2>2. picked[c] \in AllKeys
    BY <1>3, <2>1 DEF AllKeys
  <2>3. Get(picked[c]) = v /\ msgs[q][i] = v
    BY <1>3, <1>4, <1>7, <2>2 DEF Get
  <2>4. msgs[q] \in [Numbers -> 0 .. MaxSends]
    BY <1>1 DEF TypeParts, StoreType
  <2>5. ASSUME NEW y \in Stored(msgs[q]) PROVE v <= y
    <3>1. PICK j \in Numbers : y = msgs[q][j] /\ msgs[q][j] # Empty
      BY DEF Stored
    <3>2. j \in Nat /\ i \in Nat /\ y \in Nat /\ ~ (j < i)
      BY <1>3, <2>4, <3>1 DEF Numbers
    <3>3. CASE j = i
      BY <2>3, <3>1, <3>2, <3>3
    <3>4. CASE i < j
      <4>1. Later(v, y)
        BY <1>1, <1>7, <2>3, <3>1, <3>4 DEF OrderAt, Tidy
      <4>2. y > r
        BY <1>1, <3>1 DEF OrderAt, Recent, PlainMap
      <4>3. \A s \in runs : s \in Nat /\ s <= r
        BY DEF OrderAt, Newest, TypeParts, CastType
      <4> QED BY <3>2, <4>1, <4>2, <4>3 DEF Later
    <3> QED BY <3>2, <3>3, <3>4
  <2>6. v \in Stored(msgs[q])
    BY <1>7, <2>3 DEF Stored
  <2>7. Oldest(msgs[q]) = v
    BY <2>4, <2>5, <2>6, OldestIs
  <2> QED BY <1>1, <1>2, <2>3, <2>7 DEF WindowAt
<1> QED BY <1>6, <1>7

LEMMA NextWindowAt ==
  ASSUME TypeParts, OneSender, PlainMap, PickedInv, NEW r \in Nat, OrderAt(r), OrderAt(r)', WindowAt(r),
         [Next]_vars, ~Restart, NEW c \in Clients
  PROVE  /\ pc'[c] \in {"list", "get"} => Oldest(msgs'[target'[c]]) \in window'[c]
         /\ pc'[c] = "get" => PickedAt(c, r)'
         /\ pc'[c] = "answer" => answer'[c] \in window'[c]
<1> SUFFICES ASSUME pc'[c] \in Receiving
             PROVE  /\ pc'[c] \in {"list", "get"} => Oldest(msgs'[target'[c]]) \in window'[c]
                    /\ pc'[c] = "get" => PickedAt(c, r)'
                    /\ pc'[c] = "answer" => answer'[c] \in window'[c]
  BY DEF Receiving
<1>1. Noted
  BY NextNoted
<1>2. window[c] \subseteq window'[c]
  BY <1>1, WindowGrows
<1>3. pc'[c] \in {"list", "get"} => Oldest(msgs'[target'[c]]) \in window'[c]
  BY <1>1, WindowGrows DEF WindowAt
<1>4. CASE Stays(c)
  BY <1>1, <1>2, <1>3, <1>4, PickedStays DEF WindowAt, Stays
<1>5. CASE ReceiveLists(c)
  BY <1>2, <1>3, <1>5, ListsPicks
<1>6. CASE ReceiveGets(c)
  <2>1. pc'[c] = "answer"
    BY <1>6 DEF ReceiveGets, Goto, TypeParts, RequestType
  <2> QED BY <1>2, <1>6, <2>1, GetsOldest
<1>7. CASE pc'[c] = "list"
  BY <1>3, <1>7
<1> QED BY <1>4, <1>5, <1>6, <1>7, Receivers

(* Both invariants speak of one beginning of the present life.             *)
OrderedWindow == PlainMap /\ OneSender => \E r \in runs : OrderAt(r) /\ WindowAt(r)

LEMMA NextWindow ==
  ASSUME TypeParts, TypeParts', OrderInv, OrderInv', PickedInv, OrderedWindow, [Next]_vars
  PROVE  OrderedWindow'
<1>1. UNCHANGED <<cast, backend>>
  <2>1. ASSUME NEW c \in Clients, Sends(c) PROVE UNCHANGED <<cast, backend>>
    BY <2>1 DEF Sends, SendMessage, PublishMessage, Compose, file
  <2> QED BY <2>1, StepKinds DEF Aside, Restart, MsgIdLoads, MsgIdStores, MessageNamed, MessageSet, file
<1> SUFFICES ASSUME PlainMap, OneSender PROVE \E r \in runs' : OrderAt(r)' /\ WindowAt(r)'
  BY <1>1 DEF OrderedWindow, OneSender, PlainMap
<1>2. PICK r \in runs : OrderAt(r) /\ WindowAt(r)
  BY DEF OrderedWindow
<1>3. r \in Nat
  <2>1. runs \subseteq 0 .. MaxSends
    BY DEF TypeParts, CastType
  <2> QED BY <1>2, <2>1
<1>4. CASE Restart
  <2>1. sends \in runs' /\ OrderAt(sends)'
    BY <1>2, <1>3, <1>4, OrderRestart
  <2>2. \A c \in Clients : pc'[c] = Idle
    BY <1>4 DEF Restart
  <2>3. WindowAt(sends)'
    BY <2>2 DEF WindowAt, Idle
  <2>4. sends' = sends
    BY <1>4 DEF Restart
  <2> QED BY <2>1, <2>3, <2>4
<1>5. CASE ~Restart
  <2>1. OrderAt(r)'
    BY <1>2, <1>3, <1>5, StepKinds, OrderAside, OrderSends, OrderNumbers, OrderSet
  <2>2. WindowAt(r)'
    BY <1>2, <1>3, <1>5, <2>1, NextWindowAt DEF WindowAt
  <2> QED BY <2>1, <2>2 DEF OrderAt, Newest
<1> QED BY <1>4, <1>5

LEMMA InitWindow == Init => OrderedWindow /\ PickedInv
<1> SUFFICES ASSUME Init PROVE OrderedWindow /\ PickedInv
  OBVIOUS
<1>1. \A c \in Clients : pc[c] = Idle
  BY DEF Init, NoRequests
<1>2. WindowAt(0)
  BY <1>1 DEF WindowAt, Idle
<1>3. OneSender => OrderAt(0)
  BY InitOrder DEF OrderInv, Init
<1> QED BY <1>2, <1>3 DEF OrderedWindow, Init, NoRequests, PickedInv

LEMMA PickedHolds == Spec => []PickedInv
BY InitWindow, NextPicked, PTL DEF Spec

(* With one sender and the plain map a receive answers what was the oldest *)
(* message of its queue at some moment while it ran, or that it was empty, *)
(* whatever the other requests do between its list and its get.            *)
THEOREM AnswersTheOldest == Spec => []PlainMapAnswersTheOldest
<1>1. OrderedWindow => PlainMapAnswersTheOldest
  BY DEF OrderedWindow, WindowAt, PlainMapAnswersTheOldest, ReceiveAnswersTheOldest
<1>2. TypeParts /\ TypeParts' /\ OrderInv /\ OrderInv' /\ PickedInv /\ OrderedWindow /\ [Next]_vars => OrderedWindow'
  BY NextWindow
<1>3. Spec => []OrderedWindow
  BY <1>2, PickedHolds, InitWindow, PartsHold, OrderHolds, PTL DEF Spec
<1> QED BY <1>1, <1>3, PTL

-----------------------------------------------------------------------------
(* One client and the plain map: what its queues owe is in them, and they  *)
(* hold nothing else.                                                      *)

BusyInv == \A c \in Clients : /\ pc[c] # Idle => c \in cast.clients
                              /\ pc[c] \in {"queues", "topics"} => c \in cast.admins

LEMMA CastMembers ==
  ASSUME TypeParts
  PROVE  cast.senders \cup cast.managers \cup cast.admins \subseteq cast.clients /\ cast.clients \subseteq Clients
BY CastsAssumption DEF TypeParts, CastType

LEMMA InitBusy == Init => BusyInv
BY DEF Init, NoRequests, BusyInv, Idle

(* Who takes a step takes part, and stays among those who do.              *)
LEMMA StepTaker ==
  ASSUME TypeParts, BusyInv, NEW c \in Clients, Queueing(c) \/ Messaging(c) \/ Administering(c)
  PROVE  /\ c \in cast.clients /\ cast' = cast
         /\ \/ pc' = pc
            \/ \E p : pc' = [pc EXCEPT ![c] = p] /\ (p \in {"queues", "topics"} => c \in cast.admins)
<1> USE CastMembers DEF Idle
<1>1. ASSUME Queueing(c)
      PROVE  c \in cast.clients /\ cast' = cast /\ \E p : pc' = [pc EXCEPT ![c] = p] /\ p \notin {"queues", "topics"}
  <2>1. c \in cast.clients
    BY <1>1 DEF Queueing, CreateSets, DeleteSweeps, ClearSweeps, At, BusyInv
  <2>2. cast' = cast
    BY <1>1 DEF Queueing, CreateSets, DeleteSweeps, ClearSweeps, CreateQueue, DeleteQueue, ClearMessages, file
  <2>3. \E p \in {"create", "sweep", "clear", Idle} : pc' = [pc EXCEPT ![c] = p]
    BY <1>1 DEF Queueing, CreateSets, DeleteSweeps, ClearSweeps, CreateQueue, DeleteQueue, ClearMessages,
                Finish, Begin, Goto
  <2> QED BY <2>1, <2>2, <2>3
<1>2. ASSUME Messaging(c)
      PROVE  c \in cast.clients /\ cast' = cast /\ \E p : pc' = [pc EXCEPT ![c] = p] /\ p \notin {"queues", "topics"}
  <2>1. ASSUME NEW q, c \in cast.senders, SendMessage(c, q) \/ PublishMessage(c, q)
        PROVE  c \in cast.clients /\ cast' = cast /\ \E p : pc' = [pc EXCEPT ![c] = p] /\ p \notin {"queues", "topics"}
    <3>1. pc' = [pc EXCEPT ![c] = "load"] /\ cast' = cast
      BY <2>1 DEF SendMessage, PublishMessage, Compose, Begin, Goto, file
    <3>2. "load" \notin {"queues", "topics"}
      OBVIOUS
    <3>3. \E p : pc' = [pc EXCEPT ![c] = p] /\ p \notin {"queues", "topics"}
      BY ONLY <3>1, <3>2
    <3> QED BY <2>1, <3>1, <3>3
  <2>2. ASSUME NEW q, c \in cast.clients, ReceiveMessage(c, q)
        PROVE  c \in cast.clients /\ cast' = cast /\ \E p : pc' = [pc EXCEPT ![c] = p] /\ p \notin {"queues", "topics"}
    <3>1. pc' = [pc EXCEPT ![c] = "list"] /\ cast' = cast
      BY <2>2 DEF ReceiveMessage, Begin, Goto, file
    <3>2. "list" \notin {"queues", "topics"}
      OBVIOUS
    <3>3. \E p : pc' = [pc EXCEPT ![c] = p] /\ p \notin {"queues", "topics"}
      BY ONLY <3>1, <3>2
    <3> QED BY <2>2, <3>1, <3>3
  <2>3. ASSUME MsgIdLoads(c) \/ MsgIdStores(c) \/ MessageNamed(c) \/ MessageSet(c)
        PROVE  c \in cast.clients /\ cast' = cast /\ \E p : pc' = [pc EXCEPT ![c] = p] /\ p \notin {"queues", "topics"}
    BY <2>3 DEF MsgIdLoads, MsgIdStores, MessageNamed, MessageSet, Finish, Goto, At, BusyInv, file
  <2>4. ASSUME ReceiveLists(c) \/ ReceiveGets(c) \/ ReceiveAnswers(c)
        PROVE  c \in cast.clients /\ cast' = cast /\ \E p : pc' = [pc EXCEPT ![c] = p] /\ p \notin {"queues", "topics"}
    BY <2>4 DEF ReceiveLists, ReceiveGets, ReceiveAnswers, Finish, Goto, At, BusyInv, file
  <2> QED BY <1>2, <2>1, <2>2, <2>3, <2>4 DEF Messaging
<1>3. ASSUME NEW n, c \in cast.admins, DeleteNamespace(c, n)
      PROVE  cast' = cast /\ \E p : pc' = [pc EXCEPT ![c] = p]
  BY <1>3 DEF DeleteNamespace, Begin, Goto, file
<1>4. ASSUME NEW n, CreateOrUpdateNamespace(n) \/ CreateQueueARM(n) \/ DeleteQueueARM(n)
      PROVE  cast' = cast /\ pc' = pc
  BY <1>4 DEF CreateOrUpdateNamespace, CreateQueueARM, DeleteQueueARM, Arm, file
<1>5. ASSUME DeleteNamespaceQueues(c) \/ DeleteNamespaceTopics(c)
      PROVE  c \in cast.admins /\ cast' = cast /\ \E p : pc' = [pc EXCEPT ![c] = p]
  BY <1>5 DEF DeleteNamespaceQueues, DeleteNamespaceTopics, Finish, Goto, At, BusyInv, file
<1> QED BY <1>1, <1>2, <1>3, <1>4, <1>5 DEF Administering

LEMMA NextBusy == TypeParts /\ BusyInv /\ [Next]_vars => BusyInv'
<1> SUFFICES ASSUME TypeParts, BusyInv, [Next]_vars PROVE BusyInv'
  OBVIOUS
<1>1. CASE UNCHANGED vars \/ Reset \/ Save
  BY <1>1 DEF vars, requests, Reset, Save, file, BusyInv
<1>2. ASSUME NEW c \in Clients, Queueing(c) \/ Messaging(c) \/ Administering(c) PROVE BusyInv'
  <2>1. c \in cast.clients /\ cast' = cast
    BY <1>2, StepTaker
  <2>2. CASE pc' = pc
    BY <2>1, <2>2 DEF BusyInv
  <2>3. ASSUME NEW p, pc' = [pc EXCEPT ![c] = p], p \in {"queues", "topics"} => c \in cast.admins PROVE BusyInv'
    BY <2>1, <2>3 DEF BusyInv, TypeParts, RequestType
  <2> QED BY <1>2, <2>2, <2>3, StepTaker
<1>3. CASE Restart
  BY <1>3 DEF Restart, BusyInv, Idle
<1> QED BY <1>1, <1>2, <1>3 DEF Next

LEMMA OnlyClient ==
  ASSUME TypeParts, BusyInv, NEW c \in Clients, cast.clients = {c},
         NEW d \in Clients, Queueing(d) \/ Messaging(d) \/ Administering(d)
  PROVE  d = c
BY StepTaker

(* With the plain map there is nothing to restore.                         *)
PlainDisk == PlainMap => disk = EmptyStore

LEMMA NextPlainDisk == PlainDisk /\ [Next]_vars /\ TypeParts => PlainDisk'
<1> SUFFICES ASSUME PlainDisk, [Next]_vars, TypeParts PROVE PlainDisk'
  OBVIOUS
<1>1. UNCHANGED disk \/ Save
  <2>1. ASSUME NEW c \in Clients, Queueing(c) \/ Administering(c) PROVE UNCHANGED disk
    BY <2>1 DEF Queueing, Administering, CreateSets, DeleteSweeps, ClearSweeps, CreateQueue, DeleteQueue, ClearMessages,
                DeleteNamespace, CreateOrUpdateNamespace, CreateQueueARM, DeleteQueueARM, Arm,
                DeleteNamespaceQueues, DeleteNamespaceTopics, file
  <2>2. ASSUME NEW c \in Clients, Messaging(c) PROVE UNCHANGED disk
    BY <2>2 DEF Messaging, SendMessage, PublishMessage, Compose, ReceiveMessage, ReceiveLists, ReceiveGets,
                ReceiveAnswers, MsgIdLoads, MsgIdStores, MessageNamed, MessageSet, file
  <2> QED BY <2>1, <2>2 DEF Next, Reset, Restart, vars, file
<1>2. UNCHANGED backend
  <2>1. ASSUME NEW c \in Clients, Sends(c) PROVE UNCHANGED backend
    BY <2>1 DEF Sends, SendMessage, PublishMessage, Compose, file
  <2> QED BY <2>1, StepKinds DEF Aside, Restart, MsgIdLoads, MsgIdStores, MessageNamed, MessageSet, file
<1> QED BY <1>1, <1>2 DEF PlainDisk, PlainMap, Save

(* What is due is there, but for what the client is sending now.           *)
KeptAt(c) == /\ \A d \in due : \/ d[2] \in Stored(msgs[d[1]])
                               \/ pc[c] \in Sending /\ target[c] = d[1] /\ body[c] = d[2]
             /\ pc[c] = "sweep" => \A d \in due : d[1] # target[c]

LEMMA KeptIf ==
  ASSUME NEW c \in Clients, KeptAt(c), pc[c] \notin Sending, pc'[c] # "sweep",
         \A d \in due' : d \in due /\ msgs'[d[1]] = msgs[d[1]]
  PROVE  KeptAt(c)'
BY DEF KeptAt

LEMMA KeptQueueing ==
  ASSUME TypeParts, NEW c \in Clients, KeptAt(c), Queueing(c)
  PROVE  KeptAt(c)'
<1> USE DEF TypeParts, RequestType, StoreType
<1>1. ASSUME NEW q \in Queues, CreateQueue(c, q) \/ ClearMessages(c, q) PROVE KeptAt(c)'
  BY <1>1, NotSending, KeptIf DEF CreateQueue, ClearMessages, Begin, Goto, At, store
<1>2. ASSUME NEW q \in Queues, DeleteQueue(c, q) PROVE KeptAt(c)'
  BY <1>2, NotSending DEF DeleteQueue, Begin, Goto, At, Forgive, KeptAt
<1>3. CASE CreateSets(c)
  BY <1>3, NotSending, KeptIf DEF CreateSets, Finish, Goto, At, Idle
<1>4. CASE DeleteSweeps(c)
  <2>1. pc[c] = "sweep" /\ pc'[c] = Idle /\ due' = due /\ msgs' = [msgs EXCEPT ![target[c]] = NoMessages]
    BY <1>4 DEF DeleteSweeps, Finish, Goto, At
  <2>2. \A d \in due : d[1] # target[c] /\ d[1] \in Mailboxes
    BY <2>1 DEF KeptAt, Mailboxes
  <2> QED BY <2>1, <2>2, NotSending, KeptIf DEF Idle
<1>5. CASE ClearSweeps(c)
  <2>1. pc[c] = "clear" /\ pc'[c] = Idle /\ msgs' = [msgs EXCEPT ![target[c]] = NoMessages]
    BY <1>5 DEF ClearSweeps, Finish, Goto, At
  <2>2. \A d \in due' : d \in due /\ d[1] # target[c] /\ d[1] \in Mailboxes
    BY <1>5 DEF ClearSweeps, Forgive, Mailboxes
  <2> QED BY <2>1, <2>2, NotSending, KeptIf DEF Idle
<1> QED BY <1>1, <1>2, <1>3, <1>4, <1>5 DEF Queueing

LEMMA KeptMessaging ==
  ASSUME TypeParts, OneSender, PlainMap, NEW r \in Nat, OrderAt(r), NEW c \in Clients, KeptAt(c), Messaging(c)
  PROVE  KeptAt(c)'
<1> USE DEF TypeParts, RequestType, StoreType
<1>1. ASSUME NEW q \in Queues, SendMessage(c, q) PROVE KeptAt(c)'
  <2>1. /\ pc[c] = Idle /\ pc'[c] = "load" /\ target'[c] = q /\ body'[c] = sends + 1
        /\ due' = due \cup {<<q, sends + 1>>} /\ msgs' = msgs
    BY <1>1 DEF SendMessage, Compose, Begin, Goto, At, store
  <2> QED BY <2>1, NotSending DEF KeptAt, Sending
<1>2. ASSUME NEW t \in Topics, PublishMessage(c, t) PROVE KeptAt(c)'
  BY <1>2, NotSending, KeptIf DEF PublishMessage, Compose, Begin, Goto, At, store
<1>3. CASE MsgIdLoads(c) \/ MsgIdStores(c) \/ MessageNamed(c)
  <2>1. pc'[c] \in Sending /\ UNCHANGED <<due, msgs, target, body>>
    BY <1>3 DEF MsgIdLoads, MsgIdStores, MessageNamed, Goto, Sending, requests, store
  <2> QED BY <1>3, <2>1 DEF KeptAt, MsgIdLoads, MsgIdStores, MessageNamed, At, Sending
<1>4. CASE MessageSet(c)
  <2>1. /\ pc[c] = "set" /\ pc'[c] = Idle /\ due' = due
        /\ msgs' = [msgs EXCEPT ![target[c]][reg[c]] = body[c]]
    BY <1>4 DEF MessageSet, Finish, Goto, At
  <2>2. /\ target[c] \in Mailboxes /\ body[c] \in Nat /\ r < body[c]
        /\ reg[c] > 0 /\ reg[c] \in Numbers
    BY <2>1 DEF OrderAt, SenderInv, TargetInv, Sending, Numbers
  <2>3. ASSUME NEW m \in Mailboxes, NEW v \in Stored(msgs[m]) PROVE v \in Stored(msgs'[m])
    <3>1. PICK i \in Numbers : msgs[m][i] = v /\ msgs[m][i] # Empty
      BY DEF Stored
    <3>2. Fine(msgs[m][i], i, r) /\ msgs[m][i] > r
      BY <3>1 DEF OrderAt, Tidy, Recent, PlainMap
    <3>3. i < reg[c]
      BY <2>1, <3>2 DEF Fine, Sending
    <3>4. msgs'[m][i] = msgs[m][i]
      BY <2>1, <2>2, <3>3 DEF Numbers
    <3> QED BY <3>1, <3>4 DEF Stored
  <2>4. body[c] \in Stored(msgs'[target[c]])
    <3>1. msgs'[target[c]][reg[c]] = body[c] /\ body[c] # Empty
      BY <2>1, <2>2 DEF Empty
    <3> QED BY <2>2, <3>1 DEF Stored
  <2>5. ASSUME NEW d \in due PROVE d[2] \in Stored(msgs'[d[1]])
    BY <2>3, <2>4 DEF KeptAt, Mailboxes
  <2> QED BY <2>1, <2>5 DEF KeptAt, Idle
<1>5. CASE \/ \E q \in Queues : ReceiveMessage(c, q)
           \/ ReceiveLists(c) \/ ReceiveGets(c) \/ ReceiveAnswers(c)
  <2>1. pc[c] \notin Sending /\ pc'[c] # "sweep" /\ UNCHANGED <<due, msgs>>
    BY <1>5, NotSending DEF ReceiveMessage, ReceiveLists, ReceiveGets, ReceiveAnswers, Begin, Finish, Goto, At, Idle, store
  <2> QED BY <2>1, KeptIf
<1> QED BY <1>1, <1>2, <1>3, <1>4, <1>5 DEF Messaging

LEMMA KeptAdministering ==
  ASSUME TypeParts, NEW c \in Clients, KeptAt(c), Administering(c)
  PROVE  KeptAt(c)'
<1> USE DEF TypeParts, RequestType, StoreType
<1>1. ASSUME NEW n \in Namespaces, DeleteNamespace(c, n) PROVE KeptAt(c)'
  BY <1>1, NotSending, KeptIf DEF DeleteNamespace, Begin, Goto, At
<1>2. ASSUME NEW n, CreateOrUpdateNamespace(n) \/ CreateQueueARM(n) \/ DeleteQueueARM(n) PROVE KeptAt(c)'
  BY <1>2 DEF CreateOrUpdateNamespace, CreateQueueARM, DeleteQueueARM, Arm, requests, KeptAt
<1>3. CASE DeleteNamespaceQueues(c)
  BY <1>3, NotSending, KeptIf DEF DeleteNamespaceQueues, Forgive, Goto, At
<1>4. CASE DeleteNamespaceTopics(c)
  <2>1. \A q \in Queues : q \in Mailboxes /\ q \notin Topics
    BY NamesAssumption DEF Mailboxes
  <2>2. \A d \in due : msgs'[d[1]] = msgs[d[1]]
    BY <1>4, <2>1 DEF DeleteNamespaceTopics
  <2>3. pc[c] \notin Sending /\ pc'[c] # "sweep" /\ due' = due
    BY <1>4, NotSending DEF DeleteNamespaceTopics, Finish, Goto, At, Idle
  <2> QED BY <2>2, <2>3, KeptIf
<1> QED BY <1>1, <1>2, <1>3, <1>4 DEF Administering

KeptInv == PlainMap /\ OneClient => \E c \in Clients : cast.clients = {c} /\ KeptAt(c)

(* Of one client, who sends or does not.                                   *)
LEMMA LoneSender ==
  ASSUME TypeParts, NEW c \in Clients, cast.clients = {c}
  PROVE  OneSender \/ (cast.senders = {} /\ \A d \in Clients : pc[d] \notin Sending)
BY CastMembers DEF TypeParts, RequestType, TargetInv, OneSender

LEMMA NoneSent ==
  ASSUME TypeParts, cast.senders = {}, NEW c \in Clients, pc[c] \notin Sending, KeptAt(c), Messaging(c)
  PROVE  KeptAt(c)'
<1>1. \/ \E q \in Queues : ReceiveMessage(c, q)
      \/ ReceiveLists(c) \/ ReceiveGets(c) \/ ReceiveAnswers(c)
  BY DEF Messaging, MsgIdLoads, MsgIdStores, MessageNamed, MessageSet, At, Sending
<1>2. pc'[c] # "sweep" /\ UNCHANGED <<due, msgs>>
  BY <1>1 DEF TypeParts, RequestType,
              ReceiveMessage, ReceiveLists, ReceiveGets, ReceiveAnswers, Begin, Finish, Goto, At, Idle, store
<1> QED BY <1>2, KeptIf

LEMMA NextKept ==
  ASSUME TypeParts, OrderInv, BusyInv, PlainDisk, KeptInv, [Next]_vars
  PROVE  KeptInv'
<1>1. UNCHANGED <<cast, backend>>
  <2>1. ASSUME NEW c \in Clients, Sends(c) PROVE UNCHANGED <<cast, backend>>
    BY <2>1 DEF Sends, SendMessage, PublishMessage, Compose, file
  <2> QED BY <2>1, StepKinds DEF Aside, Restart, MsgIdLoads, MsgIdStores, MessageNamed, MessageSet, file
<1> SUFFICES ASSUME PlainMap, OneClient PROVE \E c \in Clients : cast.clients = {c} /\ KeptAt(c)'
  BY <1>1 DEF KeptInv, OneClient, PlainMap
<1>2. PICK c \in Clients : cast.clients = {c} /\ KeptAt(c)
  BY DEF KeptInv
<1>3. CASE UNCHANGED vars
  BY <1>2, <1>3 DEF vars, store, requests, KeptAt
<1>4. CASE Reset
  BY <1>2, <1>4 DEF Reset, requests, KeptAt
<1>5. CASE Save
  BY <1>5, <1>2 DEF Save, store, requests, KeptAt
<1>6. CASE Restart
  <2>1. due' = {} /\ pc'[c] = Idle
    BY <1>6 DEF Restart, PlainDisk, EmptyStore
  <2> QED BY <1>2, <2>1 DEF KeptAt, Idle
<1>7. ASSUME NEW d \in Clients, Queueing(d) \/ Administering(d) \/ Messaging(d)
      PROVE  KeptAt(c)'
  <2>1. d = c
    BY <1>2, <1>7, OnlyClient
  <2>2. CASE Queueing(c)
    BY <1>2, <2>2, KeptQueueing
  <2>3. CASE Administering(c)
    BY <1>2, <2>3, KeptAdministering
  <2>4. CASE Messaging(c)
    <3>1. CASE OneSender
      <4>1. PICK r \in runs : OrderAt(r)
        BY <3>1 DEF OrderInv
      <4>2. r \in Nat
        BY DEF TypeParts, CastType
      <4> QED BY <1>2, <2>4, <3>1, <4>1, <4>2, KeptMessaging
    <3>2. CASE ~OneSender
      BY <1>2, <2>4, <3>2, LoneSender, NoneSent
    <3> QED BY <3>1, <3>2
  <2> QED BY <1>7, <2>1, <2>2, <2>3, <2>4
<1> QED BY <1>2, <1>3, <1>4, <1>5, <1>6, <1>7 DEF Next

LEMMA InitKept == Init => BusyInv /\ PlainDisk /\ KeptInv
<1> SUFFICES ASSUME Init PROVE BusyInv /\ PlainDisk /\ KeptInv
  OBVIOUS
<1>1. \A c \in Clients : KeptAt(c)
  BY DEF Init, NoRequests, KeptAt, Idle
<1> QED BY <1>1, InitBusy DEF Init, PlainDisk, KeptInv, OneClient

LEMMA BusyHolds == Spec => []BusyInv
BY InitBusy, NextBusy, PartsHold, PTL DEF Spec

LEMMA PlainDiskHolds == Spec => []PlainDisk
BY InitKept, NextPlainDisk, PartsHold, PTL DEF Spec

(* With one client and the plain map a message that was accepted stays in  *)
(* its queue until the queue is deleted or cleared: no later message gets  *)
(* its key (msgId++, MessageSet).                                          *)
THEOREM KeepsMessages == Spec => []PlainMapKeepsMessages
<1>1. KeptInv => PlainMapKeepsMessages
  BY DEF KeptInv, KeptAt, PlainMapKeepsMessages, MessagesPersist, OneClient
<1>2. TypeParts /\ OrderInv /\ BusyInv /\ PlainDisk /\ KeptInv /\ [Next]_vars => KeptInv'
  BY NextKept
<1> QED BY <1>1, <1>2, InitKept, PartsHold, OrderHolds, BusyHolds, PlainDiskHolds, PTL DEF Spec

-----------------------------------------------------------------------------
(* Undisturbed, what is in a queue is due or about to be swept.            *)
OwedAt(c) == /\ \A q \in Queues : \A v \in Stored(msgs[q]) : <<q, v>> \in due \/ (pc[c] = "sweep" /\ target[c] = q)
             /\ pc[c] \in Sending /\ target[c] \in Queues => <<target[c], body[c]>> \in due
             /\ pc[c] = "sweep" => target[c] \notin queues

LEMMA OwedQueueing ==
  ASSUME TypeParts, NEW c \in Clients, OwedAt(c), Queueing(c)
  PROVE  OwedAt(c)'
<1> USE DEF TypeParts, RequestType, StoreType
<1>0. Stored(NoMessages) = {} /\ Queues \subseteq Mailboxes
  BY DEF Stored, NoMessages, Mailboxes
<1>1. ASSUME NEW q \in Queues, CreateQueue(c, q) \/ ClearMessages(c, q) PROVE OwedAt(c)'
  <2>1. pc[c] = Idle /\ pc'[c] \in {"create", "clear"} /\ UNCHANGED <<queues, msgs, due>>
    BY <1>1 DEF CreateQueue, ClearMessages, Begin, Goto, At, store
  <2> QED BY <2>1, NotSending DEF OwedAt, Idle
<1>2. ASSUME NEW q \in Queues, DeleteQueue(c, q) PROVE OwedAt(c)'
  <2>1. /\ pc[c] = Idle /\ pc'[c] = "sweep" /\ target'[c] = q /\ msgs' = msgs
        /\ queues' = queues \ {q} /\ due' = {d \in due : d[1] # q}
    BY <1>2 DEF DeleteQueue, Begin, Goto, At, Forgive
  <2> QED BY <2>1, NotSending DEF OwedAt, Idle
<1>3. CASE CreateSets(c)
  <2>1. pc[c] = "create" /\ pc'[c] = Idle /\ UNCHANGED <<msgs, due>>
    BY <1>3 DEF CreateSets, Finish, Goto, At
  <2> QED BY <2>1, NotSending DEF OwedAt, Idle
<1>4. CASE DeleteSweeps(c) \/ ClearSweeps(c)
  <2>1. /\ pc[c] \in {"sweep", "clear"} /\ pc'[c] = Idle
        /\ msgs' = [msgs EXCEPT ![target[c]] = NoMessages]
        /\ \A d \in due : d[1] # target[c] => d \in due'
    BY <1>4 DEF DeleteSweeps, ClearSweeps, Forgive, Finish, Goto, At
  <2>2. \A q \in Queues : msgs'[q] = IF q = target[c] THEN NoMessages ELSE msgs[q]
    BY <1>0, <2>1
  <2>3. ASSUME NEW q \in Queues, NEW v \in Stored(msgs'[q]) PROVE <<q, v>> \in due'
    <3>1. q # target[c] /\ v \in Stored(msgs[q])
      BY <1>0, <2>2, <2>3
    <3>2. <<q, v>> \in due
      BY <3>1 DEF OwedAt
    <3> QED BY <2>1, <3>1, <3>2
  <2> QED BY <2>1, <2>3, NotSending DEF OwedAt, Idle
<1> QED BY <1>1, <1>2, <1>3, <1>4 DEF Queueing

LEMMA OwedMessaging ==
  ASSUME TypeParts, NEW c \in Clients, OwedAt(c), Messaging(c)
  PROVE  OwedAt(c)'
<1> USE DEF TypeParts, RequestType, StoreType
<1>1. ASSUME NEW m \in Mailboxes, (m \in Queues /\ SendMessage(c, m)) \/ (m \in Topics /\ PublishMessage(c, m))
      PROVE  OwedAt(c)'
  <2>1. /\ pc[c] = Idle /\ pc'[c] = "load" /\ target'[c] = m /\ body'[c] = sends + 1
        /\ due \subseteq due' /\ (m \in Queues => <<m, sends + 1>> \in due') /\ UNCHANGED <<queues, msgs>>
    BY <1>1, NamesAssumption DEF SendMessage, PublishMessage, Compose, Begin, Goto, At, store
  <2> QED BY <2>1 DEF OwedAt, Idle
<1>2. CASE MsgIdLoads(c) \/ MsgIdStores(c) \/ MessageNamed(c)
  <2>1. pc[c] \in Sending /\ pc'[c] # "sweep" /\ UNCHANGED <<due, msgs, target, body>>
    BY <1>2 DEF MsgIdLoads, MsgIdStores, MessageNamed, Goto, At, Sending, requests, store
  <2> QED BY <2>1 DEF OwedAt, Sending
<1>3. CASE MessageSet(c)
  <2>1. /\ pc[c] = "set" /\ pc'[c] = Idle /\ due' = due
        /\ msgs' = [msgs EXCEPT ![target[c]][reg[c]] = body[c]] /\ target[c] \in Mailboxes
    BY <1>3 DEF MessageSet, Finish, Goto, At, TargetInv, Sending
  <2>2. ASSUME NEW q \in Queues, NEW v \in Stored(msgs'[q]) PROVE <<q, v>> \in due
    <3>1. PICK i \in Numbers : msgs'[q][i] = v /\ v # Empty
      BY <2>2 DEF Stored
    <3>2. msgs'[q][i] = msgs[q][i] \/ (q = target[c] /\ v = body[c])
      BY <2>1, <3>1 DEF Mailboxes
    <3>3. CASE msgs'[q][i] = msgs[q][i]
      <4>1. v \in Stored(msgs[q])
        BY <3>1, <3>3 DEF Stored
      <4> QED BY <2>1, <4>1 DEF OwedAt
    <3>4. CASE q = target[c] /\ v = body[c]
      BY <2>1, <3>4 DEF OwedAt, Sending
    <3> QED BY <3>2, <3>3, <3>4
  <2> QED BY <2>1, <2>2, NotSending DEF OwedAt, Idle
<1>4. CASE \/ \E q \in Queues : ReceiveMessage(c, q)
           \/ ReceiveLists(c) \/ ReceiveGets(c) \/ ReceiveAnswers(c)
  <2>1. pc[c] \notin {"sweep"} /\ pc'[c] \notin Sending \cup {"sweep"} /\ UNCHANGED <<due, msgs>>
    BY <1>4, NotSending DEF ReceiveMessage, ReceiveLists, ReceiveGets, ReceiveAnswers, Begin, Finish, Goto, At, Idle, store
  <2> QED BY <2>1 DEF OwedAt
<1> QED BY <1>1, <1>2, <1>3, <1>4 DEF Messaging, Mailboxes

OwedInv == PlainMap /\ Undisturbed => \E c \in Clients : cast.clients = {c} /\ OwedAt(c)

LEMMA NextOwed ==
  ASSUME TypeParts, BusyInv, PlainDisk, OwedInv, [Next]_vars
  PROVE  OwedInv'
<1>1. UNCHANGED <<cast, backend>>
  <2>1. ASSUME NEW c \in Clients, Sends(c) PROVE UNCHANGED <<cast, backend>>
    BY <2>1 DEF Sends, SendMessage, PublishMessage, Compose, file
  <2> QED BY <2>1, StepKinds DEF Aside, Restart, MsgIdLoads, MsgIdStores, MessageNamed, MessageSet, file
<1> SUFFICES ASSUME PlainMap, Undisturbed PROVE \E c \in Clients : cast.clients = {c} /\ OwedAt(c)'
  BY <1>1 DEF OwedInv, Undisturbed, OneClient, PlainMap
<1>2. PICK c \in Clients : cast.clients = {c} /\ OwedAt(c)
  BY DEF OwedInv
<1>3. CASE UNCHANGED vars \/ Save
  BY <1>2, <1>3 DEF vars, Save, store, requests, OwedAt
<1>4. ~Reset
  BY DEF Reset, Undisturbed, TypeParts, CastType
<1>5. CASE Restart
  <2>1. msgs' = EmptyStore.msgs /\ pc'[c] = Idle
    BY <1>5 DEF Restart, Holding, PlainDisk
  <2>2. \A q \in Queues : msgs'[q] = NoMessages
    BY <2>1 DEF EmptyStore, Mailboxes
  <2>3. Stored(NoMessages) = {}
    BY DEF Stored, NoMessages
  <2>4. \A q \in Queues : Stored(msgs'[q]) = {}
    BY <2>2, <2>3
  <2> QED BY <1>2, <2>1, <2>4, NotSending DEF OwedAt, Idle
<1>6. ASSUME NEW d \in Clients, Queueing(d) \/ Administering(d) \/ Messaging(d)
      PROVE  OwedAt(c)'
  <2>1. d = c
    BY <1>2, <1>6, OnlyClient
  <2>2. ~Administering(c)
    BY DEF Administering, DeleteNamespaceQueues, DeleteNamespaceTopics, At, Undisturbed, BusyInv
  <2> QED BY <1>2, <1>6, <2>1, <2>2, OwedQueueing, OwedMessaging
<1> QED BY <1>2, <1>3, <1>4, <1>5, <1>6 DEF Next

LEMMA OwedHolds == Spec => []OwedInv
<1>1. Init => OwedInv
  <2> SUFFICES ASSUME Init, NEW c \in Clients PROVE OwedAt(c)
    BY DEF OwedInv, Undisturbed, OneClient
  <2>1. \A q \in Queues : Stored(msgs[q]) = {}
    BY DEF Init, EmptyStore, Stored, NoMessages, Mailboxes
  <2> QED BY <2>1, NotSending DEF Init, NoRequests, OwedAt, Idle
<1>2. TypeParts /\ BusyInv /\ PlainDisk /\ OwedInv /\ [Next]_vars => OwedInv'
  BY NextOwed
<1> QED BY <1>1, <1>2, PartsHold, BusyHolds, PlainDiskHolds, PTL DEF Spec

(* An existing queue holds only what was sent to it since it was created   *)
(* or cleared, unless its namespace was deleted or the store was reset     *)
(* (CreateQueue, DeleteQueue, ClearMessages, SendMessage).                 *)
THEOREM LeavesNothingOver == Spec => []PlainMapLeavesNothingOver
<1>1. OwedInv => PlainMapLeavesNothingOver \/ ~StoreType
  <2> SUFFICES ASSUME OwedInv, StoreType, PlainMap, Undisturbed, NEW q \in queues, NEW v \in Stored(msgs[q])
               PROVE  <<q, v>> \in due
    BY DEF PlainMapLeavesNothingOver
  <2> QED BY DEF OwedInv, OwedAt, StoreType
<1>2. TypeParts => StoreType
  BY DEF TypeParts
<1> QED BY <1>1, <1>2, PartsHold, OwedHolds, PTL

-----------------------------------------------------------------------------
(* A mailbox as a sequence.                                                *)
LEMMA UsedIsFinite ==
  ASSUME NEW b
  PROVE  /\ Used(b) \subseteq Nat /\ IsFiniteSet(Used(b)) /\ Cardinality(Used(b)) \in Nat
         /\ Cardinality(Used(b)) = 0 <=> Used(b) = {}
         /\ \A i : Ahead(b, i) \in SUBSET Used(b) /\ IsFiniteSet(Ahead(b, i)) /\ Cardinality(Ahead(b, i)) \in Nat
<1>1. IsFiniteSet(Numbers) /\ Used(b) \in SUBSET Numbers
  <2>1. IsFiniteSet(1 .. MaxSends)
    BY FS_Interval
  <2> QED
    BY <2>1 DEF Numbers, Used
<1>2. IsFiniteSet(Used(b))
  BY <1>1, FS_Subset
<1>3. \A i : Ahead(b, i) \in SUBSET Used(b)
  BY DEF Ahead
<1>4. \A i : IsFiniteSet(Ahead(b, i))
  BY <1>2, <1>3, FS_Subset
<1> QED
  <2>1. Cardinality(Used(b)) \in Nat /\ \A i : Cardinality(Ahead(b, i)) \in Nat
    BY <1>2, <1>4, FS_CardinalityType
  <2>2. Cardinality(Used(b)) = 0 <=> Used(b) = {}
    BY <1>2, FS_EmptySet
  <2>3. Used(b) \subseteq Nat
    BY <1>1 DEF Numbers
  <2> QED
    BY <1>2, <1>3, <1>4, <2>1, <2>2, <2>3

LEMMA NoneInOrder == ASSUME NEW b, Used(b) = {} PROVE InOrder(b) = <<>>
<1>1. Cardinality(Used(b)) = 0
  BY FS_EmptySet
<1> QED
  BY <1>1 DEF InOrder

LEMMA OrderLength ==
  ASSUME NEW b
  PROVE  InOrder(b) \in Seq({InOrder(b)[n] : n \in 1 .. Cardinality(Used(b))}) /\ Len(InOrder(b)) = Cardinality(Used(b))
<1> DEFINE k == Cardinality(Used(b))
<1> DEFINE at(n) == b[CHOOSE i \in Used(b) : Cardinality(Ahead(b, i)) = n - 1]
<1>1. k \in Nat
  BY UsedIsFinite
<1>2. InOrder(b) = [n \in 1 .. k |-> at(n)]
  BY DEF InOrder
<1> HIDE DEF k, at
<1>3. InOrder(b) \in Seq({InOrder(b)[n] : n \in 1 .. k}) /\ Len(InOrder(b)) = k
  BY <1>1, <1>2
<1> QED
  BY <1>3 DEF k

LEMMA LeastIsFirst ==
  ASSUME NEW b, NEW i \in Used(b), \A j \in Numbers : j < i => b[j] = Empty
  PROVE  InOrder(b) # <<>> /\ Head(InOrder(b)) = b[i]
<1> DEFINE k == Cardinality(Used(b))
<1> DEFINE at(n) == CHOOSE j \in Used(b) : Cardinality(Ahead(b, j)) = n - 1
<1>1. k \in Nat /\ 1 \in 1 .. k
  BY UsedIsFinite
<1>2. Ahead(b, i) = {}
  BY DEF Ahead, Used
<1>3. ASSUME NEW j \in Used(b), Cardinality(Ahead(b, j)) = 0 PROVE j = i
  <2>1. Ahead(b, j) = {} /\ i \in Nat /\ j \in Nat
    BY <1>3, UsedIsFinite, FS_EmptySet
  <2> QED
    BY <1>2, <2>1 DEF Ahead
<1>4. Cardinality(Ahead(b, i)) = 1 - 1
  BY <1>2, FS_EmptySet
<1>5. at(1) = i
  <2>1. \A j \in Used(b) : Cardinality(Ahead(b, j)) = 1 - 1 => j = i
    BY <1>3
  <2> QED
    BY <1>4, <2>1, Zenon
<1>6. InOrder(b)[1] = b[at(1)]
  BY <1>1 DEF InOrder
<1> HIDE DEF at
<1>7. InOrder(b) # <<>> /\ Head(InOrder(b)) = InOrder(b)[1]
  <2>1. PICK S : InOrder(b) \in Seq(S)
    BY OrderLength
  <2>2. Len(InOrder(b)) = k
    BY OrderLength
  <2> HIDE DEF k
  <2>3. InOrder(b) # <<>>
    BY <1>1, <2>2
  <2> QED
    BY <2>1, <2>3
<1> QED
  BY <1>5, <1>6, <1>7

(* There is one for every place.                                           *)
LEMMA GreatestExists == ASSUME NEW T \in SUBSET Numbers, T # {} PROVE \E x \in T : \A y \in T : y <= x
<1> DEFINE D == {MaxSends - t : t \in T}
<1>1. D \in SUBSET Nat /\ D # {}
  <2>1. \A t \in T : t \in 1 .. MaxSends /\ MaxSends - t \in Nat
    BY DEF Numbers
  <2> QED
    BY <2>1
<1>2. PICK z \in D : \A y \in D : z <= y
  BY <1>1, LeastExists
<1>3. PICK x \in T : z = MaxSends - x
  OBVIOUS
<1>4. \A y \in T : MaxSends - x <= MaxSends - y
  BY <1>2, <1>3
<1> QED
  BY <1>4 DEF Numbers

LEMMA OneMoreAhead ==
  ASSUME NEW b, NEW T \in SUBSET Used(b), T # {},
         \A j \in T, i \in Used(b) : i < j => i \in T
  PROVE  \E m \in T : Cardinality(T) = Cardinality(Ahead(b, m)) + 1
<1>1. Used(b) \subseteq Numbers
  BY DEF Used
<1>2. PICK m \in T : \A y \in T : y <= m
  BY <1>1, GreatestExists
<1>3. T = Ahead(b, m) \cup {m} /\ m \notin Ahead(b, m)
  <2>1. \A y \in Used(b) : y \in Nat
    BY <1>1 DEF Numbers
  <2> QED
    BY <1>2, <2>1 DEF Ahead
<1> QED
  BY <1>3, UsedIsFinite, FS_AddElement

LEMMA EveryPlaceIsTaken ==
  ASSUME NEW b, NEW n \in 1 .. Cardinality(Used(b))
  PROVE  \E j \in Used(b) : Cardinality(Ahead(b, j)) = n - 1
<1> DEFINE T == {j \in Used(b) : Cardinality(Ahead(b, j)) >= n - 1}
<1>0. Used(b) \subseteq Nat /\ Used(b) # {} /\ \A j : Cardinality(Ahead(b, j)) \in Nat
  BY UsedIsFinite
<1>1. T # {}
  <2>1. PICK m \in Used(b) : Cardinality(Used(b)) = Cardinality(Ahead(b, m)) + 1
    BY <1>0, OneMoreAhead
  <2> QED
    BY <1>0, <2>1
<1>2. PICK x \in T : \A y \in T : x <= y
  BY <1>0, <1>1, LeastExists
<1>3. ASSUME Cardinality(Ahead(b, x)) # n - 1 PROVE FALSE
  <2>1. Ahead(b, x) # {}
    BY <1>0, <1>3, FS_EmptySet
  <2>2. Ahead(b, x) \in SUBSET Used(b) /\ \A j \in Ahead(b, x), i \in Used(b) : i < j => i \in Ahead(b, x)
    BY <1>0 DEF Ahead
  <2>3. PICK m \in Ahead(b, x) : Cardinality(Ahead(b, x)) = Cardinality(Ahead(b, m)) + 1
    BY <2>1, <2>2, OneMoreAhead
  <2>4. m \in T
    BY <1>0, <1>3, <2>2, <2>3
  <2> QED
    BY <1>0, <1>2, <2>4 DEF Ahead
<1> QED
  BY <1>0, <1>3

LEMMA SameSequence ==
  ASSUME NEW S, NEW s \in Seq(S), NEW U, NEW t \in Seq(U), Len(s) = Len(t), \A n \in 1 .. Len(s) : s[n] = t[n]
  PROVE  s = t
<1>1. s \in [1 .. Len(s) -> S] /\ t \in [1 .. Len(t) -> U]
  OBVIOUS
<1> DEFINE k == Len(s)
<1>2. s \in [1 .. k -> S] /\ t \in [1 .. k -> U] /\ \A n \in 1 .. k : s[n] = t[n]
  BY <1>1
<1> HIDE DEF k
<1>3. s = [n \in 1 .. k |-> s[n]] /\ t = [n \in 1 .. k |-> t[n]]
  BY ONLY <1>2, Zenon
<1>4. [n \in 1 .. k |-> s[n]] = [n \in 1 .. k |-> t[n]]
  BY <1>2, Zenon
<1> QED
  BY <1>3, <1>4, Zenon

LEMMA LastIsAppended ==
  ASSUME NEW b \in [Numbers -> 0 .. MaxSends], NEW i \in Numbers, NEW x \in Numbers,
         NEW d \in [Numbers -> 0 .. MaxSends], d = [b EXCEPT ![i] = x], \A j \in Used(b) : j < i
  PROVE  InOrder(d) = Append(InOrder(b), x)
<1> DEFINE k == Cardinality(Used(b))
<1> DEFINE at(n) == CHOOSE j \in Used(b) : Cardinality(Ahead(b, j)) = n - 1
<1> DEFINE to(n) == CHOOSE j \in Used(d) : Cardinality(Ahead(d, j)) = n - 1
<1>0. i \in Nat /\ k \in Nat /\ IsFiniteSet(Used(b)) /\ Used(b) \subseteq Nat /\ i \notin Used(b)
  BY UsedIsFinite DEF Numbers
<1>1. Used(d) = Used(b) \cup {i}
  BY DEF Used, Numbers, Empty
<1>2. Cardinality(Used(d)) = k + 1
  BY <1>0, <1>1, FS_AddElement
<1>3. Ahead(d, i) = Used(b) /\ \A j \in Used(b) : Ahead(d, j) = Ahead(b, j)
  <2>1. ~(i < i) /\ \A j \in Used(b) : j < i /\ ~(i < j)
    BY <1>0
  <2>2. Ahead(d, i) = {j \in Used(b) \cup {i} : j < i}
    BY <1>1 DEF Ahead
  <2>3. \A j \in Used(b) : Ahead(d, j) = {l \in Used(b) \cup {i} : l < j}
    BY <1>1 DEF Ahead
  <2> QED
    BY <2>1, <2>2, <2>3 DEF Ahead
<1>4. ASSUME NEW j \in Used(b) PROVE Cardinality(Ahead(b, j)) \in Nat /\ Cardinality(Ahead(b, j)) < k
  <2>1. Ahead(b, j) \in SUBSET Used(b) /\ Ahead(b, j) # Used(b) /\ Cardinality(Ahead(b, j)) \in Nat
    BY <1>0, UsedIsFinite DEF Ahead
  <2>2. Cardinality(Ahead(b, j)) <= k /\ Cardinality(Ahead(b, j)) # k
    BY <1>0, <2>1, FS_Subset
  <2> QED
    BY <1>0, <2>1, <2>2
<1>5. ASSUME NEW n \in 1 .. k PROVE InOrder(d)[n] = InOrder(b)[n]
  <2>0. n \in 1 .. k + 1 /\ n - 1 < k /\ n - 1 # k
    BY <1>0, <1>5
  <2>1. \A j : (j \in Used(d) /\ Cardinality(Ahead(d, j)) = n - 1) <=> (j \in Used(b) /\ Cardinality(Ahead(b, j)) = n - 1)
    <3>1. \A j \in Used(b) : Cardinality(Ahead(d, j)) = Cardinality(Ahead(b, j))
      BY <1>3
    <3>2. Cardinality(Ahead(d, i)) # n - 1
      BY <1>3, <2>0
    <3> QED
      BY <1>1, <3>1, <3>2
  <2>2. to(n) = at(n)
    BY <2>1, Zenon
  <2>3. at(n) \in Used(b)
    BY EveryPlaceIsTaken
  <2>4. d[at(n)] = b[at(n)]
    BY <1>0, <2>3 DEF Used
  <2>5. InOrder(b)[n] = b[at(n)]
    BY DEF InOrder
  <2>6. InOrder(d)[n] = d[to(n)]
    BY <1>2, <2>0 DEF InOrder
  <2> QED
    BY <2>2, <2>4, <2>5, <2>6
<1>6. InOrder(d)[k + 1] = x
  <2>0. (k + 1) - 1 = k
    BY <1>0
  <2>1. Cardinality(Ahead(d, i)) = (k + 1) - 1 /\ i \in Used(d)
    BY <1>1, <1>3, <2>0
  <2>2. ASSUME NEW j \in Used(d), Cardinality(Ahead(d, j)) = (k + 1) - 1 PROVE j = i
    <3>1. CASE j \in Used(b)
      <4>1. Cardinality(Ahead(d, j)) = Cardinality(Ahead(b, j))
        BY <1>3, <3>1
      <4>2. Cardinality(Ahead(b, j)) # k
        BY <1>0, <1>4, <3>1
      <4> QED
        BY <2>0, <2>2, <4>1, <4>2
    <3> QED
      BY <1>1, <3>1
  <2>3. to(k + 1) = i
    BY <2>1, <2>2, Zenon
  <2>4. k + 1 \in 1 .. Cardinality(Used(d))
    BY <1>0, <1>2
  <2>5. InOrder(d)[k + 1] = d[to(k + 1)]
    BY <2>4 DEF InOrder
  <2> QED
    BY <2>3, <2>5
<1> HIDE DEF k, at, to
<1>7. Len(InOrder(d)) = k + 1 /\ Len(InOrder(b)) = k
  BY <1>2, OrderLength DEF k
<1>8. PICK S : InOrder(b) \in Seq(S)
  BY OrderLength
<1>9. PICK U : InOrder(d) \in Seq(U)
  BY OrderLength
<1>10. /\ Append(InOrder(b), x) \in Seq(S \cup {x}) /\ Len(Append(InOrder(b), x)) = k + 1
       /\ Append(InOrder(b), x)[k + 1] = x /\ \A n \in 1 .. k : Append(InOrder(b), x)[n] = InOrder(b)[n]
  <2>1. InOrder(b) \in Seq(S \cup {x})
    BY <1>8
  <2> QED
    BY <1>0, <1>7, <2>1
<1>11. ASSUME NEW n \in 1 .. k + 1 PROVE InOrder(d)[n] = Append(InOrder(b), x)[n]
  <2>1. n \in 1 .. k \/ n = k + 1
    BY <1>0
  <2>2. CASE n \in 1 .. k
    BY <1>5, <1>10, <2>2
  <2>3. CASE n = k + 1
    BY <1>6, <1>10, <2>3
  <2> QED
    BY <2>1, <2>2, <2>3
<1> QED
  BY <1>7, <1>9, <1>10, <1>11, SameSequence

-----------------------------------------------------------------------------
(* One client, undisturbed: what is due is of a queue there is, and what   *)
(* it has picked is still the first of its queue.                          *)
SoleAt(c) == /\ \A d \in due : d[1] \in queues
             /\ pc[c] \in {"list", "get"} => target[c] \in queues
             /\ pc[c] = "get" => \E i \in Used(msgs[target[c]]) :
                                     /\ picked[c] = MessageKey(target[c], i)
                                     /\ \A j \in Numbers : j < i => msgs[target[c]][j] = Empty
             /\ pc[c] # "answer" => answer[c] = NoAnswer

Promised == [Promise!Next]_(Promise!vars)

(* The steps of MessageQueue.                                              *)
LEMMA Silent ==
  ASSUME Alone, Alone', UNCHANGED <<queues, answer>>, \A q \in queues : msgs'[q] = msgs[q]
  PROVE  Promised
<1>1. Contents' = Contents
  BY DEF Contents
<1> QED
  BY <1>1 DEF Promised, Promise!vars

LEMMA Creates ==
  ASSUME Alone, Alone', NEW q \in Queues, q \notin queues, queues' = queues \cup {q}, UNCHANGED <<answer, msgs>>,
         Stored(msgs[q]) = {}
  PROVE  Promised
<1>1. Used(msgs[q]) = {}
  BY DEF Stored, Used
<1>2. Contents' = Contents
  BY <1>1, NoneInOrder DEF Contents
<1>3. Promise!Create(q)
  BY <1>2 DEF Promise!Create
<1> QED
  BY <1>3 DEF Promised, Promise!Next

LEMMA Appends ==
  ASSUME Alone, Alone', NEW q \in Queues, q \in queues, NEW x \in Numbers, UNCHANGED <<queues, answer>>,
         InOrder(msgs'[q]) = Append(InOrder(msgs[q]), x), \A m \in Queues \ {q} : msgs'[m] = msgs[m]
  PROVE  Promised
<1>1. Contents' = [Contents EXCEPT ![q] = Append(@, x)]
  BY DEF Contents
<1>2. Promise!Send(q, x)
  BY <1>1 DEF Promise!Send
<1> QED
  BY <1>2 DEF Promised, Promise!Next

LEMMA Clears ==
  ASSUME Alone, Alone', NEW q \in Queues, UNCHANGED <<queues, answer>>,
         msgs'[q] = NoMessages, \A m \in Queues \ {q} : msgs'[m] = msgs[m]
  PROVE  Promised
<1>0. InOrder(NoMessages) = <<>>
  BY NoneInOrder DEF Used, NoMessages
<1>1. Contents' = [Contents EXCEPT ![q] = <<>>]
  BY <1>0 DEF Contents
<1>2. Promise!Clear(q)
  BY <1>1 DEF Promise!Clear
<1> QED
  BY <1>2 DEF Promised, Promise!Next

LEMMA Closes ==
  ASSUME Alone, Alone', NEW gone, gone = Queues \/ \E q \in Queues : gone = {q},
         queues' = queues \ gone, answer' \in [Clients -> {NoAnswer}] \cup {answer},
         \A q \in Queues \ gone : msgs'[q] = msgs[q]
  PROVE  Promised
<1>1. Contents' = [q \in Queues |-> IF q \in gone THEN <<>> ELSE Contents[q]]
  BY DEF Contents
<1>2. Promise!Delete(gone)
  BY <1>1 DEF Promise!Delete
<1> QED
  BY <1>2 DEF Promised, Promise!Next

LEMMA Receives ==
  ASSUME Alone, Alone', NEW c \in Clients, NEW q \in Queues, q \in queues, answer[c] = NoAnswer,
         UNCHANGED <<queues, msgs>>, NEW a, answer' = [answer EXCEPT ![c] = a],
         \/ InOrder(msgs[q]) = <<>> /\ a = Empty
         \/ InOrder(msgs[q]) # <<>> /\ a = Head(InOrder(msgs[q]))
  PROVE  Promised
<1>1. Contents' = Contents /\ Contents[q] = InOrder(msgs[q])
  BY DEF Contents
<1>2. Promise!Receive(c, q)
  BY <1>1 DEF Promise!Receive, Promise!Oldest
<1> QED
  BY <1>2 DEF Promised, Promise!Next

LEMMA Answers ==
  ASSUME Alone, Alone', NEW c \in Clients, UNCHANGED <<queues, msgs>>, answer' = [answer EXCEPT ![c] = NoAnswer]
  PROVE  Promised
<1>1. Contents' = Contents
  BY DEF Contents
<1>2. Promise!Answered(c)
  BY <1>1 DEF Promise!Answered
<1> QED
  BY <1>2 DEF Promised, Promise!Next

-----------------------------------------------------------------------------
LEMMA SoleIf ==
  ASSUME NEW c \in Clients, SoleAt(c), pc'[c] \notin {"list", "get", "answer"}, answer'[c] = NoAnswer,
         UNCHANGED queues, due' \subseteq due
  PROVE  SoleAt(c)'
BY DEF SoleAt

LEMMA SoleQueueing ==
  ASSUME TypeParts, Alone, Alone', NEW c \in Clients, OwedAt(c), SoleAt(c), Queueing(c)
  PROVE  SoleAt(c)' /\ Promised
<1> USE DEF TypeParts, RequestType, StoreType
<1>0. Queues \subseteq Mailboxes
  BY DEF Mailboxes
<1>1. ASSUME NEW q \in Queues, CreateQueue(c, q) \/ ClearMessages(c, q) PROVE SoleAt(c)' /\ Promised
  <2>1. pc[c] = Idle /\ pc'[c] \in {"create", "clear"} /\ UNCHANGED <<queues, msgs, due, answer>>
    BY <1>1 DEF CreateQueue, ClearMessages, Begin, Goto, At, store
  <2> QED
    BY <2>1, SoleIf, Silent DEF SoleAt, Idle
<1>2. ASSUME NEW q \in Queues, DeleteQueue(c, q) PROVE SoleAt(c)' /\ Promised
  <2>1. /\ pc[c] = Idle /\ pc'[c] = "sweep" /\ UNCHANGED <<msgs, answer>>
        /\ queues' = queues \ {q} /\ due' = {d \in due : d[1] # q}
    BY <1>2 DEF DeleteQueue, Begin, Goto, At, Forgive
  <2>2. Promised
    BY <2>1, Closes
  <2> QED
    BY <2>1, <2>2 DEF SoleAt, Idle
<1>3. ASSUME CreateSets(c) \/ DeleteSweeps(c) \/ ClearSweeps(c)
      PROVE  /\ pc[c] \in {"create", "sweep", "clear"} /\ pc'[c] = Idle /\ target[c] \in Queues
             /\ answer' = answer /\ answer[c] = NoAnswer /\ due' \subseteq due
  <2>1. /\ pc[c] \in {"create", "sweep", "clear"} /\ pc' = [pc EXCEPT ![c] = Idle]
        /\ answer' = [answer EXCEPT ![c] = NoAnswer] /\ due' \subseteq due
    BY <1>3 DEF CreateSets, DeleteSweeps, ClearSweeps, Forgive, Finish, Goto, At
  <2>2. answer[c] = NoAnswer
    BY <2>1 DEF SoleAt
  <2> QED
    BY <2>1, <2>2 DEF TargetInv
<1>4. CASE CreateSets(c)
  <2>1. pc[c] = "create" /\ queues' = queues \cup {target[c]} /\ UNCHANGED <<msgs, due>>
    BY <1>4 DEF CreateSets, At
  <2>2. Promised
    <3>1. CASE target[c] \in queues
      <4>1. queues' = queues
        BY <2>1, <3>1
      <4> QED
        BY <1>3, <1>4, <2>1, <4>1, Silent
    <3>2. CASE target[c] \notin queues
      <4>1. Stored(msgs[target[c]]) = {}
        <5> SUFFICES ASSUME NEW v \in Stored(msgs[target[c]]) PROVE FALSE
          OBVIOUS
        <5>1. <<target[c], v>> \in due
          BY <1>3, <1>4, <2>1 DEF OwedAt
        <5> QED
          BY <3>2, <5>1 DEF SoleAt
      <4> QED
        BY <1>3, <1>4, <2>1, <3>2, <4>1, Creates
    <3> QED
      BY <3>1, <3>2
  <2> QED
    BY <1>3, <1>4, <2>1, <2>2 DEF SoleAt, Idle
<1>5. CASE DeleteSweeps(c)
  <2>1. pc[c] = "sweep" /\ msgs' = [msgs EXCEPT ![target[c]] = NoMessages] /\ UNCHANGED <<queues, due>>
    BY <1>5 DEF DeleteSweeps, At
  <2>2. target[c] \notin queues
    BY <2>1 DEF OwedAt
  <2>3. \A q \in queues : msgs'[q] = msgs[q]
    BY <1>0, <2>1, <2>2
  <2> QED
    BY <1>3, <1>5, <2>1, <2>3, SoleIf, Silent DEF Idle
<1>6. CASE ClearSweeps(c)
  <2>1. pc[c] = "clear" /\ msgs' = [msgs EXCEPT ![target[c]] = NoMessages] /\ UNCHANGED queues
    BY <1>6 DEF ClearSweeps, At
  <2>2. msgs'[target[c]] = NoMessages /\ \A q \in Queues \ {target[c]} : msgs'[q] = msgs[q]
    BY <1>0, <1>3, <1>6, <2>1
  <2> QED
    BY <1>3, <1>6, <2>1, <2>2, SoleIf, Clears DEF Idle
<1> QED
  BY <1>1, <1>2, <1>4, <1>5, <1>6 DEF Queueing

LEMMA SoleSending ==
  ASSUME TypeParts, Alone, Alone', NEW c \in Clients, cast.clients = {c}, OrderInv, OwedAt(c), SoleAt(c),
         \/ c \in cast.senders /\ \E q \in Queues : SendMessage(c, q)
         \/ c \in cast.senders /\ \E t \in Topics : PublishMessage(c, t)
         \/ MsgIdLoads(c) \/ MsgIdStores(c) \/ MessageNamed(c) \/ MessageSet(c)
  PROVE  SoleAt(c)' /\ Promised
<1> USE DEF TypeParts, RequestType, StoreType
<1>1. ASSUME NEW q \in Queues, SendMessage(c, q) PROVE SoleAt(c)' /\ Promised
  <2>1. /\ pc[c] = Idle /\ pc'[c] = "load" /\ q \in queues /\ due' = due \cup {<<q, sends + 1>>}
        /\ UNCHANGED <<queues, msgs, answer>>
    BY <1>1 DEF SendMessage, Compose, Begin, Goto, At, store
  <2> QED
    BY <2>1, Silent DEF SoleAt, Idle
<1>2. ASSUME NEW t \in Topics, PublishMessage(c, t) PROVE SoleAt(c)' /\ Promised
  <2>1. pc[c] = Idle /\ pc'[c] = "load" /\ UNCHANGED <<queues, msgs, answer, due>>
    BY <1>2 DEF PublishMessage, Compose, Begin, Goto, At, store
  <2> QED
    BY <2>1, SoleIf, Silent DEF SoleAt, Idle
<1>3. CASE MsgIdLoads(c) \/ MsgIdStores(c) \/ MessageNamed(c)
  <2>1. pc[c] \in {"load", "store", "name"} /\ pc'[c] \in {"store", "name", "set"} /\ UNCHANGED <<queues, msgs, answer, due>>
    BY <1>3 DEF MsgIdLoads, MsgIdStores, MessageNamed, Goto, At, requests, store
  <2> QED
    BY <2>1, SoleIf, Silent DEF SoleAt
<1>4. CASE MessageSet(c)
  <2> DEFINE q == target[c]
  <2>1. /\ pc[c] = "set" /\ pc' = [pc EXCEPT ![c] = Idle] /\ UNCHANGED <<queues, due>>
        /\ msgs' = [msgs EXCEPT ![q][reg[c]] = body[c]] /\ answer' = [answer EXCEPT ![c] = NoAnswer]
    BY <1>4 DEF MessageSet, Finish, Goto, At
  <2>2. answer[c] = NoAnswer /\ answer' = answer /\ pc'[c] = Idle
    BY <2>1 DEF SoleAt
  <2>3. q \in Mailboxes /\ body[c] \in Numbers /\ OneSender
    <3>1. q \in Mailboxes /\ body[c] \in Numbers /\ c \in cast.senders
      BY <2>1 DEF TargetInv, Sending
    <3>2. cast.senders = {c}
      BY <3>1, CastMembers
    <3> QED
      BY <3>1, <3>2 DEF OneSender
  <2>4. PICK r \in runs : OrderAt(r)
    BY <2>3 DEF OrderInv
  <2>5. reg[c] \in Numbers
    BY <2>1, <2>4 DEF OrderAt, SenderInv, Sending, Numbers
  <2>6. ASSUME NEW j \in Used(msgs[q]) PROVE j < reg[c]
    <3>1. j \in Numbers /\ msgs[q][j] # Empty
      BY DEF Used
    <3>2. Fine(msgs[q][j], j, r) /\ msgs[q][j] > r
      BY <2>3, <2>4, <3>1 DEF OrderAt, Tidy, Recent, Alone, PlainMap
    <3> QED
      BY <2>1, <3>2 DEF Fine, Sending
  <2>7. SoleAt(c)'
    BY <2>1, <2>2, SoleIf DEF Idle
  <2>8. CASE q \in Queues
    <3>1. q \in queues
      <4>1. <<q, body[c]>> \in due
        BY <2>1, <2>8 DEF OwedAt, Sending
      <4> QED
        BY <4>1 DEF SoleAt
    <3>2. msgs[q] \in [Numbers -> 0 .. MaxSends] /\ msgs'[q] = [msgs[q] EXCEPT ![reg[c]] = body[c]]
      BY <2>1, <2>3
    <3>3. msgs'[q] \in [Numbers -> 0 .. MaxSends]
      BY <2>3, <3>2 DEF Numbers
    <3>4. PICK b : b = msgs[q]
      OBVIOUS
    <3>5. PICK d, i, x : d = msgs'[q] /\ i = reg[c] /\ x = body[c]
      OBVIOUS
    <3>6. InOrder(d) = Append(InOrder(b), x)
      <4>1. /\ b \in [Numbers -> 0 .. MaxSends] /\ d \in [Numbers -> 0 .. MaxSends]
            /\ d = [b EXCEPT ![i] = x] /\ i \in Numbers /\ x \in Numbers
        BY <2>3, <2>5, <3>2, <3>3, <3>4, <3>5
      <4>2. \A j \in Used(b) : j < i
        BY <2>6, <3>4, <3>5
      <4> QED
        BY ONLY <4>1, <4>2, LastIsAppended
    <3>7. \A m \in Queues \ {q} : msgs'[m] = msgs[m]
      BY <2>1 DEF Mailboxes
    <3>8. InOrder(msgs'[q]) = Append(InOrder(msgs[q]), body[c])
      BY <3>4, <3>5, <3>6
    <3> QED
      BY <2>1, <2>2, <2>3, <2>7, <2>8, <3>1, <3>7, <3>8, Appends
  <2>9. CASE q \notin Queues
    <3>1. \A m \in queues : msgs'[m] = msgs[m]
      BY <2>1, <2>9 DEF Mailboxes
    <3> QED
      BY <2>1, <2>2, <2>7, <3>1, Silent
  <2> QED
    BY <2>8, <2>9
<1> QED
  BY <1>1, <1>2, <1>3, <1>4

LEMMA SoleReceiving ==
  ASSUME TypeParts, Alone, Alone', PickedInv, NEW c \in Clients, SoleAt(c),
         \/ \E q \in Queues : ReceiveMessage(c, q)
         \/ ReceiveLists(c) \/ ReceiveGets(c) \/ ReceiveAnswers(c)
  PROVE  SoleAt(c)' /\ Promised
<1> USE DEF TypeParts, RequestType, StoreType
<1> DEFINE m == target[c]
<1>1. ASSUME NEW q \in Queues, ReceiveMessage(c, q) PROVE SoleAt(c)' /\ Promised
  <2>1. /\ pc[c] = Idle /\ pc'[c] = "list" /\ target'[c] = q /\ q \in queues /\ UNCHANGED <<queues, msgs, answer, due>>
    BY <1>1 DEF ReceiveMessage, Begin, Goto, At, store
  <2> QED
    BY <2>1, Silent DEF SoleAt, Idle
<1>2. ASSUME pc[c] \in {"list", "get"} PROVE m \in Queues /\ m \in Mailboxes /\ m \in queues /\ answer[c] = NoAnswer
  BY <1>2 DEF TargetInv, Receiving, SoleAt, Mailboxes
<1>3. CASE ReceiveLists(c)
  <2>1. pc[c] = "list" /\ UNCHANGED <<queues, msgs, due, target>>
    BY <1>3 DEF ReceiveLists, At, store
  <2>2. CASE ListKeysByPrefix(m) = {}
    <3>1. pc' = [pc EXCEPT ![c] = "answer"] /\ answer' = [answer EXCEPT ![c] = Empty]
      BY <1>3, <2>2 DEF ReceiveLists, Goto
    <3>2. ASSUME NEW i \in Numbers, msgs[m][i] # Empty PROVE FALSE
      <4>1. <<m, i>> \in {y \in Mailboxes \X Numbers : msgs[y[1]][y[2]] # Empty}
        BY <1>2, <2>1, <3>2
      <4>2. MessageKey(m, i) \in AllKeys
        BY <4>1 DEF AllKeys
      <4> QED
        BY <1>2, <2>1, <2>2, <4>2 DEF MessageKey, ListKeysByPrefix, Alone, PlainMap
    <3>3. InOrder(msgs[m]) = <<>>
      BY <3>2, NoneInOrder DEF Used
    <3>4. Promised
      BY <1>2, <2>1, <3>1, <3>3, Receives
    <3> QED
      BY <2>1, <3>1, <3>4 DEF SoleAt
  <2>3. CASE ListKeysByPrefix(m) # {}
    <3>1. /\ pc' = [pc EXCEPT ![c] = "get"] /\ picked' = [picked EXCEPT ![c] = First(ListKeysByPrefix(m))]
          /\ answer' = answer
      BY <1>3, <2>3 DEF ReceiveLists, Goto
    <3>2. pc'[c] = "get" /\ picked'[c] = First(ListKeysByPrefix(m))
      BY <3>1 DEF PickedInv
    <3>3. PICK i \in Numbers : /\ First(ListKeysByPrefix(m)) = MessageKey(m, i)
                               /\ msgs[m][i] # Empty
                               /\ \A j \in Numbers : j < i => msgs[m][j] = Empty
      BY <1>2, <2>1, <2>3, FirstIsLeast DEF Alone
    <3>4. i \in Used(msgs[m])
      BY <3>3 DEF Used
    <3>5. /\ target'[c] = m /\ msgs'[m] = msgs[m] /\ i \in Used(msgs'[m])
          /\ picked'[c] = MessageKey(m, i) /\ \A j \in Numbers : j < i => msgs'[m][j] = Empty
      BY <2>1, <3>2, <3>3, <3>4
    <3>6. SoleAt(c)'
      BY <1>2, <2>1, <3>1, <3>2, <3>5 DEF SoleAt, MessageKey
    <3> QED
      BY <2>1, <3>1, <3>6, Silent
  <2> QED
    BY <2>2, <2>3
<1>4. CASE ReceiveGets(c)
  <2>1. /\ pc[c] = "get" /\ pc' = [pc EXCEPT ![c] = "answer"] /\ UNCHANGED <<queues, msgs, due, target>>
        /\ answer' = [answer EXCEPT ![c] = Get(picked[c])]
    BY <1>4 DEF ReceiveGets, Goto, At, store
  <2>2. PICK i \in Used(msgs[m]) : picked[c] = MessageKey(m, i) /\ \A j \in Numbers : j < i => msgs[m][j] = Empty
    BY <2>1 DEF SoleAt
  <2>3. picked[c][1] \in {2, 5} /\ picked[c][2] = m /\ picked[c][3] = i
    BY <2>2 DEF MessageKey
  <2>4. picked[c] \in AllKeys
    <3>1. <<m, i>> \in {y \in Mailboxes \X Numbers : msgs[y[1]][y[2]] # Empty}
      BY <1>2, <2>1, <2>2 DEF Used
    <3> QED
      BY <2>2, <3>1 DEF AllKeys
  <2>5. Get(picked[c]) = msgs[m][i]
    BY <2>3, <2>4 DEF Get
  <2>6. InOrder(msgs[m]) # <<>> /\ Head(InOrder(msgs[m])) = msgs[m][i]
    BY <2>2, LeastIsFirst
  <2>7. Promised
    BY <1>2, <2>1, <2>5, <2>6, Receives
  <2> QED
    BY <2>1, <2>7 DEF SoleAt
<1>5. CASE ReceiveAnswers(c)
  <2>1. /\ pc' = [pc EXCEPT ![c] = Idle] /\ answer' = [answer EXCEPT ![c] = NoAnswer] /\ UNCHANGED <<queues, msgs, due>>
    BY <1>5 DEF ReceiveAnswers, Finish, Goto, store
  <2>2. Promised
    BY <2>1, Answers
  <2> QED
    BY <2>1, <2>2 DEF SoleAt, Idle
<1> QED
  BY <1>1, <1>3, <1>4, <1>5

SoleInv == Alone => \A c \in Clients : cast.clients = {c} => SoleAt(c)

LEMMA NextSole ==
  ASSUME TypeParts, BusyInv, PlainDisk, PickedInv, OrderInv, OwedInv, SoleInv, [Next]_vars
  PROVE  SoleInv' /\ Promised
<1>1. UNCHANGED <<cast, backend>>
  <2>1. ASSUME NEW c \in Clients, Sends(c) PROVE UNCHANGED <<cast, backend>>
    BY <2>1 DEF Sends, SendMessage, PublishMessage, Compose, file
  <2> QED
    BY <2>1, StepKinds DEF Aside, Restart, MsgIdLoads, MsgIdStores, MessageNamed, MessageSet, file
<1>2. Alone' = Alone
  BY <1>1 DEF Alone, PlainMap, Undisturbed, OneClient
<1>3. CASE ~Alone
  BY <1>2, <1>3 DEF SoleInv, Promised, Promise!vars
<1> SUFFICES ASSUME Alone, Alone' PROVE SoleInv' /\ Promised
  BY <1>2, <1>3
<1>4. PICK c \in Clients : cast.clients = {c} /\ OwedAt(c)
  BY DEF OwedInv, Alone
<1>5. SoleAt(c)
  BY <1>4 DEF SoleInv
<1> SUFFICES SoleAt(c)' /\ Promised
  BY <1>1, <1>4 DEF SoleInv
<1>6. CASE UNCHANGED vars \/ Save
  <2>1. UNCHANGED <<queues, msgs, due, pc, target, picked, answer>>
    BY <1>6 DEF vars, Save, store, requests
  <2> QED
    BY <1>5, <2>1, Silent DEF SoleAt
<1>7. ~Reset
  BY DEF Reset, Alone, Undisturbed, TypeParts, CastType
<1>8. CASE Restart
  <2>1. queues' = {} /\ due' = {} /\ pc'[c] = Idle /\ answer' = [d \in Clients |-> NoAnswer]
    BY <1>8 DEF Restart, Holding, PlainDisk, EmptyStore, Alone
  <2>2. Promised
    BY <2>1, Closes DEF TypeParts, StoreType
  <2> QED
    BY <2>1, <2>2 DEF SoleAt, Idle
<1>9. ASSUME NEW d \in Clients, Queueing(d) \/ Administering(d) \/ Messaging(d)
      PROVE  SoleAt(c)' /\ Promised
  <2>1. d = c
    BY <1>4, <1>9, OnlyClient
  <2>2. ~Administering(c)
    BY DEF Administering, DeleteNamespaceQueues, DeleteNamespaceTopics, At, Alone, Undisturbed, BusyInv
  <2>3. CASE Queueing(c)
    BY <1>4, <1>5, <2>3, SoleQueueing
  <2>4. CASE Messaging(c)
    BY <1>4, <1>5, <2>4, SoleSending, SoleReceiving DEF Messaging
  <2> QED
    BY <1>9, <2>1, <2>2, <2>3, <2>4
<1> QED
  BY <1>6, <1>7, <1>8, <1>9 DEF Next

(* One client at a time sees a FIFO queue that keeps its messages, though  *)
(* each of its requests is several steps over keys and a counter           *)
(* (CreateQueue, SendMessage, ReceiveMessage, DeleteQueue, ClearMessages   *)
(* together).                                                              *)
THEOREM QueuesAreFIFO == Spec => ImplementsMessageQueue
<1>1. Init => SoleInv /\ Promise!Init
  <2> SUFFICES ASSUME Init PROVE SoleInv /\ Promise!Init
    OBVIOUS
  <2>1. SoleInv
    BY DEF Init, NoRequests, SoleInv, SoleAt, Idle
  <2>2. Contents = [q \in Queues |-> <<>>]
    BY DEF Init, Contents
  <2>3. Promise!Init
    BY <2>2 DEF Init, NoRequests, Promise!Init
  <2> QED
    BY <2>1, <2>3
<1>2. TypeParts /\ BusyInv /\ PlainDisk /\ PickedInv /\ OrderInv /\ OwedInv /\ SoleInv /\ [Next]_vars
         => SoleInv' /\ [Promise!Next]_(Promise!vars)
  BY NextSole DEF Promised
<1> QED
  BY <1>1, <1>2, PartsHold, BusyHolds, PlainDiskHolds, PickedHolds, OrderHolds, OwedHolds, PTL DEF Spec, ImplementsMessageQueue, Promise!Spec
=============================================================================
