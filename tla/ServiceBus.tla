----------------------------- MODULE ServiceBus -----------------------------
(***************************************************************************)
(* internal/services/servicebus: queues and topics kept as records of the  *)
(* shared store, one record per message, under a key that ends with the    *)
(* message's number.                                                       *)
(*                                                                         *)
(* Every store call is atomic; a request makes several and other requests  *)
(* run in between.  The handler's counter msgId is shared by all requests  *)
(* and all queues and nothing protects it: msgId++ is a load and a store,  *)
(* and building the message reads it again.  The number is formatted with  *)
(* leading zeros, so that the order of the keys is the order of the        *)
(* numbers.  Listing a prefix filters the keys only when the backend is    *)
(* the plain map (Store.ListKeysByPrefix); with file persistence it        *)
(* returns every key of the store.                                         *)
(*                                                                         *)
(* Queues, topics and namespaces are numbered in the order of their names. *)
(*                                                                         *)
(* internal/services/queue, the storage queues, is the same code with a    *)
(* handler and a counter of its own, without topics and ARM routes; it     *)
(* lists all messages at once, in no order, and can clear a queue.  A      *)
(* behaviour is about one of the two services.                             *)
(***************************************************************************)
EXTENDS Integers, FiniteSetsExt

CONSTANTS Clients,        \* concurrent requests
          Queues, Topics, Namespaces,
          NamespaceOf,    \* the namespace of a queue or a topic
          Casts,          \* who takes part in a behaviour, and what may happen
          MaxSends        \* bound on the number of messages

ASSUME NamesAssumption == /\ Queues \cup Topics \cup Namespaces \subseteq Nat \ {0}
                          /\ Queues \cap Topics = {}
                          /\ NamespaceOf \in [Queues \cup Topics -> Namespaces]
ASSUME BoundsAssumption == MaxSends \in Nat

(* A cast: the service; the clients, who receive; those of them that send  *)
(* and publish, that create and delete queues and clear them, that use the *)
(* ARM routes; the backends the process may have; and bounds on the        *)
(* messages, on the times the process starts again, and on the calls of    *)
(* the reset endpoint.                                                     *)
ASSUME CastsAssumption ==
    \A k \in Casts : /\ k.service \in {"servicebus", "queue"}
                     /\ k.clients \subseteq Clients
                     /\ k.senders \cup k.managers \cup k.admins \subseteq k.clients
                     /\ k.backends \subseteq {"memory", "file"}
                     /\ k.sends \in 0 .. MaxSends /\ k.restarts \in Nat /\ k.resets \in Nat

VARIABLES cast,
          queues,       \* the sb:queue records
          namespaces,   \* the sb:namespace records
          armChildren,  \* the sb:armqueue records (sb:armtopic: the same code)
          msgs,         \* the sb:msg and sb:topic records: a body under a number
          msgId,        \* Handler.msgId
          backend,      \* the store's backend: the plain map, or the map saved to a file
          disk,         \* the last checkpoint of the store, and what was due by then
          pc, target,   \* where each request is, and the name it is about
          body,         \* the message it sends
          reg,          \* the number it read from msgId
          picked,       \* the key it chose among those listed
          answer,       \* what it answers
          window,       \* the answers that were right at some moment of a receive
          due,          \* the messages each queue owes its clients
          runs,         \* how many messages had been sent each time the process started
          sends, restarts, resets

store == <<queues, namespaces, armChildren, msgs>>
requests == <<target, body, reg, picked, answer>>
bounds == <<runs, sends, restarts, resets>>
file == <<cast, backend, disk>>
vars == <<store, msgId, file, pc, requests, window, due, bounds>>

Bus == cast.service = "servicebus"

Idle == "idle"
Sending == {"load", "store", "name", "set"}
Receiving == {"list", "get", "answer"}
Points == {Idle, "create", "sweep", "clear", "queues", "topics"} \cup Sending \cup Receiving

Mailboxes == Queues \cup Topics
Numbers == 1 .. MaxSends
Empty == 0                \* no message: 204 No Content
Record == MaxSends + 1    \* a record that is not a message
NoKey == <<0, 0, 0>>
NoAnswer == -1
NoMessages == [i \in Numbers |-> Empty]

(* The keys of the store in string order: sb:armqueue:, sb:msg:,           *)
(* sb:namespace:, sb:queue:, sb:topic:, then the name, then the number.    *)
ArmKey(q) == <<1, q, 0>>
MessageKey(m, i) == <<IF m \in Queues THEN 2 ELSE 5, m, i>>
NamespaceKey(n) == <<3, n, 0>>
QueueKey(q) == <<4, q, 0>>

AllKeys == {ArmKey(q) : q \in armChildren}
           \cup {MessageKey(x[1], x[2]) : x \in {y \in Mailboxes \X Numbers : msgs[y[1]][y[2]] # Empty}}
           \cup {NamespaceKey(n) : n \in namespaces}
           \cup {QueueKey(q) : q \in queues}

Before(k, l) == \E i \in 1 .. 3 : k[i] < l[i] /\ \A j \in 1 .. i - 1 : k[j] = l[j]

(* Mutant: the prefix is never looked at.                                  *)
BugListEverything(q) == AllKeys

(* Store.ListKeysByPrefix("sb:msg:" + the queue).                          *)
ListKeysByPrefix(q) ==
    IF backend = "memory" THEN {k \in AllKeys : k[1] = 2 /\ k[2] = q} ELSE AllKeys

(* Mutant: the keys are sorted the other way round.                        *)
BugSortDown(keys) == CHOOSE k \in keys : \A l \in keys \ {k} : Before(l, k)

First(keys) == CHOOSE k \in keys : \A l \in keys \ {k} : Before(k, l)

(* Store.Get: the body of a message, or the fact that it is none.          *)
Get(k) == IF k \notin AllKeys THEN Empty
          ELSE IF k[1] \in {2, 5} THEN msgs[k[2]][k[3]] ELSE Record

Stored(mailbox) == {mailbox[i] : i \in Numbers} \ {Empty}
Oldest(mailbox) == IF Stored(mailbox) = {} THEN Empty ELSE Min(Stored(mailbox))

TypeOK == /\ queues \subseteq Queues
          /\ namespaces \subseteq Namespaces
          /\ armChildren \subseteq Queues
          /\ msgs \in [Mailboxes -> [Numbers -> 0 .. MaxSends]]
          /\ msgId \in 0 .. MaxSends
          /\ cast \in Casts
          /\ backend \in cast.backends
          /\ pc \in [Clients -> Points]
          /\ target \in [Clients -> Mailboxes \cup Namespaces \cup {0}]
          /\ body \in [Clients -> 0 .. MaxSends]
          /\ reg \in [Clients -> 0 .. MaxSends]
          /\ answer \in [Clients -> NoAnswer .. Record]
          /\ window \in [Clients -> SUBSET (0 .. MaxSends)]
          /\ due \subseteq Queues \X Numbers
          /\ runs \subseteq 0 .. MaxSends
          /\ sends \in 0 .. MaxSends
          /\ restarts \in 0 .. cast.restarts
          /\ resets \in 0 .. cast.resets

EmptyStore == [queues |-> {}, namespaces |-> {}, armChildren |-> {},
               msgs |-> [m \in Mailboxes |-> NoMessages], due |-> {}]

NoRequests == /\ pc = [c \in Clients |-> Idle]
              /\ target = [c \in Clients |-> 0]
              /\ body = [c \in Clients |-> 0]
              /\ reg = [c \in Clients |-> 0]
              /\ picked = [c \in Clients |-> NoKey]
              /\ answer = [c \in Clients |-> NoAnswer]
              /\ window = [c \in Clients |-> {}]

Init == /\ queues = {} /\ namespaces = {} /\ armChildren = {}
        /\ msgs = EmptyStore.msgs
        /\ msgId = 0
        /\ cast \in Casts
        /\ backend \in cast.backends
        /\ disk = EmptyStore
        /\ NoRequests
        /\ due = {}
        /\ runs = {0}
        /\ sends = 0 /\ restarts = 0 /\ resets = 0

-----------------------------------------------------------------------------
(* Steps of a request.  Receives in progress note what the oldest message  *)
(* of their queue is after each of them.                                   *)

Watch == window' = [c \in Clients |->
                      CASE pc'[c] \in {"list", "get"} -> window[c] \cup {Oldest(msgs'[target'[c]])}
                        [] pc'[c] = "answer" -> window[c]
                        [] OTHER -> {}]

At(c, point) == pc[c] = point
Goto(c, point) == pc' = [pc EXCEPT ![c] = point] /\ Watch
Begin(c, point, name) == /\ At(c, Idle)
                         /\ target' = [target EXCEPT ![c] = name]
                         /\ Goto(c, point)
Finish(c) == /\ target' = [target EXCEPT ![c] = 0]
             /\ body' = [body EXCEPT ![c] = 0]
             /\ reg' = [reg EXCEPT ![c] = 0]
             /\ picked' = [picked EXCEPT ![c] = NoKey]
             /\ answer' = [answer EXCEPT ![c] = NoAnswer]
             /\ Goto(c, Idle)

-----------------------------------------------------------------------------
(* Queues.  An existing queue is answered 409, a missing one 404.          *)

CreateQueue(c, q) == /\ q \notin queues
                     /\ UNCHANGED <<store, msgId, file, body, reg, picked, answer, due, bounds>>
                     /\ Begin(c, "create", q)

CreateSets(c) == /\ At(c, "create")
                 /\ queues' = queues \cup {target[c]}
                 /\ UNCHANGED <<namespaces, armChildren, msgs, msgId, file, due, bounds>>
                 /\ Finish(c)

Forgive(gone) == due' = {d \in due : d[1] \notin gone}

DeleteQueue(c, q) == /\ q \in queues
                     /\ queues' = queues \ {q}
                     /\ Forgive({q})
                     /\ UNCHANGED <<namespaces, armChildren, msgs, msgId, file, body, reg, picked, answer, bounds>>
                     /\ Begin(c, "sweep", q)

(* Mutant: the messages stay.                                              *)
BugNoSweep(c) == /\ At(c, "sweep")
                 /\ UNCHANGED <<store, msgId, file, due, bounds>>
                 /\ Finish(c)

(* DeleteByPrefix of the queue's messages.                                 *)
DeleteSweeps(c) == /\ At(c, "sweep")
                   /\ msgs' = [msgs EXCEPT ![target[c]] = NoMessages]
                   /\ UNCHANGED <<queues, namespaces, armChildren, msgId, file, due, bounds>>
                   /\ Finish(c)

(* ClearMessages of a storage queue: look it up, DeleteByPrefix.           *)
ClearMessages(c, q) == /\ ~Bus
                       /\ q \in queues
                       /\ UNCHANGED <<store, msgId, file, body, reg, picked, answer, due, bounds>>
                       /\ Begin(c, "clear", q)

ClearSweeps(c) == /\ At(c, "clear")
                  /\ msgs' = [msgs EXCEPT ![target[c]] = NoMessages]
                  /\ Forgive({target[c]})
                  /\ UNCHANGED <<queues, namespaces, armChildren, msgId, file, bounds>>
                  /\ Finish(c)

-----------------------------------------------------------------------------
(* Messages.  SendMessage looks the queue up first, PublishMessage does    *)
(* not look for its topic; the rest is the same.                           *)

Compose(c, m) == /\ sends < cast.sends
                 /\ sends' = sends + 1
                 /\ body' = [body EXCEPT ![c] = sends + 1]
                 /\ UNCHANGED <<store, msgId, file, reg, picked, answer, runs, restarts, resets>>
                 /\ Begin(c, "load", m)

SendMessage(c, q) == /\ q \in queues
                     /\ due' = due \cup {<<q, sends + 1>>}
                     /\ Compose(c, q)

PublishMessage(c, t) == Bus /\ UNCHANGED due /\ Compose(c, t)

(* h.msgId++: load, then store.                                            *)
MsgIdLoads(c) == /\ At(c, "load")
                 /\ reg' = [reg EXCEPT ![c] = msgId]
                 /\ UNCHANGED <<store, msgId, file, target, body, picked, answer, due, bounds>>
                 /\ Goto(c, "store")

(* Mutant: the counter is not advanced past the first message.             *)
BugMsgIdStuck(c) == /\ At(c, "store")
                    /\ msgId' = 1
                    /\ UNCHANGED <<store, file, requests, due, bounds>>
                    /\ Goto(c, "name")

(* Mutant: both halves of the increment add one.                           *)
BugMsgIdTwice(c) == /\ At(c, "store")
                    /\ msgId' = reg[c] + 2
                    /\ UNCHANGED <<store, file, requests, due, bounds>>
                    /\ Goto(c, "name")

(* Mutant: the counter wraps around after two messages.                    *)
BugMsgIdWraps(c) == /\ At(c, "store")
                    /\ msgId' = (reg[c] % 2) + 1
                    /\ UNCHANGED <<store, file, requests, due, bounds>>
                    /\ Goto(c, "name")

MsgIdStores(c) == /\ At(c, "store")
                  /\ msgId' = reg[c] + 1
                  /\ UNCHANGED <<store, file, requests, due, bounds>>
                  /\ Goto(c, "name")

(* MessageId is formatted from whatever msgId holds by then.               *)
MessageNamed(c) == /\ At(c, "name")
                   /\ reg' = [reg EXCEPT ![c] = msgId]
                   /\ UNCHANGED <<store, msgId, file, target, body, picked, answer, due, bounds>>
                   /\ Goto(c, "set")

MessageSet(c) == /\ At(c, "set")
                 /\ msgs' = [msgs EXCEPT ![target[c]][reg[c]] = body[c]]
                 /\ UNCHANGED <<queues, namespaces, armChildren, msgId, file, due, bounds>>
                 /\ Finish(c)

(* ReceiveMessage: look the queue up, list the keys, fetch the first.  A   *)
(* storage queue answers one atomic list, which no other step sees.        *)
ReceiveMessage(c, q) == /\ Bus
                        /\ q \in queues
                        /\ UNCHANGED <<store, msgId, file, body, reg, picked, answer, due, bounds>>
                        /\ Begin(c, "list", q)

ReceiveLists(c) ==
    /\ At(c, "list")
    /\ LET keys == ListKeysByPrefix(target[c])
       IN  \/ /\ keys = {}
              /\ answer' = [answer EXCEPT ![c] = Empty]
              /\ UNCHANGED <<store, msgId, file, target, body, reg, picked, due, bounds>>
              /\ Goto(c, "answer")
           \/ /\ keys # {}
              /\ picked' = [picked EXCEPT ![c] = First(keys)]
              /\ UNCHANGED <<store, msgId, file, target, body, reg, answer, due, bounds>>
              /\ Goto(c, "get")

ReceiveGets(c) == /\ At(c, "get")
                  /\ answer' = [answer EXCEPT ![c] = Get(picked[c])]
                  /\ UNCHANGED <<store, msgId, file, target, body, reg, picked, due, bounds>>
                  /\ Goto(c, "answer")

ReceiveAnswers(c) == /\ At(c, "answer")
                     /\ UNCHANGED <<store, msgId, file, due, bounds>>
                     /\ Finish(c)

-----------------------------------------------------------------------------
(* The ARM routes.  A namespace takes its queues' and topics' data-plane   *)
(* records with it, but not the queues' messages and not the ARM children. *)

Arm == UNCHANGED <<queues, msgs, msgId, file, pc, requests, due, bounds>>

CreateOrUpdateNamespace(n) == /\ namespaces' = namespaces \cup {n}
                              /\ UNCHANGED armChildren
                              /\ Arm /\ Watch

CreateQueueARM(q) == /\ armChildren' = armChildren \cup {q}
                     /\ UNCHANGED namespaces
                     /\ Arm /\ Watch

DeleteQueueARM(q) == /\ q \in armChildren
                     /\ armChildren' = armChildren \ {q}
                     /\ UNCHANGED namespaces
                     /\ Arm /\ Watch

Of(n) == {m \in Mailboxes : NamespaceOf[m] = n}

DeleteNamespace(c, n) == /\ n \in namespaces
                         /\ namespaces' = namespaces \ {n}
                         /\ UNCHANGED <<queues, armChildren, msgs, msgId, file, body, reg, picked, answer, due, bounds>>
                         /\ Begin(c, "queues", n)

DeleteNamespaceQueues(c) == /\ At(c, "queues")
                            /\ queues' = queues \ Of(target[c])
                            /\ Forgive(Of(target[c]))
                            /\ UNCHANGED <<namespaces, armChildren, msgs, msgId, file, requests, bounds>>
                            /\ Goto(c, "topics")

DeleteNamespaceTopics(c) ==
    /\ At(c, "topics")
    /\ msgs' = [m \in Mailboxes |-> IF m \in Topics \cap Of(target[c]) THEN NoMessages ELSE msgs[m]]
    /\ UNCHANGED <<queues, namespaces, armChildren, msgId, file, due, bounds>>
    /\ Finish(c)

-----------------------------------------------------------------------------
(* The process.  POST /_miniblue/reset empties the store and leaves the    *)
(* handler alone; a process that starts again has a fresh handler, and the *)
(* store of the last checkpoint if there is one (FileBackend).             *)

Holding(s) == /\ queues' = s.queues
              /\ namespaces' = s.namespaces
              /\ armChildren' = s.armChildren
              /\ msgs' = s.msgs

Reset == /\ resets < cast.resets
         /\ resets' = resets + 1
         /\ Holding(EmptyStore)
         /\ due' = {}
         /\ UNCHANGED <<msgId, file, pc, requests, runs, sends, restarts>>
         /\ Watch

Save == /\ backend = "file"
        /\ restarts < cast.restarts
        /\ disk' = [queues |-> queues, namespaces |-> namespaces,
                    armChildren |-> armChildren, msgs |-> msgs, due |-> due]
        /\ UNCHANGED <<store, msgId, cast, backend, pc, requests, window, due, bounds>>

Restart == /\ restarts < cast.restarts
           /\ restarts' = restarts + 1
           /\ Holding(disk)
           /\ msgId' = 0
           /\ pc' = [c \in Clients |-> Idle]
           /\ target' = [c \in Clients |-> 0]
           /\ body' = [c \in Clients |-> 0]
           /\ reg' = [c \in Clients |-> 0]
           /\ picked' = [c \in Clients |-> NoKey]
           /\ answer' = [c \in Clients |-> NoAnswer]
           /\ window' = [c \in Clients |-> {}]
           /\ due' = {d \in disk.due : d[2] \in Stored(disk.msgs[d[1]])}
           /\ runs' = runs \cup {sends}
           /\ UNCHANGED <<file, sends, resets>>

-----------------------------------------------------------------------------
Queueing(c) == \/ CreateSets(c) \/ DeleteSweeps(c) \/ ClearSweeps(c)
               \/ /\ c \in cast.managers
                  /\ \E q \in Queues : CreateQueue(c, q) \/ DeleteQueue(c, q) \/ ClearMessages(c, q)

Messaging(c) == \/ c \in cast.senders /\ \E q \in Queues : SendMessage(c, q)
                \/ c \in cast.senders /\ \E t \in Topics : PublishMessage(c, t)
                \/ MsgIdLoads(c) \/ MsgIdStores(c) \/ MessageNamed(c) \/ MessageSet(c)
                \/ c \in cast.clients /\ \E q \in Queues : ReceiveMessage(c, q)
                \/ ReceiveLists(c) \/ ReceiveGets(c) \/ ReceiveAnswers(c)

Administering(c) == \/ /\ Bus
                       /\ c \in cast.admins
                       /\ \/ \E n \in Namespaces : DeleteNamespace(c, n)
                          \/ At(c, Idle) /\ \E n \in Namespaces : CreateOrUpdateNamespace(n)
                          \/ At(c, Idle) /\ \E q \in Queues : CreateQueueARM(q) \/ DeleteQueueARM(q)
                    \/ DeleteNamespaceQueues(c)
                    \/ DeleteNamespaceTopics(c)

Next == \/ \E c \in Clients : Queueing(c) \/ Messaging(c) \/ Administering(c)
        \/ Reset \/ Save \/ Restart

Spec == Init /\ [][Next]_vars

-----------------------------------------------------------------------------
(* docs/services/service-bus.md: a receive "returns the oldest message in  *)
(* the queue", or 204 for an empty one - at some moment while it ran       *)
(* (ReceiveMessage's list, sort and get).                                  *)
ReceiveAnswersTheOldest == \A c \in Clients : pc[c] = "answer" => answer[c] \in window[c]

PlainMap == backend = "memory"
OneClient == \E c \in Clients : cast.clients = {c}
OneSender == \E c \in Clients : cast.senders = {c}

(* Nobody takes a queue away but by deleting it: a namespace that is       *)
(* deleted, and a reset while a message is sent, leave messages behind.    *)
Undisturbed == OneClient /\ cast.admins = {} /\ cast.resets = 0

(* With one sender and the plain map it does, whatever other clients       *)
(* create, delete, receive and reset meanwhile (ReceiveMessage against     *)
(* every other handler).                                                   *)
PlainMapAnswersTheOldest == PlainMap /\ OneSender => ReceiveAnswersTheOldest

(* docs/services/service-bus.md: "Messages persist until the queue is      *)
(* deleted" - a message that was accepted is in its queue until then       *)
(* (SendMessage against every other handler).                              *)
MessagesPersist ==
    \A d \in due : \/ d[2] \in Stored(msgs[d[1]])
                   \/ \E c \in Clients : pc[c] \in Sending /\ body[c] = d[2]

(* The counter of one process of one client numbers without a clash, so    *)
(* its messages are kept (msgId++ and the key of the message, of either    *)
(* service).                                                               *)
PlainMapKeepsMessages == PlainMap /\ OneClient => MessagesPersist

(* An existing queue holds only messages sent since it was created: the    *)
(* messages of a queue go with it, and those of a cleared queue too        *)
(* (CreateQueue, SendMessage, DeleteQueue, ClearMessages).                 *)
PlainMapLeavesNothingOver ==
    PlainMap /\ Undisturbed => \A q \in queues : {q} \X Stored(msgs[q]) \subseteq due

(* Messages sent by one process are numbered in the order in which they    *)
(* were sent, in every queue and topic, whatever is reset, restored or     *)
(* deleted in between (msgId++ against restarts and the other handlers).   *)
NumbersFollowTheSends ==
    OneSender => \A m \in Mailboxes : \A i, j \in {n \in Numbers : msgs[m][n] # Empty} :
        i < j => msgs[m][i] < msgs[m][j] \/ \E s \in runs : msgs[m][j] <= s /\ s < msgs[m][i]

(* The messages of a mailbox, one behind the other.                        *)
Used(mailbox) == {i \in Numbers : mailbox[i] # Empty}
Ahead(mailbox, i) == {j \in Used(mailbox) : j < i}
InOrder(mailbox) == [n \in 1 .. Cardinality(Used(mailbox)) |->
                       mailbox[CHOOSE i \in Used(mailbox) : Cardinality(Ahead(mailbox, i)) = n - 1]]

Alone == PlainMap /\ Undisturbed
Contents == [q \in Queues |-> IF q \in queues THEN InOrder(msgs[q]) ELSE <<>>]

Promise == INSTANCE MessageQueue
             WITH Messages <- Numbers, Nothing <- Empty,
                  open <- IF Alone THEN queues ELSE {},
                  answer <- IF Alone THEN answer ELSE [c \in Clients |-> NoAnswer],
                  contents <- IF Alone THEN Contents ELSE [q \in Queues |-> <<>>]

(* One client at a time, with the plain map, sees a FIFO queue that keeps  *)
(* its messages (CreateQueue, SendMessage, ReceiveMessage, DeleteQueue and *)
(* ClearMessages together).                                                *)
ImplementsMessageQueue == Promise!Spec
=============================================================================
