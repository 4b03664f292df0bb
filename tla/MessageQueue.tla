---------------------------- MODULE MessageQueue ----------------------------
(***************************************************************************)
(* What a queue promises: messages are kept in the order in which they     *)
(* were sent, receiving answers the oldest one and removes nothing, and    *)
(* the messages of a queue live as long as the queue, unless it is         *)
(* cleared.                                                                *)
(* ServiceBus implements this specification for one client at a time.      *)
(***************************************************************************)
EXTENDS Sequences

CONSTANTS Clients, Queues, Messages, Nothing, NoAnswer

VARIABLES open,       \* the queues that exist
          contents,   \* the messages of each queue, oldest first
          answer      \* the answer each receiving client is being given

vars == <<open, contents, answer>>

Init == /\ open = {}
        /\ contents = [q \in Queues |-> <<>>]
        /\ answer = [c \in Clients |-> NoAnswer]

Create(q) == /\ q \notin open
             /\ open' = open \cup {q}
             /\ UNCHANGED <<contents, answer>>

Send(q, m) == /\ q \in open
              /\ contents' = [contents EXCEPT ![q] = Append(@, m)]
              /\ UNCHANGED <<open, answer>>

Oldest(q) == IF contents[q] = <<>> THEN Nothing ELSE Head(contents[q])

Receive(c, q) == /\ answer[c] = NoAnswer
                 /\ q \in open
                 /\ answer' = [answer EXCEPT ![c] = Oldest(q)]
                 /\ UNCHANGED <<open, contents>>

Answered(c) == /\ answer' = [answer EXCEPT ![c] = NoAnswer]
               /\ UNCHANGED <<open, contents>>

Clear(q) == /\ contents' = [contents EXCEPT ![q] = <<>>]
            /\ UNCHANGED <<open, answer>>

(* Queues are deleted one by one, or all of them when the store is emptied *)
(* or the process starts again.                                            *)
Delete(gone) == /\ open' = open \ gone
                /\ contents' = [q \in Queues |-> IF q \in gone THEN <<>> ELSE contents[q]]
                /\ answer' \in [Clients -> {NoAnswer}] \cup {answer}

Next == \/ \E q \in Queues : Create(q) \/ \E m \in Messages : Send(q, m)
        \/ \E c \in Clients : Answered(c) \/ \E q \in Queues : Receive(c, q)
        \/ \E q \in Queues : Clear(q) \/ Delete({q})
        \/ Delete(Queues)

Spec == Init /\ [][Next]_vars
=============================================================================
