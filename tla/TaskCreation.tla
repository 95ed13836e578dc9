---------------------------- MODULE TaskCreation ----------------------------
(* The creation of tasks by POST /api/v1/tasks                               *)
(* (tasking/application/task_creation.py, persistence/task_creation.py).      *)
(*                                                                           *)
(* An execution serves one request. It reads the conversation, checks the     *)
(* request, looks its idempotency key up, and writes the task with its first  *)
(* event and start message, the query message and the idempotency row in one  *)
(* transaction. No lock is held from the reads to that transaction: unique    *)
(* keys decide between overlapping executions, and the loser looks its key up *)
(* again. A client that got no answer sends its request again, which is       *)
(* another execution with the same key.                                       *)
(*                                                                           *)
(* The identifier of a task is drawn at random by its execution; the          *)
(* execution itself stands for it.                                            *)
EXTENDS Naturals

CONSTANTS
  Exec,           \* requests served by the API
  Actor,          \* authenticated users
  Key,            \* idempotency keys
  Conversation,   \* conversations; src creates none
  OwnerOf,        \* the owner of each conversation
  Content,        \* what a request asks for, its conversation apart
  Refused,        \* contents with an attachment or output contract that is refused
  MaxLosses,      \* bound on lost executions
  Unset

CreationAnswer == {"CREATED", "REPLAYED", "REUSED", "CONFLICT", "NOT_FOUND", "INVALID"}

ASSUME CreationAssumption ==
  /\ OwnerOf \in [Conversation -> Actor]
  /\ Refused \subseteq Content
  /\ MaxLosses \in Nat
  /\ Unset \notin Exec \union CreationAnswer

VARIABLES
  asked,     \* the request of each execution, never changed
  tasks,     \* intelligent_task, each with its first event and start message
  idem,      \* idempotency_record
  messages,  \* conversation_message, the query messages
  creation,  \* the executions
  losses     \* executions lost so far

creationVars == <<asked, tasks, idem, messages, creation, losses>>

Request == [conversation : Conversation, content : Content]
Order   == [actor : Actor, key : Key, request : Request]

TaskRow == [id : Exec, owner : Actor, request : Request]
Entry   == [actor : Actor, key : Key, request : Request, task : Exec]
Message == [conversation : Conversation, sequence : Nat, task : Exec]

Creation ==
  [pc : {"waiting", "loaded", "writing", "rereading", "answered", "lost"},
   sequence : Nat,                  \* next_message_sequence, as it was read
   answer : CreationAnswer \union {Unset},
   named : Exec \union {Unset}]      \* the task the answer names

-----------------------------------------------------------------------------
(* Reads. *)

Sequences(c) == {m.sequence : m \in {n \in messages : n.conversation = c}}

\* max(sequence) of a conversation, 0 when it has no message.
LastSequence(c) ==
  IF Sequences(c) = {} THEN 0
  ELSE CHOOSE n \in Sequences(c) : \A k \in Sequences(c) : k <= n

\* The row of get_idempotency: by actor and key digest, within one scope.
Entries_AnyActor(e) == {i \in idem : i.key = asked[e].key}
Entries(e) == {i \in idem : i.actor = asked[e].actor /\ i.key = asked[e].key}

-----------------------------------------------------------------------------
(* The steps of an execution. *)

CreationInit ==
  /\ asked \in [Exec -> Order]
  /\ tasks = {} /\ idem = {} /\ messages = {}
  /\ creation = [e \in Exec |-> [pc |-> "waiting", sequence |-> 0, answer |-> Unset, named |-> Unset]]
  /\ losses = 0

Respond(e, answer, named) ==
  creation' = [creation EXCEPT ![e].pc = "answered", ![e].answer = answer, ![e].named = named]

\* create: load_conversation. A conversation of somebody else looks missing.
LoadConversation(e) ==
  /\ creation[e].pc = "waiting"
  /\ LET c == asked[e].request.conversation
     IN \/ /\ OwnerOf[c] # asked[e].actor
           /\ Respond(e, "NOT_FOUND", Unset)
        \/ /\ OwnerOf[c] = asked[e].actor
           /\ creation' = [creation EXCEPT ![e].pc = "loaded", ![e].sequence = LastSequence(c) + 1]
  /\ UNCHANGED <<asked, tasks, idem, messages, losses>>

\* _build_attachments and _resolve_output_contract raise before anything is written.
Refuse(e) ==
  /\ creation[e].pc = "loaded"
  /\ asked[e].request.content \in Refused
  /\ Respond(e, "INVALID", Unset)
  /\ UNCHANGED <<asked, tasks, idem, messages, losses>>

\* The digest of the request is not compared.
Replay_AnyRequest(e) == \E i \in Entries(e) : Respond(e, "REPLAYED", i.task)

\* _replay: the stored answer, for the request it was given to and no other.
Replay(e) ==
  \E i \in Entries(e) :
    \/ i.request = asked[e].request /\ Respond(e, "REPLAYED", i.task)
    \/ i.request # asked[e].request /\ Respond(e, "REUSED", Unset)

\* execute: the first look at the key.
LookUp(e) ==
  /\ creation[e].pc = "loaded"
  /\ asked[e].request.content \notin Refused
  /\ \/ Replay(e)
     \/ Entries(e) = {} /\ creation' = [creation EXCEPT ![e].pc = "writing"]
  /\ UNCHANGED <<asked, tasks, idem, messages, losses>>

Clashes_KeyOnly(e) == Entries(e) # {}

\* The unique keys of idempotency_record and conversation_message.
Clashes(e) ==
  \/ Entries(e) # {}
  \/ creation[e].sequence \in Sequences(asked[e].request.conversation)

\* add_task_creation and its commit: every row or none.
StoreTask(e) ==
  /\ tasks' = tasks \union
       {[id |-> e, owner |-> asked[e].actor, request |-> asked[e].request]}
  /\ idem' = idem \union
       {[actor |-> asked[e].actor, key |-> asked[e].key, request |-> asked[e].request, task |-> e]}
  /\ messages' = messages \union
       {[conversation |-> asked[e].request.conversation, sequence |-> creation[e].sequence, task |-> e]}

\* execute: the transaction, or the IntegrityError of the loser.
Write(e) ==
  /\ creation[e].pc = "writing"
  /\ \/ /\ ~Clashes(e)
        /\ StoreTask(e)
        /\ Respond(e, "CREATED", e)
     \/ /\ Clashes(e)
        /\ creation' = [creation EXCEPT ![e].pc = "rereading"]
        /\ UNCHANGED <<tasks, idem, messages>>
  /\ UNCHANGED <<asked, losses>>

\* The loser does not look its key up again.
Reread_Blind(e) ==
  /\ creation[e].pc = "rereading"
  /\ Respond(e, "CONFLICT", Unset)
  /\ UNCHANGED <<asked, tasks, idem, messages, losses>>

\* execute: the second look at the key, in a transaction of its own.
Reread(e) ==
  /\ creation[e].pc = "rereading"
  /\ \/ Replay(e)
     \/ Entries(e) = {} /\ Respond(e, "CONFLICT", Unset)
  /\ UNCHANGED <<asked, tasks, idem, messages, losses>>

\* The process dies, the connection breaks or the answer is lost: before the
\* transaction, or after it has committed.
LoseExecution(e) ==
  /\ creation[e].pc \in {"loaded", "writing", "rereading"}
  /\ losses < MaxLosses
  /\ losses' = losses + 1
  /\ creation' = [creation EXCEPT ![e].pc = "lost"]
  /\ \/ UNCHANGED <<tasks, idem, messages>>
     \/ creation[e].pc = "writing" /\ ~Clashes(e) /\ StoreTask(e)
  /\ UNCHANGED asked

CreationNext ==
  \E e \in Exec :
    LoadConversation(e) \/ Refuse(e) \/ LookUp(e) \/ Write(e) \/ Reread(e) \/ LoseExecution(e)

CreationSpec == CreationInit /\ [][CreationNext]_creationVars

-----------------------------------------------------------------------------
(* Properties. *)

CreationTypeOK ==
  /\ asked \in [Exec -> Order]
  /\ tasks \subseteq TaskRow /\ idem \subseteq Entry /\ messages \subseteq Message
  /\ creation \in [Exec -> Creation]
  /\ losses \in 0..MaxLosses

\* Retries are safe: whoever is answered with a task gets one that exists, that
\* belongs to him and was made from the very request he sent; two answers to one
\* key of one user name one task, overlapping and lost executions included; and a
\* key is refused as reused only to the user who has spent it on another request
\* (TaskCreationTransactionService.execute and _replay).
AnswersNameTheTask ==
  \A e \in Exec :
    /\ creation[e].named # Unset =>
         /\ \E t \in tasks :
              /\ t.id = creation[e].named
              /\ t.owner = asked[e].actor
              /\ t.request = asked[e].request
         /\ \A f \in Exec :
              creation[f].named # Unset /\ asked[f].actor = asked[e].actor /\ asked[f].key = asked[e].key
                => creation[f].named = creation[e].named
    /\ creation[e].answer = "REUSED" =>
         \E i \in idem :
           /\ i.actor = asked[e].actor /\ i.key = asked[e].key
           /\ i.request # asked[e].request

\* One key makes one task: the tasks, the idempotency rows and the query messages
\* stand in a one-to-one relation, with no task that a retry could not find
\* (add_task_creation).
OneTaskPerKey ==
  /\ \A t \in tasks :
       /\ \E i \in idem : i.task = t.id /\ i.actor = t.owner /\ i.request = t.request
       /\ \E m \in messages : m.task = t.id /\ m.conversation = t.request.conversation
  /\ \A i \in idem :
       \E t \in tasks : i.task = t.id /\ i.actor = t.owner /\ i.request = t.request
  /\ \A i, j \in idem : (i.actor = j.actor /\ i.key = j.key) \/ i.task = j.task => i = j
  /\ \A m, n \in messages : m.task = n.task => m = n

\* The messages of a conversation are numbered 1, 2, 3, ... without a gap or a
\* number given twice, although the number is read long before it is used
\* (_next_message_sequence and the unique keys of conversation_message).
MessagesInOrder ==
  /\ \A c \in Conversation : Sequences(c) = 1..LastSequence(c)
  /\ \A m, n \in messages :
       m.conversation = n.conversation /\ m.sequence = n.sequence => m = n

\* TASK_CREATION_WRITE_CONFLICT is marked as retryable (api/errors.py:250): at
\* that moment the key names no task yet, and the conversation has gone past the
\* number this execution had read, because somebody else's message was stored.
ConflictIsRetryable ==
  [][\A e \in Exec : creation[e].answer = Unset /\ creation'[e].answer = "CONFLICT" =>
       /\ Entries(e)' = {}
       /\ LastSequence(asked[e].request.conversation)' >= creation[e].sequence
       /\ \A t \in tasks' : t.id # e]_creationVars
=============================================================================
