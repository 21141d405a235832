----------------------------- MODULE ChatSessions -----------------------------
(***************************************************************************)
(* The chat sessions of one user (routers/chat.py): sessions bound to a    *)
(* document, their messages, and the requests that look at the database    *)
(* in one step and write in a later one, each in a thread of its own.      *)
(*                                                                         *)
(* A session is known by its place in the order of creation, a message by  *)
(* its place in the order of the commits; contents are left out but for    *)
(* the role, and so are empty messages.  The database keeps foreign keys,  *)
(* as PostgreSQL does: what refers to a deleted row goes with it.          *)
(***************************************************************************)
EXTENDS Integers, Sequences, FiniteSets

CONSTANTS
    ChatDocs,       \* documents
    ChatRequests,   \* the requests that can be under way at the same time
    MaxSessions,    \* bound: how many sessions are ever created
    MaxMessages     \* bound: how many messages are ever stored

ASSUME ChatAssumption ==
    MaxSessions \in Nat /\ MaxMessages \in Nat /\ IsFiniteSet(ChatRequests)

VARIABLES
    docRows,    \* the documents that exist
    sessions,   \* the sessions ever created
    messages,   \* the messages ever stored
    chatWork    \* what each request has under way

chatVars == <<docRows, sessions, messages, chatWork>>

-----------------------------------------------------------------------------
Roles == {"user", "assistant"}

Untitled == 0

\* A session row; live until it or its document is deleted.
Sessions == [doc : ChatDocs, title : 0 .. MaxMessages, status : {"active", "locked"},
             live : BOOLEAN]

Messages == [session : 1 .. MaxSessions, role : Roles]

Idle == [op |-> "idle"]

\* untitled and locked: what the request saw of the session.
Works == {Idle} \cup [op : {"insert"}, doc : ChatDocs]
         \cup [op : {"append"}, session : 1 .. MaxSessions, role : Roles,
               untitled : BOOLEAN, locked : BOOLEAN]
         \cup [op : {"lock", "delete"}, session : 1 .. MaxSessions]

ChatTypeOK ==
    /\ docRows \subseteq ChatDocs
    /\ sessions \in Seq(Sessions) /\ Len(sessions) <= MaxSessions
    /\ messages \in Seq(Messages) /\ Len(messages) <= MaxMessages
    /\ chatWork \in [ChatRequests -> Works]

ChatInit ==
    /\ docRows = ChatDocs
    /\ sessions = << >> /\ messages = << >>
    /\ chatWork = [r \in ChatRequests |-> Idle]

Live(s) == s \in DOMAIN sessions /\ sessions[s].live

MessagesOf(s) == {m \in DOMAIN messages : messages[m].session = s}

\* The sessions of a document that were never chatted in.
Blanks(d) == {s \in DOMAIN sessions : Live(s) /\ sessions[s].doc = d /\ MessagesOf(s) = {}}

-----------------------------------------------------------------------------
Begin(r, work) == chatWork[r] = Idle /\ chatWork' = [chatWork EXCEPT ![r] = work]

Done(r) == chatWork' = [chatWork EXCEPT ![r] = Idle]

\* Fault: a new session is made whatever there is.
CreateLookOnly(r) ==
    /\ \E d \in docRows : Begin(r, [op |-> "insert", doc |-> d])
    /\ UNCHANGED <<docRows, sessions, messages>>

\* POST /sessions: the newest blank session of the document is handed back; only when
\* there is none a new one is to be inserted.
CreateLook(r) ==
    /\ \E d \in docRows : Blanks(d) = {} /\ Begin(r, [op |-> "insert", doc |-> d])
    /\ UNCHANGED <<docRows, sessions, messages>>

\* The insert fails when the document has gone meanwhile.
CreateInsert(r) ==
    /\ chatWork[r].op = "insert"
    /\ IF chatWork[r].doc \in docRows
       THEN /\ Len(sessions) < MaxSessions
            /\ sessions' = Append(sessions, [doc |-> chatWork[r].doc, title |-> Untitled,
                                             status |-> "active", live |-> TRUE])
       ELSE UNCHANGED sessions
    /\ Done(r)
    /\ UNCHANGED <<docRows, messages>>

\* POST /sessions/{id}/messages: the session is loaded.
AppendLook(r) ==
    /\ \E s \in DOMAIN sessions, role \in Roles :
          /\ Live(s)
          /\ Begin(r, [op |-> "append", session |-> s, role |-> role,
                       untitled |-> sessions[s].title = Untitled,
                       locked |-> sessions[s].status = "locked"])
    /\ UNCHANGED <<docRows, sessions, messages>>

\* Fault: the first message gives the title, whoever it is from.
AppendTitled(r) ==
    LET w == chatWork[r]
    IN  /\ w.op = "append"
        /\ IF Live(w.session)
           THEN /\ Len(messages) < MaxMessages
                /\ messages' = Append(messages, [session |-> w.session, role |-> w.role])
                /\ sessions' = [sessions EXCEPT
                      ![w.session].title = IF w.untitled THEN Len(messages) + 1 ELSE @,
                      ![w.session].status = IF w.locked THEN "active" ELSE @]
           ELSE UNCHANGED <<messages, sessions>>
        /\ Done(r)
        /\ UNCHANGED docRows

\* The message is stored with what changes of the session: it is active again if it was
\* seen locked, and a message of the user gives the title if none was seen.  The row's
\* updated_at is written in any case, which fails when the row has gone.
AppendMessage(r) ==
    LET w == chatWork[r]
    IN  /\ w.op = "append"
        /\ IF Live(w.session)
           THEN /\ Len(messages) < MaxMessages
                /\ messages' = Append(messages, [session |-> w.session, role |-> w.role])
                /\ sessions' = [sessions EXCEPT
                      ![w.session].title = IF w.role = "user" /\ w.untitled
                                           THEN Len(messages) + 1 ELSE @,
                      ![w.session].status = IF w.locked THEN "active" ELSE @]
           ELSE UNCHANGED <<messages, sessions>>
        /\ Done(r)
        /\ UNCHANGED docRows

\* POST /sessions/{id}/lock and DELETE /sessions/{id}: the session is loaded.
ChangeLook(r) ==
    /\ \E s \in DOMAIN sessions, op \in {"lock", "delete"} :
          Live(s) /\ Begin(r, [op |-> op, session |-> s])
    /\ UNCHANGED <<docRows, sessions, messages>>

LockSession(r) ==
    /\ chatWork[r].op = "lock"
    /\ sessions' = IF Live(chatWork[r].session)
                   THEN [sessions EXCEPT ![chatWork[r].session].status = "locked"]
                   ELSE sessions
    /\ Done(r)
    /\ UNCHANGED <<docRows, messages>>

\* The messages go with their session, those stored since it was loaded as well.
DeleteSession(r) ==
    /\ chatWork[r].op = "delete"
    /\ sessions' = IF Live(chatWork[r].session)
                   THEN [sessions EXCEPT ![chatWork[r].session].live = FALSE]
                   ELSE sessions
    /\ Done(r)
    /\ UNCHANGED <<docRows, messages>>

\* A document is deleted, and its sessions with it.
DeleteDoc ==
    /\ \E d \in docRows :
          /\ docRows' = docRows \ {d}
          /\ sessions' = [s \in DOMAIN sessions |->
                             [sessions[s] EXCEPT !.live = @ /\ sessions[s].doc # d]]
    /\ UNCHANGED <<messages, chatWork>>

ChatStep(r) ==
    \/ CreateLook(r) \/ CreateInsert(r) \/ AppendLook(r) \/ AppendMessage(r)
    \/ ChangeLook(r) \/ LockSession(r) \/ DeleteSession(r)

ChatNext == DeleteDoc \/ \E r \in ChatRequests : ChatStep(r)

ChatSpec == ChatInit /\ [][ChatNext]_chatVars

-----------------------------------------------------------------------------
(* Properties.                                                             *)

Creating(d) == {r \in ChatRequests : chatWork[r] = [op |-> "insert", doc |-> d]}

\* Blank sessions do not stack up: a document never has more of them than there were
\* requests that overlapped when none was there, however often a new chat is asked for
\* (create_session, which looks before it inserts and in no transaction with it).
BlanksBounded ==
    \A d \in ChatDocs :
        Cardinality(Blanks(d)) + Cardinality(Creating(d)) <= Cardinality(ChatRequests)

\* A session is titled by a message the user sent in it, and from the first such message
\* on, whichever requests overlap (append_message).
TitledByUser ==
    \A s \in DOMAIN sessions :
        LET asked == {m \in MessagesOf(s) : messages[m].role = "user"}
        IN  IF asked = {} THEN sessions[s].title = Untitled ELSE sessions[s].title \in asked

=============================================================================
