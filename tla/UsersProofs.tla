------------------------------ MODULE UsersProofs ------------------------------
(***************************************************************************)
(* Proofs about ChatSessions, for every set of documents, every finite set *)
(* of requests that overlap, and all bounds, and about Accounts, for every *)
(* set of emails, passwords, providers, identities and registrations that  *)
(* overlap.                                                                *)
(***************************************************************************)
EXTENDS ChatSessions, Accounts, FiniteSetTheorems, TLAPS

-----------------------------------------------------------------------------
(* Chat sessions.                                                          *)

\* What messages and appends refer to exists, and a request that saw a title was right:
\* titles are never taken back.
ReferencesHold ==
    /\ \A m \in DOMAIN messages : messages[m].session \in DOMAIN sessions
    /\ \A r \in ChatRequests :
          chatWork[r].op = "append" =>
              /\ chatWork[r].session \in DOMAIN sessions
              /\ ~chatWork[r].untitled => sessions[chatWork[r].session].title # Untitled

ChatInv == ChatTypeOK /\ TitledByUser /\ ReferencesHold

\* The messages of the user in session s.
Asked(s) == {m \in MessagesOf(s) : messages[m].role = "user"}

-----------------------------------------------------------------------------
(* Sessions and messages.                                                  *)

LEMMA TitledBy ==
    TitledByUser <=> \A s \in DOMAIN sessions :
                        IF Asked(s) = {} THEN sessions[s].title = Untitled
                        ELSE sessions[s].title \in Asked(s)
BY DEF TitledByUser, Asked

\* Changing the title, the status or the life of a session keeps its type.
LEMMA StatusChange ==
    ASSUME NEW e \in Sessions, NEW st \in {"active", "locked"}
    PROVE  [e EXCEPT !.status = st] \in Sessions /\ [e EXCEPT !.status = st].title = e.title
BY DEF Sessions

LEMMA LifeChange ==
    ASSUME NEW e \in Sessions, NEW live \in BOOLEAN
    PROVE  [e EXCEPT !.live = live] \in Sessions /\ [e EXCEPT !.live = live].title = e.title
BY DEF Sessions

LEMMA RequestKinds ==
    ASSUME ChatTypeOK, NEW r \in ChatRequests, chatWork[r].op = "append"
    PROVE  /\ chatWork[r].session \in 1 .. MaxSessions /\ chatWork[r].role \in Roles
           /\ chatWork[r].untitled \in BOOLEAN /\ chatWork[r].locked \in BOOLEAN
<1>1. chatWork[r] \in Works
  BY DEF ChatTypeOK
<1> QED
  BY <1>1 DEF Works, Idle

LEMMA TitleChange ==
    ASSUME NEW e \in Sessions, NEW st \in {"active", "locked"}, NEW title \in 0 .. MaxMessages
    PROVE  /\ [e EXCEPT !.title = title, !.status = st] \in Sessions
           /\ [e EXCEPT !.title = title, !.status = st].title = title
BY DEF Sessions

\* A step that stores no message and changes no title keeps all that is said of them.
LEMMA SameTitles ==
    ASSUME ChatInv, UNCHANGED messages, sessions' \in Seq(Sessions),
           DOMAIN sessions' = DOMAIN sessions,
           \A s \in DOMAIN sessions : sessions'[s].title = sessions[s].title,
           \A r \in ChatRequests : chatWork'[r] # chatWork[r] /\ chatWork'[r].op = "append" =>
               /\ chatWork'[r].session \in DOMAIN sessions
               /\ ~chatWork'[r].untitled => sessions[chatWork'[r].session].title # Untitled
    PROVE  TitledByUser' /\ ReferencesHold' /\ Len(sessions') <= MaxSessions
<1>1. \A s : MessagesOf(s)' = MessagesOf(s)
  BY DEF MessagesOf
<1>2. TitledByUser'
  BY <1>1 DEF ChatInv, TitledByUser
<1>3. ReferencesHold'
  BY DEF ChatInv, ReferencesHold
<1>4. Len(sessions') <= MaxSessions
  <2>1. sessions \in Seq(Sessions) /\ Len(sessions) <= MaxSessions
    BY DEF ChatInv, ChatTypeOK
  <2> QED
    BY <2>1
<1> QED
  BY <1>2, <1>3, <1>4

LEMMA ChatInitKeeps == ChatInit => ChatInv
<1> SUFFICES ASSUME ChatInit PROVE ChatInv
  OBVIOUS
<1>1. ChatTypeOK
  BY ChatAssumption DEF ChatInit, ChatTypeOK, Works
<1>2. TitledByUser
  BY DEF ChatInit, TitledByUser
<1>3. ReferencesHold
  BY DEF ChatInit, ReferencesHold, Idle
<1> QED
  BY <1>1, <1>2, <1>3 DEF ChatInv

-----------------------------------------------------------------------------
(* Every step keeps the invariant.                                         *)

LEMMA CreateLookKeeps ==
    ASSUME ChatInv, NEW r \in ChatRequests, CreateLook(r)
    PROVE  ChatInv'
<1>1. PICK d \in docRows : chatWork' = [chatWork EXCEPT ![r] = [op |-> "insert", doc |-> d]]
  BY DEF CreateLook, Begin
<1>2. UNCHANGED <<docRows, sessions, messages>> /\ ChatTypeOK
  BY DEF CreateLook, ChatInv
<1>3. d \in ChatDocs
  BY <1>2 DEF ChatTypeOK
<1>4. [op |-> "insert", doc |-> d] \in Works
  BY <1>3 DEF Works
<1>5. ChatTypeOK'
  BY <1>1, <1>2, <1>4 DEF ChatTypeOK
<1>6. \A x \in ChatRequests : chatWork'[x] # chatWork[x] => chatWork'[x].op = "insert"
  BY <1>1, <1>2 DEF ChatTypeOK
<1>7. TitledByUser' /\ ReferencesHold'
  BY <1>2, <1>6, SameTitles DEF ChatTypeOK
<1> QED
  BY <1>5, <1>7 DEF ChatInv

LEMMA CreateInsertKeeps ==
    ASSUME ChatInv, NEW r \in ChatRequests, CreateInsert(r)
    PROVE  ChatInv'
<1>1. /\ chatWork' = [chatWork EXCEPT ![r] = Idle] /\ UNCHANGED <<docRows, messages>>
      /\ chatWork[r].op = "insert" /\ ChatTypeOK
  BY DEF CreateInsert, Done, ChatInv
<1>2. chatWork' \in [ChatRequests -> Works]
  BY <1>1 DEF ChatTypeOK, Works
<1>3. \A x \in ChatRequests : chatWork'[x] # chatWork[x] => chatWork'[x].op # "append"
  BY <1>1 DEF ChatTypeOK, Idle
<1>4. CASE chatWork[r].doc \notin docRows
  <2>1. UNCHANGED sessions
    BY <1>4 DEF CreateInsert
  <2>2. TitledByUser' /\ ReferencesHold'
    BY <1>1, <1>3, <2>1, SameTitles DEF ChatTypeOK
  <2> QED
    BY <1>1, <1>2, <2>1, <2>2 DEF ChatInv, ChatTypeOK
<1>5. CASE chatWork[r].doc \in docRows
  <2> DEFINE e == [doc |-> chatWork[r].doc, title |-> Untitled, status |-> "active", live |-> TRUE]
  <2>1. e \in Sessions /\ e.title = Untitled
    BY <1>1, <1>5, ChatAssumption DEF ChatTypeOK, Sessions, Untitled
  <2>2. sessions' = Append(sessions, e) /\ Len(sessions) < MaxSessions
    BY <1>5 DEF CreateInsert
  <2> HIDE DEF e
  <2>3. /\ sessions' \in Seq(Sessions) /\ Len(sessions') = Len(sessions) + 1
        /\ DOMAIN sessions' = 1 .. Len(sessions) + 1
        /\ \A s \in 1 .. Len(sessions) : sessions'[s] = sessions[s]
        /\ sessions'[Len(sessions) + 1] = e
        /\ DOMAIN sessions = 1 .. Len(sessions) /\ Len(sessions) \in Nat
    BY <1>1, <2>1, <2>2 DEF ChatTypeOK
  <2>4. ChatTypeOK'
    BY <1>1, <1>2, <2>2, <2>3, ChatAssumption DEF ChatTypeOK
  <2>5. \A s : MessagesOf(s)' = MessagesOf(s)
    BY <1>1 DEF MessagesOf
  <2>6. MessagesOf(Len(sessions) + 1) = {}
    BY <2>3 DEF ChatInv, ReferencesHold, MessagesOf
  <2>7. TitledByUser'
    <3> SUFFICES ASSUME NEW s \in DOMAIN sessions'
                 PROVE  IF Asked(s)' = {} THEN sessions'[s].title = Untitled
                        ELSE sessions'[s].title \in Asked(s)'
      BY DEF TitledByUser, Asked
    <3>1. Asked(s)' = Asked(s)
      BY <1>1, <2>5 DEF Asked
    <3>2. CASE s \in 1 .. Len(sessions)
      BY <2>3, <3>1, <3>2, TitledBy DEF ChatInv
    <3>3. CASE s = Len(sessions) + 1
      BY <2>1, <2>3, <2>6, <3>1, <3>3 DEF Asked
    <3> QED
      BY <2>3, <3>2, <3>3
  <2>8. ReferencesHold'
    BY <1>1, <1>3, <2>3 DEF ChatInv, ReferencesHold
  <2> QED
    BY <2>4, <2>7, <2>8 DEF ChatInv
<1> QED
  BY <1>4, <1>5

LEMMA AppendLookKeeps ==
    ASSUME ChatInv, NEW r \in ChatRequests, AppendLook(r)
    PROVE  ChatInv'
<1>1. PICK s \in DOMAIN sessions, role \in Roles :
         chatWork' = [chatWork EXCEPT ![r] =
                         [op |-> "append", session |-> s, role |-> role,
                          untitled |-> sessions[s].title = Untitled,
                          locked |-> sessions[s].status = "locked"]]
  BY DEF AppendLook, Begin
<1>2. UNCHANGED <<docRows, sessions, messages>> /\ ChatTypeOK
  BY DEF AppendLook, ChatInv
<1> DEFINE untitled == sessions[s].title = Untitled
           locked == sessions[s].status = "locked"
           w == [op |-> "append", session |-> s, role |-> role, untitled |-> untitled,
                 locked |-> locked]
<1>3. s \in 1 .. MaxSessions
  BY <1>2, ChatAssumption DEF ChatTypeOK
<1>4. untitled \in BOOLEAN /\ locked \in BOOLEAN
  OBVIOUS
<1>5. chatWork' = [chatWork EXCEPT ![r] = w]
  BY <1>1
<1>6. w \in Works
  <2> HIDE DEF untitled, locked
  <2> QED
    BY <1>3, <1>4 DEF Works
<1>7. w.op = "append" /\ w.session = s /\ w.untitled = untitled
  OBVIOUS
<1> HIDE DEF w
<1>8. ChatTypeOK'
  BY <1>2, <1>5, <1>6 DEF ChatTypeOK
<1>9. \A x \in ChatRequests : chatWork'[x] # chatWork[x] => chatWork'[x] = w
  BY <1>2, <1>5 DEF ChatTypeOK
<1>10. TitledByUser' /\ ReferencesHold'
  <2>1. ~untitled => sessions[s].title # Untitled
    OBVIOUS
  <2>2. sessions' \in Seq(Sessions) /\ DOMAIN sessions' = DOMAIN sessions
    BY <1>2 DEF ChatTypeOK
  <2> HIDE DEF untitled
  <2>3. \A x \in ChatRequests : chatWork'[x] # chatWork[x] /\ chatWork'[x].op = "append" =>
                /\ chatWork'[x].session \in DOMAIN sessions
                /\ ~chatWork'[x].untitled => sessions[chatWork'[x].session].title # Untitled
    BY <1>7, <1>9, <2>1
  <2> QED
    BY <1>2, <2>2, <2>3, SameTitles
<1> QED
  BY <1>8, <1>10 DEF ChatInv

\* The message may be of the user and the first: then it gives the title, and the
\* request has seen that there was none.
LEMMA AppendMessageKeeps ==
    ASSUME ChatInv, NEW r \in ChatRequests, AppendMessage(r)
    PROVE  ChatInv'
<1> DEFINE k == chatWork[r].session
<1>1. /\ chatWork[r].op = "append" /\ chatWork' = [chatWork EXCEPT ![r] = Idle]
      /\ UNCHANGED docRows /\ ChatTypeOK /\ k \in DOMAIN sessions
  BY DEF AppendMessage, Done, ChatInv, ReferencesHold
<1>2. chatWork' \in [ChatRequests -> Works]
  BY <1>1 DEF ChatTypeOK, Works
<1>3. \A x \in ChatRequests : chatWork'[x] # chatWork[x] => chatWork'[x].op # "append"
  BY <1>1 DEF ChatTypeOK, Idle
<1>4. CASE ~Live(k)
  <2>1. UNCHANGED <<messages, sessions>>
    BY <1>4 DEF AppendMessage
  <2>2. TitledByUser' /\ ReferencesHold'
    BY <1>1, <1>3, <2>1, SameTitles DEF ChatTypeOK
  <2> QED
    BY <1>1, <1>2, <2>1, <2>2 DEF ChatInv, ChatTypeOK
<1>5. CASE Live(k)
  <2> DEFINE role == chatWork[r].role
             new == Len(messages) + 1
             title == IF role = "user" /\ chatWork[r].untitled THEN new ELSE sessions[k].title
             status == IF chatWork[r].locked THEN "active" ELSE sessions[k].status
             msg == [session |-> k, role |-> role]
  <2>1. /\ Len(messages) < MaxMessages /\ messages' = Append(messages, msg)
        /\ sessions' = [sessions EXCEPT ![k].title = title, ![k].status = status]
    BY <1>5 DEF AppendMessage
  <2>2. /\ sessions \in Seq(Sessions) /\ messages \in Seq(Messages) /\ sessions[k] \in Sessions
        /\ Len(sessions) <= MaxSessions /\ Len(messages) <= MaxMessages
        /\ DOMAIN sessions = 1 .. Len(sessions) /\ DOMAIN messages = 1 .. Len(messages)
    BY <1>1 DEF ChatTypeOK
  <2>3. role \in Roles /\ chatWork[r].untitled \in BOOLEAN /\ k \in 1 .. MaxSessions
    BY <1>1, RequestKinds
  <2>4. new \in 1 .. MaxMessages /\ new \notin DOMAIN messages
    BY <2>1, <2>2, ChatAssumption
  <2>5. title \in 0 .. MaxMessages /\ status \in {"active", "locked"}
    BY <2>2, <2>4, ChatAssumption DEF Sessions
  <2>6. msg \in Messages /\ msg.session = k /\ msg.role = role
    BY <2>3 DEF Messages
  <2>7. title = new <=> (role = "user" /\ chatWork[r].untitled) \/ sessions[k].title = new
    OBVIOUS
  <2>8. title # new => title = sessions[k].title
    OBVIOUS
  <2> HIDE DEF title, status, msg
  <2>9. /\ [sessions[k] EXCEPT !.title = title, !.status = status] \in Sessions
        /\ [sessions[k] EXCEPT !.title = title, !.status = status].title = title
    BY <2>2, <2>5, TitleChange
  <2>10. sessions' = [sessions EXCEPT ![k] =
                         [sessions[k] EXCEPT !.title = title, !.status = status]]
    BY <2>1
  <2> DEFINE e == [sessions[k] EXCEPT !.title = title, !.status = status]
  <2>11. e \in Sessions /\ e.title = title /\ sessions' = [sessions EXCEPT ![k] = e]
    BY <2>9, <2>10
  <2> HIDE DEF e
  <2>12. /\ sessions' \in Seq(Sessions) /\ Len(sessions') = Len(sessions)
         /\ DOMAIN sessions' = DOMAIN sessions
         /\ sessions'[k] = e /\ \A s \in DOMAIN sessions \ {k} : sessions'[s] = sessions[s]
    BY <1>1, <2>2, <2>11
  <2>13. /\ messages' \in Seq(Messages) /\ Len(messages') = new
         /\ DOMAIN messages' = DOMAIN messages \cup {new}
         /\ messages'[new] = msg /\ \A m \in DOMAIN messages : messages'[m] = messages[m]
    BY <2>1, <2>2, <2>6
  <2> HIDE DEF new, role
  <2>14. ChatTypeOK'
    BY <1>1, <1>2, <2>2, <2>4, <2>12, <2>13, ChatAssumption DEF ChatTypeOK
  <2>15. TitledByUser'
    <3> SUFFICES ASSUME NEW s \in DOMAIN sessions
                 PROVE  IF Asked(s)' = {} THEN sessions'[s].title = Untitled
                        ELSE sessions'[s].title \in Asked(s)'
      BY <2>12 DEF TitledByUser, Asked
    <3>1. IF Asked(s) = {} THEN sessions[s].title = Untitled ELSE sessions[s].title \in Asked(s)
      BY TitledBy DEF ChatInv
    <3>2. Asked(s)' = IF s = k /\ role = "user" THEN Asked(s) \cup {new} ELSE Asked(s)
      BY <2>4, <2>6, <2>13 DEF Asked, MessagesOf
    <3>3. new \notin Asked(s)
      BY <2>4 DEF Asked, MessagesOf
    <3>4. CASE s # k
      BY <2>12, <3>1, <3>2, <3>4
    <3>5. CASE s = k /\ role # "user"
      <4>1. sessions'[s].title = sessions[s].title
        BY <2>7, <2>8, <2>11, <2>12, <3>5
      <4> QED
        BY <3>1, <3>2, <3>5, <4>1
    <3>6. CASE s = k /\ role = "user" /\ chatWork[r].untitled
      BY <2>7, <2>11, <2>12, <3>2, <3>6
    <3>7. CASE s = k /\ role = "user" /\ ~chatWork[r].untitled
      <4>1. sessions[k].title # Untitled
        BY <1>1, <3>7 DEF ChatInv, ReferencesHold
      <4>2. Asked(s) # {} /\ sessions[s].title \in Asked(s)
        BY <3>1, <3>7, <4>1
      <4>3. title = sessions[k].title
        BY <2>7, <2>8, <3>3, <3>7, <4>2
      <4> QED
        BY <2>11, <2>12, <3>2, <3>7, <4>2, <4>3
    <3> QED
      BY <2>3, <3>4, <3>5, <3>6, <3>7
  <2>16. ReferencesHold'
    <3>1. \A m \in DOMAIN messages' : messages'[m].session \in DOMAIN sessions'
      BY <1>1, <2>6, <2>12, <2>13 DEF ChatInv, ReferencesHold
    <3>2. new # Untitled
      BY <2>4 DEF Untitled
    <3>3. \A s \in DOMAIN sessions :
             sessions[s].title # Untitled => sessions'[s].title # Untitled
      BY <2>8, <2>11, <2>12, <3>2
    <3> QED
      BY <1>3, <2>12, <3>1, <3>3 DEF ChatInv, ReferencesHold
  <2> QED
    BY <2>14, <2>15, <2>16 DEF ChatInv
<1> QED
  BY <1>4, <1>5

LEMMA ChangeLookKeeps ==
    ASSUME ChatInv, NEW r \in ChatRequests, ChangeLook(r)
    PROVE  ChatInv'
<1>1. PICK s \in DOMAIN sessions, op \in {"lock", "delete"} :
         chatWork' = [chatWork EXCEPT ![r] = [op |-> op, session |-> s]]
  BY DEF ChangeLook, Begin
<1>2. UNCHANGED <<docRows, sessions, messages>> /\ ChatTypeOK
  BY DEF ChangeLook, ChatInv
<1>3. s \in 1 .. MaxSessions
  BY <1>2, ChatAssumption DEF ChatTypeOK
<1>4. [op |-> op, session |-> s] \in Works
  BY <1>3 DEF Works
<1>5. ChatTypeOK'
  BY <1>1, <1>2, <1>4 DEF ChatTypeOK
<1>6. \A x \in ChatRequests : chatWork'[x] # chatWork[x] => chatWork'[x].op = op
  BY <1>1, <1>2 DEF ChatTypeOK
<1>7. TitledByUser' /\ ReferencesHold'
  BY <1>2, <1>6, SameTitles DEF ChatTypeOK
<1> QED
  BY <1>5, <1>7 DEF ChatInv

\* The session is locked or deleted, and the request done.
LEMMA ChangeKeeps ==
    ASSUME ChatInv, NEW r \in ChatRequests, UNCHANGED <<docRows, messages>>, Done(r),
           \/ UNCHANGED sessions
           \/ \E s \in DOMAIN sessions, e \in Sessions :
                 e.title = sessions[s].title /\ sessions' = [sessions EXCEPT ![s] = e]
    PROVE  ChatInv'
<1>1. ChatTypeOK /\ chatWork' = [chatWork EXCEPT ![r] = Idle]
  BY DEF ChatInv, Done
<1>2. chatWork' \in [ChatRequests -> Works]
  BY <1>1 DEF ChatTypeOK, Works
<1>3. \A x \in ChatRequests : chatWork'[x] # chatWork[x] => chatWork'[x].op # "append"
  BY <1>1 DEF ChatTypeOK, Idle
<1>4. /\ sessions' \in Seq(Sessions) /\ DOMAIN sessions' = DOMAIN sessions
      /\ \A s \in DOMAIN sessions : sessions'[s].title = sessions[s].title
  <2>1. CASE UNCHANGED sessions
    BY <1>1, <2>1 DEF ChatTypeOK
  <2>2. CASE \E s \in DOMAIN sessions, e \in Sessions :
                e.title = sessions[s].title /\ sessions' = [sessions EXCEPT ![s] = e]
    BY <1>1, <2>2 DEF ChatTypeOK
  <2> QED
    BY <2>1, <2>2
<1>5. TitledByUser' /\ ReferencesHold' /\ Len(sessions') <= MaxSessions
  BY <1>3, <1>4, SameTitles
<1> QED
  BY <1>1, <1>2, <1>4, <1>5 DEF ChatInv, ChatTypeOK

LEMMA LockSessionKeeps ==
    ASSUME ChatInv, NEW r \in ChatRequests, LockSession(r)
    PROVE  ChatInv'
<1> DEFINE k == chatWork[r].session
<1>1. CASE ~Live(k)
  BY <1>1, ChangeKeeps DEF LockSession
<1>2. CASE Live(k)
  <2>1. k \in DOMAIN sessions /\ sessions[k] \in Sessions
    BY <1>2 DEF Live, ChatInv, ChatTypeOK
  <2>2. sessions' = [sessions EXCEPT ![k].status = "locked"]
    BY <1>2 DEF LockSession
  <2>3. /\ [sessions[k] EXCEPT !.status = "locked"] \in Sessions
        /\ [sessions[k] EXCEPT !.status = "locked"].title = sessions[k].title
    BY <2>1, StatusChange
  <2>4. \E s \in DOMAIN sessions, e \in Sessions :
           e.title = sessions[s].title /\ sessions' = [sessions EXCEPT ![s] = e]
    BY <2>1, <2>2, <2>3
  <2> QED
    BY <2>4, ChangeKeeps DEF LockSession
<1> QED
  BY <1>1, <1>2

LEMMA DeleteSessionKeeps ==
    ASSUME ChatInv, NEW r \in ChatRequests, DeleteSession(r)
    PROVE  ChatInv'
<1> DEFINE k == chatWork[r].session
<1>1. CASE ~Live(k)
  BY <1>1, ChangeKeeps DEF DeleteSession
<1>2. CASE Live(k)
  <2>1. k \in DOMAIN sessions /\ sessions[k] \in Sessions
    BY <1>2 DEF Live, ChatInv, ChatTypeOK
  <2>2. sessions' = [sessions EXCEPT ![k].live = FALSE]
    BY <1>2 DEF DeleteSession
  <2>3. /\ [sessions[k] EXCEPT !.live = FALSE] \in Sessions
        /\ [sessions[k] EXCEPT !.live = FALSE].title = sessions[k].title
    BY <2>1, LifeChange
  <2>4. \E s \in DOMAIN sessions, e \in Sessions :
           e.title = sessions[s].title /\ sessions' = [sessions EXCEPT ![s] = e]
    BY <2>1, <2>2, <2>3
  <2> QED
    BY <2>4, ChangeKeeps DEF DeleteSession
<1> QED
  BY <1>1, <1>2

LEMMA DeleteDocKeeps ==
    ASSUME ChatInv, DeleteDoc
    PROVE  ChatInv'
<1>1. PICK d \in docRows :
         /\ docRows' = docRows \ {d}
         /\ sessions' = [s \in DOMAIN sessions |->
                            [sessions[s] EXCEPT !.live = @ /\ sessions[s].doc # d]]
  BY DEF DeleteDoc
<1>2. UNCHANGED <<messages, chatWork>> /\ ChatTypeOK
  BY DEF DeleteDoc, ChatInv
<1> DEFINE live(s) == sessions[s].live /\ sessions[s].doc # d
           e(s) == [sessions[s] EXCEPT !.live = live(s)]
<1>3. sessions' = [s \in DOMAIN sessions |-> e(s)]
  BY <1>1
<1>4. \A s \in DOMAIN sessions : e(s) \in Sessions /\ e(s).title = sessions[s].title
  <2> SUFFICES ASSUME NEW s \in DOMAIN sessions
               PROVE  e(s) \in Sessions /\ e(s).title = sessions[s].title
    OBVIOUS
  <2>1. sessions[s] \in Sessions /\ live(s) \in BOOLEAN
    BY <1>2 DEF ChatTypeOK
  <2> HIDE DEF live
  <2> QED
    BY <2>1, LifeChange
<1> HIDE DEF e
<1>5. /\ sessions' \in Seq(Sessions) /\ DOMAIN sessions' = DOMAIN sessions
      /\ \A s \in DOMAIN sessions : sessions'[s].title = sessions[s].title
  BY <1>2, <1>3, <1>4 DEF ChatTypeOK
<1>6. TitledByUser' /\ ReferencesHold' /\ Len(sessions') <= MaxSessions
  BY <1>2, <1>5, SameTitles
<1> QED
  BY <1>1, <1>2, <1>5, <1>6 DEF ChatInv, ChatTypeOK

-----------------------------------------------------------------------------
LEMMA ChatInvariant == ChatSpec => []ChatInv
<1>1. ChatInv /\ [ChatNext]_chatVars => ChatInv'
  <2> SUFFICES ASSUME ChatInv, [ChatNext]_chatVars PROVE ChatInv'
    OBVIOUS
  <2>1. CASE UNCHANGED chatVars
    <3>1. \A s : MessagesOf(s)' = MessagesOf(s)
      BY <2>1 DEF chatVars, MessagesOf
    <3> QED
      BY <2>1, <3>1 DEF chatVars, ChatInv, ChatTypeOK, TitledByUser, ReferencesHold
  <2>2. CASE DeleteDoc
    BY <2>2, DeleteDocKeeps
  <2>3. ASSUME NEW r \in ChatRequests, ChatStep(r)
        PROVE  ChatInv'
    BY <2>3, CreateLookKeeps, CreateInsertKeeps, AppendLookKeeps, AppendMessageKeeps,
       ChangeLookKeeps, LockSessionKeeps, DeleteSessionKeeps DEF ChatStep
  <2> QED
    BY <2>1, <2>2, <2>3 DEF ChatNext
<1> QED
  BY <1>1, ChatInitKeeps, PTL DEF ChatSpec

\* However many requests overlap, sessions and messages keep their types, and no bound of
\* the model is passed.
THEOREM ChatTypeCorrect == ChatSpec => []ChatTypeOK
<1>1. ChatInv => ChatTypeOK
  BY DEF ChatInv
<1> QED
  BY <1>1, ChatInvariant, PTL

\* However many requests overlap in however many sessions, a session has a title exactly
\* from the first message of the user on, and the title is one of the user's messages in
\* this session, though append_message looks at the title before it stores the message.
THEOREM TitlesByUser == ChatSpec => []TitledByUser
<1>1. ChatInv => TitledByUser
  BY DEF ChatInv
<1> QED
  BY <1>1, ChatInvariant, PTL

-----------------------------------------------------------------------------
(* Blank sessions.                                                         *)

\* The blank sessions of a document and the requests that will add one are finitely many.
LEMMA BlanksFinite ==
    ASSUME ChatInv, NEW d
    PROVE  /\ IsFiniteSet(Blanks(d)) /\ Cardinality(Blanks(d)) \in Nat
           /\ IsFiniteSet(Creating(d)) /\ Cardinality(Creating(d)) \in Nat
           /\ Cardinality(Creating(d)) <= Cardinality(ChatRequests)
           /\ Cardinality(ChatRequests) \in Nat
<1>1. DOMAIN sessions = 1 .. Len(sessions) /\ Len(sessions) \in Nat
  BY DEF ChatInv, ChatTypeOK
<1>2. IsFiniteSet(DOMAIN sessions) /\ Blanks(d) \in SUBSET DOMAIN sessions
  BY <1>1, FS_Interval DEF Blanks
<1>3. IsFiniteSet(ChatRequests) /\ Creating(d) \in SUBSET ChatRequests
  BY ChatAssumption DEF Creating
<1> QED
  BY <1>2, <1>3, FS_Subset, FS_CardinalityType

LEMMA BlanksFiniteNext ==
    ASSUME ChatInv', NEW d
    PROVE  /\ IsFiniteSet(Blanks(d)') /\ Cardinality(Blanks(d)') \in Nat
           /\ IsFiniteSet(Creating(d)') /\ Cardinality(Creating(d)') \in Nat
           /\ Cardinality(Creating(d)') <= Cardinality(ChatRequests)
<1>1. DOMAIN sessions' = 1 .. Len(sessions') /\ Len(sessions') \in Nat
  BY DEF ChatInv, ChatTypeOK
<1>2. IsFiniteSet(DOMAIN sessions') /\ Blanks(d)' \in SUBSET DOMAIN sessions'
  BY <1>1, FS_Interval DEF Blanks
<1>3. IsFiniteSet(ChatRequests) /\ Creating(d)' \in SUBSET ChatRequests
  BY ChatAssumption DEF Creating
<1> QED
  BY <1>2, <1>3, FS_Subset, FS_CardinalityType

\* What is counted for document d.
BlanksBacked(d) == Cardinality(Blanks(d)) + Cardinality(Creating(d)) <= Cardinality(ChatRequests)

\* With fewer blank sessions and fewer requests that add one, nothing is stacked up.
LEMMA FewerBlanks ==
    ASSUME ChatInv, NEW d, BlanksBacked(d), Blanks(d)' \subseteq Blanks(d),
           Creating(d)' \subseteq Creating(d)
    PROVE  BlanksBacked(d)'
<1>1. /\ Cardinality(Blanks(d)') <= Cardinality(Blanks(d))
      /\ Cardinality(Creating(d)') <= Cardinality(Creating(d))
      /\ Cardinality(Blanks(d)') \in Nat /\ Cardinality(Creating(d)') \in Nat
  BY BlanksFinite, FS_Subset, FS_CardinalityType
<1>2. /\ Cardinality(Blanks(d)) \in Nat /\ Cardinality(Creating(d)) \in Nat
      /\ Cardinality(ChatRequests) \in Nat
  BY BlanksFinite
<1> QED
  BY <1>1, <1>2 DEF BlanksBacked

\* Sessions never come back to life, change their document or lose a message.
Ageing ==
    /\ DOMAIN sessions' = DOMAIN sessions
    /\ \A s \in DOMAIN sessions :
          sessions'[s].doc = sessions[s].doc /\ (sessions'[s].live => sessions[s].live)
    /\ \A m \in DOMAIN messages : m \in DOMAIN messages' /\ messages'[m] = messages[m]

LEMMA AgeingBlanks ==
    ASSUME Ageing, NEW d
    PROVE  Blanks(d)' \subseteq Blanks(d)
<1> SUFFICES ASSUME NEW s \in Blanks(d)' PROVE s \in Blanks(d)
  OBVIOUS
<1>1. s \in DOMAIN sessions' /\ Live(s)' /\ sessions'[s].doc = d /\ MessagesOf(s)' = {}
  BY DEF Blanks
<1>2. MessagesOf(s) \subseteq MessagesOf(s)'
  BY DEF MessagesOf, Ageing
<1> QED
  BY <1>1, <1>2 DEF Ageing, Blanks, Live

\* The work that a request begins or ends is no insert of another document's session.
LEMMA SameCreating ==
    ASSUME ChatInv, NEW d, NEW r \in ChatRequests, NEW work,
           chatWork' = [chatWork EXCEPT ![r] = work], work # [op |-> "insert", doc |-> d]
    PROVE  Creating(d)' = Creating(d) \ {r}
<1>1. DOMAIN chatWork = ChatRequests
  BY DEF ChatInv, ChatTypeOK
<1>2. chatWork'[r] = work /\ \A q \in ChatRequests \ {r} : chatWork'[q] = chatWork[q]
  BY <1>1
<1> QED
  BY <1>2 DEF Creating

LEMMA CreateLookBlanks ==
    ASSUME ChatInv, BlanksBounded, NEW r \in ChatRequests, CreateLook(r), ChatInv'
    PROVE  BlanksBounded'
<1>1. PICK d \in docRows : /\ Blanks(d) = {}
                           /\ chatWork' = [chatWork EXCEPT ![r] = [op |-> "insert", doc |-> d]]
  BY DEF CreateLook, Begin
<1>2. Ageing /\ UNCHANGED <<sessions, messages>>
  BY DEF CreateLook, Ageing
<1> SUFFICES ASSUME NEW x \in ChatDocs PROVE BlanksBacked(x)'
  BY DEF BlanksBounded, BlanksBacked
<1>3. BlanksBacked(x) /\ Blanks(x)' \subseteq Blanks(x)
  BY <1>2, AgeingBlanks DEF BlanksBounded, BlanksBacked
<1>4. CASE x = d
  <2>1. Blanks(x)' = {}
    BY <1>1, <1>3, <1>4
  <2>2. Cardinality(Blanks(x)') = 0
    BY <2>1, FS_EmptySet, Zenon
  <2> QED
    BY <2>2, BlanksFiniteNext DEF BlanksBacked
<1>5. CASE x # d
  <2>1. [op |-> "insert", doc |-> d] # [op |-> "insert", doc |-> x]
    BY <1>5
  <2>2. Creating(x)' \subseteq Creating(x)
    BY <1>1, <2>1, SameCreating
  <2> QED
    BY <1>3, <2>2, FewerBlanks
<1> QED
  BY <1>4, <1>5

\* A request that inserts takes its place among the blank sessions.
LEMMA CreateInsertBlanks ==
    ASSUME ChatInv, BlanksBounded, NEW r \in ChatRequests, CreateInsert(r), ChatInv'
    PROVE  BlanksBounded'
<1>1. /\ chatWork' = [chatWork EXCEPT ![r] = Idle] /\ UNCHANGED messages
      /\ chatWork[r].op = "insert"
  BY DEF CreateInsert, Done
<1> SUFFICES ASSUME NEW x \in ChatDocs PROVE BlanksBacked(x)'
  BY DEF BlanksBounded, BlanksBacked
<1>2. Creating(x)' = Creating(x) \ {r}
  <2>1. Idle # [op |-> "insert", doc |-> x]
    BY DEF Idle
  <2> QED
    BY <1>1, <2>1, SameCreating
<1>3. BlanksBacked(x)
  BY DEF BlanksBounded, BlanksBacked
<1>4. PICK doc \in ChatDocs : chatWork[r] = [op |-> "insert", doc |-> doc]
  <2>1. chatWork[r] \in Works
    BY DEF ChatInv, ChatTypeOK
  <2> QED
    BY <1>1, <2>1 DEF Works, Idle
<1>5. CASE UNCHANGED sessions
  <2>1. Ageing
    BY <1>1, <1>5 DEF Ageing
  <2> QED
    BY <1>2, <1>3, <2>1, AgeingBlanks, FewerBlanks
<1>6. CASE ~UNCHANGED sessions
  <2> DEFINE new == Len(sessions) + 1
  <2>1. /\ DOMAIN sessions = 1 .. Len(sessions) /\ Len(sessions) \in Nat
        /\ DOMAIN sessions' = 1 .. new /\ sessions'[new].doc = doc
        /\ \A s \in DOMAIN sessions : sessions'[s] = sessions[s]
    <3> DEFINE e == [doc |-> chatWork[r].doc, title |-> Untitled, status |-> "active",
                     live |-> TRUE]
    <3>1. sessions \in Seq(Sessions) /\ sessions' = Append(sessions, e) /\ e.doc = doc
      BY <1>4, <1>6 DEF CreateInsert, ChatInv, ChatTypeOK
    <3> HIDE DEF e
    <3> QED
      BY <3>1
  <2>2. \A s : MessagesOf(s)' = MessagesOf(s)
    BY <1>1 DEF MessagesOf
  <2>3. Blanks(x)' \subseteq Blanks(x) \cup {new}
    BY <2>1, <2>2 DEF Blanks, Live
  <2>4. CASE x # doc
    <3>1. Blanks(x)' \subseteq Blanks(x)
      BY <2>1, <2>3, <2>4 DEF Blanks
    <3> QED
      BY <1>2, <1>3, <3>1, FewerBlanks
  <2>5. CASE x = doc
    <3>1. r \in Creating(x)
      BY <1>4, <2>5 DEF Creating
    <3>2. Cardinality(Creating(x)') = Cardinality(Creating(x)) - 1
      BY <1>2, <3>1, BlanksFinite, FS_RemoveElement, Zenon
    <3>3. /\ IsFiniteSet(Blanks(x) \cup {new})
          /\ \/ Cardinality(Blanks(x) \cup {new}) = Cardinality(Blanks(x))
             \/ Cardinality(Blanks(x) \cup {new}) = Cardinality(Blanks(x)) + 1
      <4> HIDE DEF new
      <4> QED
        BY BlanksFinite, FS_AddElement
    <3>4. Cardinality(Blanks(x)') <= Cardinality(Blanks(x) \cup {new})
      BY <2>3, <3>3, FS_Subset
    <3>5. /\ Cardinality(Blanks(x)) \in Nat /\ Cardinality(Creating(x)) \in Nat
          /\ Cardinality(Blanks(x)') \in Nat /\ Cardinality(ChatRequests) \in Nat
      BY BlanksFinite, BlanksFiniteNext
    <3> HIDE DEF new
    <3> QED
      BY <1>3, <3>2, <3>3, <3>4, <3>5 DEF BlanksBacked
  <2> QED
    BY <2>4, <2>5
<1> QED
  BY <1>5, <1>6

\* Every other step lets sessions age and inserts none.
LEMMA AgeingBounded ==
    ASSUME ChatInv, BlanksBounded, Ageing,
           \/ UNCHANGED chatWork
           \/ \E r \in ChatRequests : \E work :
                 work.op # "insert" /\ chatWork' = [chatWork EXCEPT ![r] = work]
    PROVE  BlanksBounded'
<1> SUFFICES ASSUME NEW d \in ChatDocs PROVE BlanksBacked(d)'
  BY DEF BlanksBounded, BlanksBacked
<1>1. Creating(d)' \subseteq Creating(d)
  <2>1. CASE UNCHANGED chatWork
    BY <2>1 DEF Creating
  <2>2. CASE \E r \in ChatRequests : \E work :
                work.op # "insert" /\ chatWork' = [chatWork EXCEPT ![r] = work]
    <3>1. PICK r \in ChatRequests : \E work :
             work.op # "insert" /\ chatWork' = [chatWork EXCEPT ![r] = work]
      BY <2>2
    <3>2. PICK work : work.op # "insert" /\ chatWork' = [chatWork EXCEPT ![r] = work]
      BY <3>1
    <3>3. work # [op |-> "insert", doc |-> d]
      BY <3>2
    <3> QED
      BY <3>2, <3>3, SameCreating
  <2> QED
    BY <2>1, <2>2
<1>2. BlanksBacked(d)
  BY DEF BlanksBounded, BlanksBacked
<1> QED
  BY <1>1, <1>2, AgeingBlanks, FewerBlanks

\* A session in the list is changed, in a way that no blank session comes from.
LEMMA OneAges ==
    ASSUME ChatInv, UNCHANGED messages,
           \/ UNCHANGED sessions
           \/ \E s \in DOMAIN sessions : \E e :
                 /\ sessions' = [sessions EXCEPT ![s] = e]
                 /\ e.doc = sessions[s].doc
                 /\ e.live => sessions[s].live
    PROVE  Ageing
<1>1. sessions \in Seq(Sessions)
  BY DEF ChatInv, ChatTypeOK
<1> QED
  BY <1>1 DEF Ageing

LEMMA ChangeBlanks ==
    ASSUME ChatInv, BlanksBounded, NEW r \in ChatRequests,
           AppendLook(r) \/ ChangeLook(r) \/ LockSession(r) \/ DeleteSession(r)
    PROVE  BlanksBounded'
<1>1. ChatTypeOK
  BY DEF ChatInv
<1>2. CASE AppendLook(r) \/ ChangeLook(r)
  <2>1. Ageing
    BY <1>2 DEF Ageing, AppendLook, ChangeLook
  <2>2. \E work : work.op # "insert" /\ chatWork' = [chatWork EXCEPT ![r] = work]
    <3>1. CASE AppendLook(r)
      <4>1. PICK s \in DOMAIN sessions, role \in Roles :
               chatWork' = [chatWork EXCEPT ![r] =
                  [op |-> "append", session |-> s, role |-> role,
                   untitled |-> sessions[s].title = Untitled,
                   locked |-> sessions[s].status = "locked"]]
        BY <3>1 DEF AppendLook, Begin
      <4> DEFINE untitled == sessions[s].title = Untitled
                 locked == sessions[s].status = "locked"
                 work == [op |-> "append", session |-> s, role |-> role,
                          untitled |-> untitled, locked |-> locked]
      <4>2. chatWork' = [chatWork EXCEPT ![r] = work]
        BY <4>1
      <4> HIDE DEF untitled, locked
      <4>3. work.op # "insert"
        OBVIOUS
      <4> HIDE DEF work
      <4> QED
        BY <4>2, <4>3
    <3>2. CASE ChangeLook(r)
      <4>1. PICK s \in DOMAIN sessions, op \in {"lock", "delete"} :
               chatWork' = [chatWork EXCEPT ![r] = [op |-> op, session |-> s]]
        BY <3>2 DEF ChangeLook, Begin
      <4> QED
        BY <4>1
    <3> QED
      BY <1>2, <3>1, <3>2
  <2> QED
    BY <2>1, <2>2, AgeingBounded
<1>3. CASE LockSession(r) \/ DeleteSession(r)
  <2> DEFINE k == chatWork[r].session
  <2>1. Idle.op # "insert" /\ chatWork' = [chatWork EXCEPT ![r] = Idle] /\ UNCHANGED messages
    BY <1>3 DEF LockSession, DeleteSession, Done, Idle
  <2>2. CASE ~Live(k)
    BY <1>3, <2>1, <2>2, OneAges, AgeingBounded DEF LockSession, DeleteSession
  <2>3. CASE Live(k)
    <3>1. k \in DOMAIN sessions /\ sessions[k] \in Sessions /\ sessions[k].live
      BY <1>1, <2>3 DEF Live, ChatTypeOK
    <3>2. /\ [sessions[k] EXCEPT !.status = "locked"].doc = sessions[k].doc
          /\ [sessions[k] EXCEPT !.live = FALSE].doc = sessions[k].doc
      BY <3>1 DEF Sessions
    <3>3. \/ sessions' = [sessions EXCEPT ![k] = [sessions[k] EXCEPT !.status = "locked"]]
          \/ sessions' = [sessions EXCEPT ![k] = [sessions[k] EXCEPT !.live = FALSE]]
      BY <1>3, <2>3 DEF LockSession, DeleteSession
    <3>4. Ageing
      BY <2>1, <3>1, <3>2, <3>3, OneAges
    <3> QED
      BY <2>1, <3>4, AgeingBounded
  <2> QED
    BY <2>2, <2>3
<1> QED
  BY <1>2, <1>3

LEMMA AppendMessageBlanks ==
    ASSUME ChatInv, BlanksBounded, NEW r \in ChatRequests, AppendMessage(r)
    PROVE  BlanksBounded'
<1> DEFINE k == chatWork[r].session
<1>1. Idle.op # "insert" /\ chatWork' = [chatWork EXCEPT ![r] = Idle]
  BY DEF AppendMessage, Done, Idle
<1>2. CASE ~Live(k)
  BY <1>1, <1>2, OneAges, AgeingBounded DEF AppendMessage
<1>3. CASE Live(k)
  <2> DEFINE title == IF chatWork[r].role = "user" /\ chatWork[r].untitled
                      THEN Len(messages) + 1 ELSE sessions[k].title
             status == IF chatWork[r].locked THEN "active" ELSE sessions[k].status
  <2>1. sessions' = [sessions EXCEPT ![k].title = title, ![k].status = status]
    BY <1>3 DEF AppendMessage
  <2> HIDE DEF title, status
  <2>2. k \in DOMAIN sessions /\ sessions \in Seq(Sessions)
    BY <1>3 DEF Live, ChatInv, ChatTypeOK
  <2>3. \A s \in DOMAIN sessions :
           sessions'[s].doc = sessions[s].doc /\ sessions'[s].live = sessions[s].live
    <3>1. \A s \in DOMAIN sessions : sessions[s] \in Sessions
      BY <2>2
    <3> QED
      BY <2>1, <2>2, <3>1 DEF Sessions
  <2>4. \A m \in DOMAIN messages : m \in DOMAIN messages' /\ messages'[m] = messages[m]
    <3> DEFINE e == [session |-> k, role |-> chatWork[r].role]
    <3>1. messages' = Append(messages, e) /\ messages \in Seq(Messages)
      BY <1>3 DEF AppendMessage, ChatInv, ChatTypeOK
    <3> HIDE DEF e
    <3> QED
      BY <3>1
  <2>5. DOMAIN sessions' = DOMAIN sessions
    BY <2>1, <2>2
  <2>6. Ageing
    BY <2>3, <2>4, <2>5 DEF Ageing
  <2> QED
    BY <1>1, <2>6, AgeingBounded
<1> QED
  BY <1>2, <1>3

LEMMA DeleteDocBlanks ==
    ASSUME ChatInv, BlanksBounded, DeleteDoc
    PROVE  BlanksBounded'
<1>1. PICK d \in docRows :
         sessions' = [s \in DOMAIN sessions |->
                            [sessions[s] EXCEPT !.live = @ /\ sessions[s].doc # d]]
  BY DEF DeleteDoc
<1>2. UNCHANGED <<messages, chatWork>>
  BY DEF DeleteDoc
<1>3. ASSUME NEW s \in DOMAIN sessions
      PROVE  sessions'[s].doc = sessions[s].doc /\ (sessions'[s].live => sessions[s].live)
  <2> DEFINE live == sessions[s].live /\ sessions[s].doc # d
  <2>1. sessions[s] \in Sessions
    BY DEF ChatInv, ChatTypeOK
  <2>2. sessions'[s] = [sessions[s] EXCEPT !.live = live]
    BY <1>1
  <2>3. live => sessions[s].live
    OBVIOUS
  <2> HIDE DEF live
  <2>4. sessions'[s].doc = sessions[s].doc /\ sessions'[s].live = live
    BY <2>1, <2>2 DEF Sessions
  <2> QED
    BY <2>3, <2>4
<1>4. Ageing
  BY <1>1, <1>2, <1>3 DEF Ageing
<1> QED
  BY <1>2, <1>4, AgeingBounded

\* However often and by however many requests at once new chats are asked for, a document
\* has no more blank sessions than there are requests that can overlap.
THEOREM BlanksAreBounded == ChatSpec => []BlanksBounded
<1>1. ChatInit => BlanksBounded
  <2> SUFFICES ASSUME ChatInit, NEW d \in ChatDocs PROVE BlanksBacked(d)
    BY DEF BlanksBounded, BlanksBacked
  <2>1. Blanks(d) = {} /\ Creating(d) = {}
    BY DEF ChatInit, Blanks, Creating, Idle
  <2>2. Cardinality(Blanks(d)) = 0 /\ Cardinality(Creating(d)) = 0
    BY <2>1, FS_EmptySet, Zenon
  <2>3. Cardinality(ChatRequests) \in Nat
    BY ChatAssumption, FS_CardinalityType
  <2> QED
    BY <2>2, <2>3 DEF BlanksBacked
<1>2. ChatInv /\ ChatInv' /\ BlanksBounded /\ [ChatNext]_chatVars => BlanksBounded'
  <2> SUFFICES ASSUME ChatInv, ChatInv', BlanksBounded, [ChatNext]_chatVars
               PROVE  BlanksBounded'
    OBVIOUS
  <2>1. CASE UNCHANGED chatVars
    <3>1. Ageing
      BY <2>1 DEF chatVars, Ageing
    <3> QED
      BY <2>1, <3>1, AgeingBounded DEF chatVars
  <2>2. CASE DeleteDoc
    BY <2>2, DeleteDocBlanks
  <2>3. ASSUME NEW r \in ChatRequests, ChatStep(r)
        PROVE  BlanksBounded'
    BY <2>3, CreateLookBlanks, CreateInsertBlanks, AppendMessageBlanks, ChangeBlanks
    DEF ChatStep
  <2> QED
    BY <2>1, <2>2, <2>3 DEF ChatNext
<1> QED
  BY <1>1, <1>2, ChatInvariant, PTL DEF ChatSpec

-----------------------------------------------------------------------------
(* Accounts.                                                               *)

Rows == AccountRows \cup {NoAccount}

\* No two accounts are linked to one identity.
LinkedOnce ==
    \A p \in Providers, i \in Identities, a, b \in Emails :
        a \in Linked(p, i) /\ b \in Linked(p, i) => a = b

AccountsInv == accounts \in [Emails -> Rows] /\ LinkedOnce

-----------------------------------------------------------------------------
(* Rows.                                                                   *)

LEMMA AccountFields ==
    ASSUME NEW row \in Rows, row # NoAccount
    PROVE  row \in AccountRows
BY DEF Rows

LEMMA RowsExist == \A row \in AccountRows : row # NoAccount
BY DEF AccountRows, NoAccount

\* Setting the password, or disabling an account, links nothing.
LEMMA PasswordSet ==
    ASSUME NEW row \in AccountRows, NEW p \in Passwords
    PROVE  /\ [row EXCEPT !.password = p] \in AccountRows
           /\ [row EXCEPT !.password = p].provider = row.provider
           /\ [row EXCEPT !.password = p].identity = row.identity
BY DEF AccountRows

LEMMA Disabled ==
    ASSUME NEW row \in AccountRows
    PROVE  /\ [row EXCEPT !.active = FALSE] \in AccountRows
           /\ [row EXCEPT !.active = FALSE].provider = row.provider
           /\ [row EXCEPT !.active = FALSE].identity = row.identity
BY DEF AccountRows

LEMMA NewRow ==
    ASSUME NEW pw \in Passwords \cup {Absent}, NEW p \in Providers \cup {Absent},
           NEW i \in Identities \cup {Absent}, NEW v \in BOOLEAN
    PROVE  LET row == [exists |-> TRUE, password |-> pw, provider |-> p, identity |-> i,
                       verified |-> v, active |-> TRUE]
           IN  row \in AccountRows /\ row.provider = p /\ row.identity = i
BY DEF AccountRows

-----------------------------------------------------------------------------
(* The two ways in which a row changes.                                    *)

\* A row that keeps its link, or gets none.
LEMMA LinkKept ==
    ASSUME AccountsInv, NEW e \in Emails, NEW row \in AccountRows,
           accounts' = [accounts EXCEPT ![e] = row],
           \/ row.provider \notin Providers
           \/ /\ accounts[e] # NoAccount
              /\ row.provider = accounts[e].provider /\ row.identity = accounts[e].identity
    PROVE  AccountsInv'
<1>1. accounts' \in [Emails -> Rows] /\ accounts'[e] = row
      /\ \A a \in Emails \ {e} : accounts'[a] = accounts[a]
  BY DEF AccountsInv, Rows
<1>2. \A p \in Providers, i \in Identities : Linked(p, i)' \subseteq Linked(p, i)
  BY <1>1 DEF Linked, Exists
<1>3. LinkedOnce'
  BY <1>2 DEF AccountsInv, LinkedOnce
<1> QED
  BY <1>1, <1>3 DEF AccountsInv

\* A row that is linked to an identity that no account is linked to.
LEMMA LinkMade ==
    ASSUME AccountsInv, NEW e \in Emails, NEW row \in AccountRows,
           accounts' = [accounts EXCEPT ![e] = row],
           NEW p \in Providers, NEW i \in Identities, Linked(p, i) = {},
           row.provider = p, row.identity = i
    PROVE  AccountsInv'
<1>1. accounts' \in [Emails -> Rows] /\ accounts'[e] = row
      /\ \A a \in Emails \ {e} : accounts'[a] = accounts[a]
  BY DEF AccountsInv, Rows
<1>2. \A q \in Providers, j \in Identities :
         IF q = p /\ j = i THEN Linked(q, j)' \subseteq {e}
         ELSE Linked(q, j)' \subseteq Linked(q, j)
  BY <1>1 DEF Linked, Exists
<1>3. LinkedOnce'
  BY <1>2 DEF AccountsInv, LinkedOnce
<1> QED
  BY <1>1, <1>3 DEF AccountsInv

\* An unchanged table.
LEMMA TableKept ==
    ASSUME AccountsInv, UNCHANGED accounts
    PROVE  AccountsInv'
BY DEF AccountsInv, LinkedOnce, Linked, Exists

-----------------------------------------------------------------------------
LEMMA RegisterInsertKeeps ==
    ASSUME AccountsInv, NEW r \in Registrants, registering[r] \in Emails, RegisterInsert(r)
    PROVE  AccountsInv'
<1>1. CASE Exists(registering[r])
  BY <1>1, TableKept DEF RegisterInsert
<1>2. CASE ~Exists(registering[r])
  <2>1. PICK p \in Passwords :
           accounts' = [accounts EXCEPT ![registering[r]] =
                           [exists |-> TRUE, password |-> p, provider |-> Absent,
                            identity |-> Absent, verified |-> FALSE, active |-> TRUE]]
    BY <1>2 DEF RegisterInsert
  <2> DEFINE row == [exists |-> TRUE, password |-> p, provider |-> Absent,
                     identity |-> Absent, verified |-> FALSE, active |-> TRUE]
  <2>2. row \in AccountRows /\ row.provider = Absent
    BY NewRow
  <2>3. accounts' = [accounts EXCEPT ![registering[r]] = row]
    BY <2>1
  <2> HIDE DEF row
  <2> QED
    BY <2>2, <2>3, LinkKept, AccountsAssumption
<1> QED
  BY <1>1, <1>2

LEMMA ResetPasswordKeeps ==
    ASSUME AccountsInv, resetTokens \subseteq ResetTokens, ResetPassword
    PROVE  AccountsInv'
<1>1. PICK t \in resetTokens, p \in Passwords :
         Active(t.account) /\ accounts' = [accounts EXCEPT ![t.account].password = p]
  BY DEF ResetPassword
<1>2. t.account \in Emails
  BY DEF ResetTokens
<1>3. accounts[t.account] \in AccountRows /\ accounts[t.account] # NoAccount
  BY <1>1, <1>2, AccountFields DEF AccountsInv, Active, Exists
<1> DEFINE row == [accounts[t.account] EXCEPT !.password = p]
<1>4. /\ row \in AccountRows /\ row.provider = accounts[t.account].provider
      /\ row.identity = accounts[t.account].identity
  BY <1>3, PasswordSet
<1>5. accounts' = [accounts EXCEPT ![t.account] = row]
  BY <1>1
<1> HIDE DEF row
<1> QED
  BY <1>2, <1>3, <1>4, <1>5, LinkKept

LEMMA DisableKeeps ==
    ASSUME AccountsInv, Disable
    PROVE  AccountsInv'
<1>1. PICK e \in Emails : Active(e) /\ accounts' = [accounts EXCEPT ![e].active = FALSE]
  BY DEF Disable
<1>2. accounts[e] \in AccountRows /\ accounts[e] # NoAccount
  BY <1>1, AccountFields DEF AccountsInv, Active, Exists
<1> DEFINE row == [accounts[e] EXCEPT !.active = FALSE]
<1>3. /\ row \in AccountRows /\ row.provider = accounts[e].provider
      /\ row.identity = accounts[e].identity
  BY <1>2, Disabled
<1>4. accounts' = [accounts EXCEPT ![e] = row]
  BY <1>1
<1> HIDE DEF row
<1> QED
  BY <1>2, <1>3, <1>4, LinkKept

\* A callback links an account only to an identity that was found linked to none.
LEMMA OAuthCallbackKeeps ==
    ASSUME AccountsInv, OAuthCallback
    PROVE  AccountsInv'
<1> DEFINE made(p, i, e) ==
             accounts' = [accounts EXCEPT ![e] =
                             [exists |-> TRUE, password |-> Absent, provider |-> p,
                              identity |-> i, verified |-> TRUE, active |-> TRUE]]
           linked(p, i, e, known) ==
             accounts' = IF accounts[known].provider # Absent THEN accounts
                         ELSE [accounts EXCEPT ![known].provider = p, ![known].identity = i,
                                               ![known].verified = TRUE]
           logged(e) == Log("register_oauth", e, TRUE) /\ Grant(e)
           loggedIn(e) == Log("login_oauth", e, TRUE) /\ Grant(e)
<1>1. \E p \in Providers, i \in Identities, e \in Emails :
         IF FindAccount(p, i, e) = {} THEN made(p, i, e) /\ logged(e)
         ELSE \E known \in FindAccount(p, i, e) : linked(p, i, e, known) /\ loggedIn(known)
  BY DEF OAuthCallback
<1> HIDE DEF made, linked, logged, loggedIn
<1>4. PICK p \in Providers, i \in Identities, e \in Emails :
         IF FindAccount(p, i, e) = {} THEN made(p, i, e)
         ELSE \E known \in FindAccount(p, i, e) : linked(p, i, e, known)
  BY <1>1
<1>2. CASE FindAccount(p, i, e) = {}
  <2> DEFINE row == [exists |-> TRUE, password |-> Absent, provider |-> p,
                     identity |-> i, verified |-> TRUE, active |-> TRUE]
  <2>1. row \in AccountRows /\ row.provider = p /\ row.identity = i
    BY NewRow
  <2>2. accounts' = [accounts EXCEPT ![e] = row]
    BY <1>2, <1>4 DEF made
  <2>3. Linked(p, i) = {}
    BY <1>2 DEF FindAccount
  <2> HIDE DEF row
  <2> QED
    BY <2>1, <2>2, <2>3, LinkMade
<1>3. CASE FindAccount(p, i, e) # {}
  <2>1. PICK known \in FindAccount(p, i, e) : linked(p, i, e, known)
    BY <1>3, <1>4
  <2>2. known \in Emails /\ accounts[known] # NoAccount
    BY DEF FindAccount, Linked, Exists
  <2>3. CASE accounts[known].provider # Absent
    BY <2>1, <2>3, TableKept DEF linked
  <2>4. CASE accounts[known].provider = Absent
    <3>1. Linked(p, i) = {}
      BY <2>4, AccountsAssumption DEF FindAccount, Linked
    <3>2. accounts[known] \in AccountRows
      BY <2>2, AccountFields DEF AccountsInv
    <3> DEFINE row == [accounts[known] EXCEPT !.provider = p, !.identity = i,
                                              !.verified = TRUE]
    <3>3. row \in AccountRows /\ row.provider = p /\ row.identity = i
      BY <3>2 DEF AccountRows
    <3>4. accounts' = [accounts EXCEPT ![known] = row]
      <4>1. accounts' = [accounts EXCEPT ![known].provider = p, ![known].identity = i,
                                         ![known].verified = TRUE]
        BY <2>1, <2>4 DEF linked
      <4> QED
        BY <4>1
    <3> HIDE DEF row
    <3> QED
      BY <2>2, <3>1, <3>3, <3>4, LinkMade
  <2> QED
    BY <2>3, <2>4
<1> QED
  BY <1>2, <1>3

-----------------------------------------------------------------------------
\* What the registrations and the tokens refer to.
Referred ==
    /\ registering \in [Registrants -> Emails \cup {Absent}]
    /\ resetTokens \subseteq ResetTokens

LEMMA ReferredKept ==
    ASSUME Referred, AccountsNext
    PROVE  Referred'
<1>1. ASSUME NEW r \in Registrants, RegisterLook(r) \/ RegisterInsert(r)
      PROVE  Referred'
  BY <1>1 DEF Referred, RegisterLook, RegisterInsert
<1>2. CASE ForgotPassword
  <2>1. PICK e \in Emails :
           resetTokens' = {t \in resetTokens : t.account # e \/ t.used}
                          \cup {[account |-> e, used |-> FALSE, expired |-> FALSE]}
    BY <1>2 DEF ForgotPassword
  <2>2. [account |-> e, used |-> FALSE, expired |-> FALSE] \in ResetTokens
    BY DEF ResetTokens
  <2>3. UNCHANGED registering
    BY <1>2 DEF ForgotPassword
  <2> QED
    BY <2>1, <2>2, <2>3 DEF Referred
<1>3. CASE ResetPassword \/ ExpireToken
  <2>1. PICK t \in resetTokens :
           \/ resetTokens' = (resetTokens \ {t}) \cup {[t EXCEPT !.used = TRUE]}
           \/ resetTokens' = (resetTokens \ {t}) \cup {[t EXCEPT !.expired = TRUE]}
    BY <1>3 DEF ResetPassword, ExpireToken
  <2>2. [t EXCEPT !.used = TRUE] \in ResetTokens /\ [t EXCEPT !.expired = TRUE] \in ResetTokens
    BY DEF Referred, ResetTokens
  <2>3. UNCHANGED registering
    BY <1>3 DEF ResetPassword, ExpireToken
  <2> QED
    BY <2>1, <2>2, <2>3 DEF Referred
<1>4. CASE Login \/ Refresh \/ OAuthCallback \/ Disable
  BY <1>4 DEF Referred, Login, Refresh, OAuthCallback, Disable
<1> QED
  BY <1>1, <1>2, <1>3, <1>4 DEF AccountsNext

LEMMA AccountsInvariant == AccountsSpec => [](AccountsInv /\ Referred)
<1>1. AccountsInit => AccountsInv /\ Referred
  BY DEF AccountsInit, AccountsInv, Referred, LinkedOnce, Linked, Exists, Rows
<1>2. AccountsInv /\ Referred /\ [AccountsNext]_accountVars => AccountsInv' /\ Referred'
  <2> SUFFICES ASSUME AccountsInv, Referred, [AccountsNext]_accountVars
               PROVE  AccountsInv' /\ Referred'
    OBVIOUS
  <2>1. CASE UNCHANGED accountVars
    BY <2>1, TableKept DEF accountVars, Referred
  <2>2. CASE AccountsNext
    <3>1. Referred'
      BY <2>2, ReferredKept
    <3> SUFFICES AccountsInv'
      BY <3>1
    <3>2. ASSUME NEW r \in Registrants, RegisterLook(r)
          PROVE  AccountsInv'
      BY <3>2, TableKept DEF RegisterLook
    <3>3. ASSUME NEW r \in Registrants, RegisterInsert(r)
          PROVE  AccountsInv'
      <4>1. registering[r] \in Emails
        BY <3>3 DEF Referred, RegisterInsert
      <4> QED
        BY <3>3, <4>1, RegisterInsertKeeps
    <3>4. CASE Login \/ Refresh \/ ForgotPassword \/ ExpireToken
      <4>1. UNCHANGED accounts
        BY <3>4 DEF Login, Refresh, ForgotPassword, ExpireToken
      <4> QED
        BY <4>1, TableKept
    <3>5. CASE ResetPassword
      <4>1. resetTokens \subseteq ResetTokens
        BY DEF Referred
      <4> QED
        BY <3>5, <4>1, ResetPasswordKeeps
    <3>6. CASE OAuthCallback
      BY <3>6, OAuthCallbackKeeps
    <3>7. CASE Disable
      BY <3>7, DisableKeeps
    <3> QED
      BY <2>2, <3>1, <3>2, <3>3, <3>4, <3>5, <3>6, <3>7 DEF AccountsNext
  <2> QED
    BY <2>1, <2>2
<1> QED
  BY <1>1, <1>2, PTL DEF AccountsSpec

\* However registrations, links and callbacks follow each other, an identity of a provider
\* belongs to one account, though the table has no such constraint: the callbacks link only
\* what they found unlinked.
THEOREM IdentitiesAreUnique == AccountsSpec => []OneAccountPerIdentity
<1>1. AccountsInv => OneAccountPerIdentity
  <2> SUFFICES ASSUME AccountsInv, NEW p \in Providers, NEW i \in Identities
               PROVE  Cardinality(Linked(p, i)) <= 1
    BY DEF OneAccountPerIdentity
  <2>1. \A a, b \in Linked(p, i) : a = b
    BY DEF AccountsInv, LinkedOnce, Linked
  <2>2. CASE Linked(p, i) = {}
    <3>1. Cardinality({}) = 0
      BY FS_EmptySet
    <3>2. Cardinality(Linked(p, i)) = 0
      BY <2>2, <3>1, Zenon
    <3> QED
      BY <3>2
  <2>3. CASE Linked(p, i) # {}
    <3>1. PICK a : Linked(p, i) = {a}
      BY <2>1, <2>3
    <3>2. Cardinality({a}) = 1
      BY FS_Singleton
    <3>3. Cardinality(Linked(p, i)) = 1
      BY <3>1, <3>2, Zenon
    <3> QED
      BY <3>3
  <2> QED
    BY <2>2, <2>3
<1> QED
  BY <1>1, AccountsInvariant, PTL

-----------------------------------------------------------------------------
(* The audit log.                                                          *)

\* Event v says that account e was given a pair of tokens.
Says(v, e) ==
    v.account = e /\ v.success
    /\ v.type \notin {"password_reset_request", "password_reset_complete"}

Sayings(e) == {i \in DOMAIN authEvents : Says(authEvents[i], e)}

LogInv ==
    /\ authEvents \in Seq(AuthEvents)
    /\ granted \in [Emails -> Nat]
    /\ GrantsLogged

LEMMA LoggedMeans == GrantsLogged <=> \A e \in Emails : granted[e] <= Cardinality(Sayings(e))
BY DEF GrantsLogged, Sayings, Says

LEMMA LoggedMeansNext ==
    GrantsLogged' <=> \A e \in Emails : granted'[e] <= Cardinality(Sayings(e)')
BY DEF GrantsLogged, Sayings, Says

\* An event more is one saying more of the accounts it says it of, and none less of any.
LEMMA OneMoreEvent ==
    ASSUME authEvents \in Seq(AuthEvents), NEW v \in AuthEvents,
           authEvents' = Append(authEvents, v), NEW e
    PROVE  /\ Cardinality(Sayings(e)) \in Nat
           /\ Cardinality(Sayings(e)') \in Nat
           /\ Cardinality(Sayings(e)') >= Cardinality(Sayings(e))
           /\ Says(v, e) => Cardinality(Sayings(e)') = Cardinality(Sayings(e)) + 1
<1> DEFINE new == Len(authEvents) + 1
<1>1. /\ DOMAIN authEvents = 1 .. Len(authEvents) /\ Len(authEvents) \in Nat
      /\ DOMAIN authEvents' = 1 .. Len(authEvents) + 1
      /\ authEvents'[new] = v /\ \A i \in DOMAIN authEvents : authEvents'[i] = authEvents[i]
  OBVIOUS
<1>2. new \notin Sayings(e)
  BY <1>1 DEF Sayings
<1>3. Sayings(e)' = IF Says(v, e) THEN Sayings(e) \cup {new} ELSE Sayings(e)
  BY <1>1 DEF Sayings
<1>4. IsFiniteSet(Sayings(e)) /\ Cardinality(Sayings(e)) \in Nat
  <2>1. IsFiniteSet(1 .. Len(authEvents)) /\ Sayings(e) \in SUBSET (1 .. Len(authEvents))
    BY <1>1, FS_Interval DEF Sayings
  <2> QED
    BY <2>1, FS_Subset, FS_CardinalityType
<1>5. CASE Says(v, e)
  <2>1. Sayings(e)' = Sayings(e) \cup {new}
    BY <1>3, <1>5
  <2>2. Cardinality(Sayings(e) \cup {new}) = Cardinality(Sayings(e)) + 1
    <3> HIDE DEF new
    <3> QED
      BY <1>2, <1>4, FS_AddElement
  <2>3. Cardinality(Sayings(e)') = Cardinality(Sayings(e)) + 1
    BY <2>1, <2>2, Zenon
  <2> QED
    BY <1>4, <2>3
<1>6. CASE ~Says(v, e)
  <2>1. Cardinality(Sayings(e)') = Cardinality(Sayings(e))
    BY <1>3, <1>6
  <2> QED
    BY <1>4, <1>6, <2>1
<1> QED
  BY <1>5, <1>6

\* An event is logged, and a pair of tokens is given with it to the account that it says it
\* of, or none is given.
LEMMA LogKeeps ==
    ASSUME LogInv, NEW v \in AuthEvents, authEvents' = Append(authEvents, v),
           \/ UNCHANGED granted
           \/ \E e \in Emails : Says(v, e) /\ Grant(e)
    PROVE  LogInv'
<1>1. authEvents' \in Seq(AuthEvents)
  BY DEF LogInv
<1>2. granted' \in [Emails -> Nat]
  BY DEF LogInv, Grant
<1>3. \A e \in Emails : granted'[e] <= Cardinality(Sayings(e)')
  <2> SUFFICES ASSUME NEW e \in Emails
               PROVE  granted'[e] <= Cardinality(Sayings(e)')
    OBVIOUS
  <2>1. /\ Cardinality(Sayings(e)) \in Nat /\ Cardinality(Sayings(e)') \in Nat
        /\ Cardinality(Sayings(e)') >= Cardinality(Sayings(e))
        /\ Says(v, e) => Cardinality(Sayings(e)') = Cardinality(Sayings(e)) + 1
    BY OneMoreEvent DEF LogInv
  <2>2. granted[e] \in Nat /\ granted[e] <= Cardinality(Sayings(e))
    BY LoggedMeans DEF LogInv
  <2>3. \/ granted'[e] = granted[e]
        \/ granted'[e] = granted[e] + 1 /\ Says(v, e)
    BY DEF LogInv, Grant
  <2> QED
    BY <2>1, <2>2, <2>3
<1> QED
  BY <1>1, <1>2, <1>3, LoggedMeansNext DEF LogInv

LEMMA LogUnchanged ==
    ASSUME LogInv, UNCHANGED <<authEvents, granted>>
    PROVE  LogInv'
BY DEF LogInv, GrantsLogged

\* An event with the fields it should have.
LEMMA NewEvent ==
    ASSUME NEW type \in EventTypes, NEW account \in Emails \cup {Absent},
           NEW success \in BOOLEAN, Log(type, account, success)
    PROVE  LET v == [type |-> type, account |-> account, success |-> success]
           IN  /\ v \in AuthEvents /\ authEvents' = Append(authEvents, v)
               /\ \A e : Says(v, e) <=>
                     account = e /\ success
                     /\ type \notin {"password_reset_request", "password_reset_complete"}
BY DEF Log, AuthEvents, Says

\* A successful event of a kind that gives tokens.
LEMMA GrantLogged ==
    ASSUME LogInv, NEW e \in Emails, NEW type,
           type \in {"register_email", "login_email", "token_refresh", "register_oauth",
                     "login_oauth"},
           Log(type, e, TRUE), Grant(e)
    PROVE  LogInv'
<1> DEFINE v == [type |-> type, account |-> e, success |-> TRUE]
<1>1. type \in EventTypes
  BY DEF EventTypes
<1>2. v \in AuthEvents /\ authEvents' = Append(authEvents, v) /\ Says(v, e)
  BY <1>1, NewEvent
<1> HIDE DEF v
<1> QED
  BY <1>2, LogKeeps

\* Any event, when nothing is given.
LEMMA OnlyLogged ==
    ASSUME LogInv, NEW account \in Emails \cup {Absent}, NEW type \in EventTypes,
           NEW success \in BOOLEAN, Log(type, account, success), UNCHANGED granted
    PROVE  LogInv'
<1> DEFINE v == [type |-> type, account |-> account, success |-> success]
<1>1. v \in AuthEvents /\ authEvents' = Append(authEvents, v)
  BY NewEvent
<1> HIDE DEF v
<1> QED
  BY <1>1, LogKeeps

LEMMA LoginKeepsLog ==
    ASSUME LogInv, Login
    PROVE  LogInv'
<1>1. PICK e \in Emails, p \in Passwords :
         /\ Log("login_email", IF Exists(e) THEN e ELSE Absent, PasswordMatches(e, p))
         /\ IF PasswordMatches(e, p) /\ Active(e) THEN Grant(e) ELSE UNCHANGED granted
  BY DEF Login
<1> DEFINE matches == PasswordMatches(e, p)
           account == IF Exists(e) THEN e ELSE Absent
<1>2. /\ matches \in BOOLEAN /\ account \in Emails \cup {Absent}
      /\ matches /\ Active(e) => account = e
      /\ "login_email" \in EventTypes
  BY DEF PasswordMatches, Active, EventTypes
<1>3. /\ Log("login_email", account, matches)
      /\ IF matches /\ Active(e) THEN Grant(e) ELSE UNCHANGED granted
  BY <1>1
<1> HIDE DEF matches, account
<1>4. CASE matches /\ Active(e)
  <2>1. matches = TRUE /\ account = e
    BY <1>2, <1>4
  <2> QED
    BY <1>3, <1>4, <2>1, GrantLogged
<1>5. CASE ~(matches /\ Active(e))
  BY <1>2, <1>3, <1>5, OnlyLogged
<1> QED
  BY <1>4, <1>5

LEMMA RegistrationKeepsLog ==
    ASSUME LogInv, Referred, NEW r \in Registrants, RegisterLook(r) \/ RegisterInsert(r)
    PROVE  LogInv'
<1>1. "register_email" \in EventTypes
  BY DEF EventTypes
<1>2. CASE RegisterLook(r)
  BY <1>1, <1>2, LogUnchanged, OnlyLogged DEF RegisterLook
<1>3. CASE RegisterInsert(r)
  <2>1. registering[r] \in Emails
    BY <1>3 DEF RegisterInsert, Referred
  <2> QED
    BY <1>3, <2>1, LogUnchanged, GrantLogged DEF RegisterInsert
<1> QED
  BY <1>2, <1>3

LEMMA CallbackKeepsLog ==
    ASSUME LogInv, OAuthCallback
    PROVE  LogInv'
<1>1. PICK p \in Providers, i \in Identities, e \in Emails :
         \/ Log("register_oauth", e, TRUE) /\ Grant(e)
         \/ \E known \in FindAccount(p, i, e) : Log("login_oauth", known, TRUE) /\ Grant(known)
  BY DEF OAuthCallback
<1>2. FindAccount(p, i, e) \subseteq Emails
  BY DEF FindAccount, Linked
<1>3. CASE Log("register_oauth", e, TRUE) /\ Grant(e)
  BY <1>3, GrantLogged
<1>4. CASE \E known \in FindAccount(p, i, e) : Log("login_oauth", known, TRUE) /\ Grant(known)
  BY <1>2, <1>4, GrantLogged
<1> QED
  BY <1>1, <1>3, <1>4

LEMMA OthersKeepLog ==
    ASSUME LogInv, Referred,
           Refresh \/ ForgotPassword \/ ResetPassword \/ ExpireToken \/ Disable
    PROVE  LogInv'
<1>1. {"password_reset_request", "password_reset_complete"} \subseteq EventTypes
  BY DEF EventTypes
<1>2. CASE Refresh
  BY <1>2, GrantLogged DEF Refresh
<1>3. CASE ForgotPassword
  BY <1>1, <1>3, OnlyLogged DEF ForgotPassword
<1>4. CASE ResetPassword
  <2>1. PICK t \in resetTokens : Log("password_reset_complete", t.account, TRUE)
    BY <1>4 DEF ResetPassword
  <2>2. t.account \in Emails /\ UNCHANGED granted
    BY <1>4 DEF Referred, ResetTokens, ResetPassword
  <2> QED
    BY <1>1, <2>1, <2>2, OnlyLogged
<1>5. CASE ExpireToken \/ Disable
  BY <1>5, LogUnchanged DEF ExpireToken, Disable
<1> QED
  BY <1>2, <1>3, <1>4, <1>5

LEMMA LogInvariant == AccountsSpec => []LogInv
<1>1. AccountsInit => LogInv
  <2> SUFFICES ASSUME AccountsInit PROVE LogInv
    OBVIOUS
  <2>1. authEvents = << >> /\ granted = [e \in Emails |-> 0]
    BY DEF AccountsInit
  <2>2. \A e \in Emails : granted[e] <= Cardinality(Sayings(e))
    <3> SUFFICES ASSUME NEW e \in Emails PROVE granted[e] <= Cardinality(Sayings(e))
      OBVIOUS
    <3>1. Sayings(e) = {}
      BY <2>1 DEF Sayings
    <3>2. Cardinality(Sayings(e)) = 0
      BY <3>1, FS_EmptySet, Zenon
    <3> QED
      BY <2>1, <3>2
  <2> QED
    BY <2>1, <2>2, LoggedMeans DEF LogInv
<1>2. LogInv /\ Referred /\ [AccountsNext]_accountVars => LogInv'
  <2> SUFFICES ASSUME LogInv, Referred, [AccountsNext]_accountVars PROVE LogInv'
    OBVIOUS
  <2>1. CASE UNCHANGED accountVars
    BY <2>1, LogUnchanged DEF accountVars
  <2> QED
    BY <2>1, RegistrationKeepsLog, LoginKeepsLog, CallbackKeepsLog, OthersKeepLog
    DEF AccountsNext
<1> QED
  BY <1>1, <1>2, AccountsInvariant, PTL DEF AccountsSpec

\* Every pair of tokens has an event of its own in the log, which was there when the pair
\* was given, for any number of accounts and of registrations that overlap.
THEOREM GrantsAreLogged == AccountsSpec => []GrantsLogged
<1>1. LogInv => GrantsLogged
  BY DEF LogInv
<1> QED
  BY <1>1, LogInvariant, PTL

\* Accounts, registrations, tokens and events have their types: every row is one that the
\* code writes, and every token and event is of an account there can be.
THEOREM AccountsTypeCorrect == AccountsSpec => []AccountsTypeOK
<1>1. AccountsInv /\ Referred /\ LogInv => AccountsTypeOK
  <2> SUFFICES ASSUME AccountsInv, Referred, LogInv PROVE AccountsTypeOK
    OBVIOUS
  <2>1. \A i \in DOMAIN authEvents : authEvents[i] \in AuthEvents
    BY DEF LogInv
  <2> QED
    BY <2>1 DEF AccountsInv, Referred, LogInv, AccountsTypeOK, Rows
<1> QED
  BY <1>1, AccountsInvariant, LogInvariant, PTL

=============================================================================
