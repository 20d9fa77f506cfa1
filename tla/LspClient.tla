------------------------------ MODULE LspClient ------------------------------
(***************************************************************************)
(* The editor's side of a language-server connection (src/lsp/protocol.rs) *)
(* composed with the reader thread of LspReader: Protocol::request numbers *)
(* requests from next_request_id, PendingRequestColection remembers their *)
(* methods in reusable slots, and every body the reader thread frames is   *)
(* classified by parse_server_event before it is sent to the editor, which *)
(* takes the pending method of every Response it is sent.                 *)
(*                                                                         *)
(* A JSON body is abstracted to the members parse_server_event looks at:   *)
(* whether it has an id (and the id), and whether its "result" is a value, *)
(* null or absent and its "error" an object.  The ghost `msgs` records the *)
(* body of each frame the server wrote; a frame's body symbols Byte(f, j)  *)
(* name the frame f, so the editor looks the delivered body up there.      *)
(***************************************************************************)
EXTENDS LspReader, SequencesExt

CONSTANTS
    Methods,      \* the &'static str methods the editor requests
    Results,      \* what a response's "result" member may be: "value", "null"
    MaxRequests   \* bound on the number of Protocol::request calls

ASSUME Results \subseteq {"value", "null"} /\ MaxRequests \in Nat

VARIABLES
    nextRequestId, \* Protocol.next_request_id
    pending,       \* PendingRequestColection.pending_requests: <<[id, method]>>
    inbox,         \* ids of our requests the server has read and not answered
    msgs,          \* ghost: the JSON body of each frame the server wrote
    handled,       \* number of reader events the editor has handled
    asked,         \* ghost: asked[i] is the method of request id i
    matched        \* ghost: <<[id, method]>> the responses take() resolved

clientVars == <<nextRequestId, pending, inbox, msgs, handled, asked, matched>>
allVars == <<vars, clientVars>>

\* A JSON body: kind is what the server meant; id 0 stands for no "id".
Msg(kind, id, result) == [kind |-> kind, id |-> id, result |-> result]

\* ServerEvent: what the reader thread sends the editor for a body.
ServerEvent(ev, id) == [ev |-> ev, id |-> id]

\* Mutant: only a non-null "result" makes a Response; error objects do not.
ParseServerEventResultOnly(m) ==
    CASE m.kind = "Response" /\ m.result = "value" -> ServerEvent("Response", m.id)
      [] m.id # 0                                  -> ServerEvent("Request", m.id)
      [] OTHER                                     -> ServerEvent("Notification", 0)

(***************************************************************************)
(* parse_server_event: a non-null "result" makes a Response, else an       *)
(* "error" object makes an error Response, both needing a positive integer *)
(* id; else any id makes a server Request; else it is a Notification.      *)
(***************************************************************************)
ParseServerEvent(m) ==
    CASE m.kind = "Response" /\ m.result = "value" -> ServerEvent("Response", m.id)
      [] m.kind = "Error"                          -> ServerEvent("Response", m.id)
      [] m.id # 0                                  -> ServerEvent("Request", m.id)
      [] OTHER                                     -> ServerEvent("Notification", 0)

\* PendingRequest: a slot of the collection; id 0 marks it free.
Slot(id, method) == [id |-> id, method |-> method]

\* Mutant: a free slot gets the new id but keeps the method it had.
AddKeepMethod(p, id, method) ==
    IF \E i \in DOMAIN p : p[i].id = 0
       THEN [p EXCEPT ![SelectInSeq(p, LAMBDA r : r.id = 0)].id = id]
       ELSE Append(p, Slot(id, method))

\* Mutant: the first slot is refilled whether or not it is free.
AddFirst(p, id, method) ==
    IF p = <<>> THEN Append(p, Slot(id, method))
                ELSE [p EXCEPT ![1] = Slot(id, method)]

(***************************************************************************)
(* PendingRequestColection::add: the first slot whose id is 0 is refilled, *)
(* else a new slot is pushed.                                              *)
(***************************************************************************)
Add(p, id, method) ==
    IF \E i \in DOMAIN p : p[i].id = 0
       THEN LET i == SelectInSeq(p, LAMBDA r : r.id = 0)
            IN [p EXCEPT ![i] = Slot(id, method)]
       ELSE Append(p, Slot(id, method))

\* Mutant: the slot is found but not freed.
TakeKeep(p, id) == p

(***************************************************************************)
(* PendingRequestColection::take: the first slot with this id is freed by  *)
(* setting its id to 0; the caller gets its method.  TakeSlot is the slot, *)
(* 0 for None.                                                             *)
(***************************************************************************)
TakeSlot(p, id) == SelectInSeq(p, LAMBDA r : r.id = id)

Take(p, id) ==
    IF TakeSlot(p, id) = 0 THEN p ELSE [p EXCEPT ![TakeSlot(p, id)].id = 0]

ClientInit ==
    /\ Init
    /\ nextRequestId = 1
    /\ pending = <<>>
    /\ inbox = {}
    /\ msgs = <<>>
    /\ handled = 0
    /\ asked = <<>>
    /\ matched = <<>>

(***************************************************************************)
(* Protocol::request followed by pending.add: the id is taken from         *)
(* next_request_id, which is incremented before send_body writes the      *)
(* frame; the write fails once the server has exited (a broken pipe), the *)
(* error is returned and nothing is added to the pending requests.        *)
(***************************************************************************)
Request(method) ==
    /\ Len(asked) < MaxRequests
    /\ nextRequestId' = nextRequestId + 1
    /\ asked' = Append(asked, method)
    /\ IF eof
          THEN UNCHANGED <<pending, inbox>>
          ELSE /\ pending' = Add(pending, nextRequestId, method)
               /\ inbox' = inbox \cup {nextRequestId}
    /\ UNCHANGED <<vars, msgs, handled, matched>>

\* The server writes one frame carrying body m (LspReader's ServerWrite).
ServerSends(m) ==
    /\ ServerWrite
    /\ msgs' = Append(msgs, m)

\* The server answers one of our requests, in whatever order it likes.
ServerResponds ==
    \E id \in inbox :
       /\ \/ \E r \in Results : ServerSends(Msg("Response", id, r))
          \/ ServerSends(Msg("Error", id, "object"))
       /\ inbox' = inbox \ {id}
       /\ UNCHANGED <<nextRequestId, pending, handled, asked, matched>>

\* The server sends a request of its own (id 1 of its id space) or a notification.
ServerInitiates ==
    /\ \/ ServerSends(Msg("Request", 1, "none"))
       \/ ServerSends(Msg("Notification", 0, "none"))
    /\ UNCHANGED <<nextRequestId, pending, inbox, handled, asked, matched>>

(***************************************************************************)
(* The editor handles the next event the reader thread sent: the id of a   *)
(* Response is taken from the pending requests (None when no slot has it); *)
(* requests and notifications of the server leave them alone.              *)
(***************************************************************************)
HandleEvent ==
    /\ handled < Len(received)
    /\ handled' = handled + 1
    /\ LET e == ParseServerEvent(msgs[received[handled + 1][1].a]) IN
       /\ IF e.ev = "Response"
             THEN /\ pending' = Take(pending, e.id)
                  /\ matched' = IF TakeSlot(pending, e.id) = 0 THEN matched
                                ELSE Append(matched, [id |-> e.id,
                                       method |-> pending[TakeSlot(pending, e.id)].method])
             ELSE UNCHANGED <<pending, matched>>
    /\ UNCHANGED <<vars, nextRequestId, inbox, msgs, asked>>

ClientNext ==
    \/ \E m \in Methods : Request(m)
    \/ ServerResponds
    \/ ServerInitiates
    \/ ServerExit /\ UNCHANGED clientVars
    \/ Reader /\ UNCHANGED clientVars
    \/ HandleEvent

\* The editor's main loop handles every event it is sent.
ClientSpec ==
    ClientInit /\ [][ClientNext]_allVars
    /\ WF_allVars(Iterate /\ UNCHANGED clientVars)
    /\ WF_allVars(Read /\ UNCHANGED clientVars)
    /\ WF_allVars(HandleEvent)

-----------------------------------------------------------------------------

\* The ids held by a slot in use.
Live == {pending[i].id : i \in DOMAIN pending} \ {0}

\* A response to request id was resolved by take().
Matched(id) == \E k \in DOMAIN matched : matched[k].id = id

\* The server wrote a response (with a result or an error) to request id.
Answered(id) ==
    \E f \in DOMAIN msgs : msgs[f].kind \in {"Response", "Error"} /\ msgs[f].id = id

\* Request id reached the server: Protocol::request's write succeeded.
Written(id) == id \in inbox \/ Answered(id)

(***************************************************************************)
(* Every response the editor resolves yields the method of the request    *)
(* that carried its id, and no id is resolved twice, however the server    *)
(* orders its answers and however often add() refills a slot that take()   *)
(* freed.                                                                  *)
(***************************************************************************)
ResponsesMatchRequests ==
    \A k \in DOMAIN matched :
       /\ matched[k].method = asked[matched[k].id]
       /\ \A l \in DOMAIN matched : l # k => matched[l].id # matched[k].id

(***************************************************************************)
(* The slots in use are exactly the requests written to the server whose   *)
(* response has not been handled yet, one slot each: a request whose write *)
(* failed holds none, and a handled response frees its slot.              *)
(***************************************************************************)
PendingAreOutstanding ==
    /\ Live = {id \in 1..Len(asked) : Written(id) /\ ~Matched(id)}
    /\ \A i, j \in DOMAIN pending :
          i # j /\ pending[i].id # 0 => pending[i].id # pending[j].id

(***************************************************************************)
(* Every response the server writes is eventually resolved to its request  *)
(* by the editor, unless the reader thread has stopped: parse_server_event *)
(* must classify results and error objects alike as responses.            *)
(***************************************************************************)
EveryResponseResolved ==
    \A id \in 1..MaxRequests : Answered(id) ~> (Matched(id) \/ pc = "exited")

=============================================================================
