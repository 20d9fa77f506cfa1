------------------------------- MODULE Session -------------------------------
(***************************************************************************)
(* Editor processes sharing one session (src/src/application.rs and        *)
(* src/src/client.rs).  Every launched editor runs `run`: it connects to  *)
(* the session_socket endpoint of the working directory and becomes a     *)
(* client, or binds it and becomes the server, or removes a stale         *)
(* endpoint and binds it anew.  The steps of `run` are separate system    *)
(* calls, so launches interleave between them.  The server's event loop   *)
(* accepts connections, hands out connection handles, and keeps a         *)
(* ClientCollection and a ClientTargetMap indexed by handle; it ends on a *)
(* local quit, then removes the endpoint, or on an error through `?`,     *)
(* leaving the endpoint behind.                                            *)
(*                                                                         *)
(* A TargetClient is kept as its into_index: 0 for Local, h + 1 for        *)
(* Remote(h); NoTarget is the None of an Option<TargetClient>.  Keys,      *)
(* operations and display frames are left out: of a Stream event only     *)
(* whether it ends the client and which target it maps matter here.       *)
(***************************************************************************)
EXTENDS Integers, Sequences, FiniteSets

CONSTANTS
    Launchers,   \* the editor processes started in this directory
    NoOwner,     \* no endpoint file exists
    Crashed,     \* the endpoint file of a server that died before the run
    MaxHandles   \* handles a server hands out; one per other launcher suffices

ASSUME NoOwner \notin Launchers /\ Crashed \notin Launchers
ASSUME MaxHandles \in Nat /\ MaxHandles >= Cardinality(Launchers) - 1

VARIABLES
    pc,            \* where each editor process is
    endpoint,      \* the server whose socket is bound at session_socket
    serverOf,      \* the server a client process connected to
    handle,        \* the handle the server accepted a client's connection as
    link,          \* the state of a client process's connection
    conns,         \* per server: the handles of its open connections
    remotes,       \* per server: ClientCollection.remotes, TRUE for Some
    bufs,          \* per server: remote_bufs.len()
    localTarget,   \* per server: ClientTargetMap.local_target
    remoteTargets, \* per server: ClientTargetMap.remote_targets
    disturbed      \* ghost: another process changed the endpoint mid-run

vars == <<pc, endpoint, serverOf, handle, link, conns, remotes, bufs,
          localTarget, remoteTargets, disturbed>>
serverVars == <<conns, remotes, bufs, localTarget, remoteTargets>>

Handles == 0..(MaxHandles - 1)
NoTarget == -1
Targets == 0..MaxHandles
NoHandle == -1

\* ConnectionWithClientHandle::from_index and TargetClient::into_index.
Remote(h) == h + 1
Local == 0

\* A server whose socket accepts connections: it bound the endpoint and
\* its event loop runs.
Serving(s) == s \in Launchers /\ pc[s] = "server"

Init ==
    /\ pc = [l \in Launchers |-> "start"]
    /\ endpoint \in {NoOwner, Crashed}
    /\ serverOf = [l \in Launchers |-> NoOwner]
    /\ handle = [l \in Launchers |-> NoHandle]
    /\ link = [l \in Launchers |-> "none"]
    /\ conns = [l \in Launchers |-> {}]
    /\ remotes = [l \in Launchers |-> <<>>]
    /\ bufs = [l \in Launchers |-> 0]
    /\ localTarget = [l \in Launchers |-> NoTarget]
    /\ remoteTargets = [l \in Launchers |-> <<>>]
    /\ disturbed = [l \in Launchers |-> FALSE]

\* Process l binds or removes the endpoint: every other process between
\* its failed connect and its last discovery step sees the change.
Touch(l) ==
    disturbed' = [m \in Launchers |->
                    disturbed[m] \/ (m # l /\ pc[m] \in {"listen", "remove", "relisten"})]

\* ConnectionWithClientCollection::listen succeeded: run_server_with_client
\* starts with a new Editor and empty collections.
Bind(l) ==
    /\ endpoint' = l
    /\ pc' = [pc EXCEPT ![l] = "server"]
    /\ Touch(l)
    /\ UNCHANGED <<serverOf, handle, link, serverVars>>

(***************************************************************************)
(* run, line 77: ConnectionWithServer::connect succeeds when a server      *)
(* listens on the endpoint; the process runs run_client.  Otherwise it    *)
(* goes on to listen.                                                      *)
(***************************************************************************)
Connect(l) ==
    /\ pc[l] = "start"
    /\ IF Serving(endpoint)
          THEN /\ pc' = [pc EXCEPT ![l] = "client"]
               /\ serverOf' = [serverOf EXCEPT ![l] = endpoint]
               /\ link' = [link EXCEPT ![l] = "up"]
          ELSE /\ pc' = [pc EXCEPT ![l] = "listen"]
               /\ UNCHANGED <<serverOf, link>>
    /\ UNCHANGED <<endpoint, handle, serverVars, disturbed>>

\* run, line 79: listen binds the endpoint unless a file is there.
Listen(l) ==
    /\ pc[l] = "listen"
    /\ IF endpoint = NoOwner
          THEN Bind(l)
          ELSE /\ pc' = [pc EXCEPT ![l] = "remove"]
               /\ UNCHANGED <<endpoint, serverOf, handle, link, serverVars, disturbed>>

\* Mutant: no stale-endpoint recovery; a failed listen gives up.
RemoveGiveUp(l) ==
    /\ pc[l] = "remove"
    /\ pc' = [pc EXCEPT ![l] = "failed"]
    /\ UNCHANGED <<endpoint, disturbed, serverOf, handle, link, serverVars>>

(***************************************************************************)
(* run, line 82: fs::remove_file deletes whatever file is at the path,     *)
(* stale or bound by a running server; if none is there the launch gives  *)
(* up with CouldNotConnectToOrStartServer (line 87).                       *)
(***************************************************************************)
Remove(l) ==
    /\ pc[l] = "remove"
    /\ IF endpoint # NoOwner
          THEN /\ endpoint' = NoOwner
               /\ pc' = [pc EXCEPT ![l] = "relisten"]
               /\ Touch(l)
          ELSE /\ pc' = [pc EXCEPT ![l] = "failed"]
               /\ UNCHANGED <<endpoint, disturbed>>
    /\ UNCHANGED <<serverOf, handle, link, serverVars>>

\* run, line 83: the second listen; its error is returned through `?`.
Relisten(l) ==
    /\ pc[l] = "relisten"
    /\ IF endpoint = NoOwner
          THEN Bind(l)
          ELSE /\ pc' = [pc EXCEPT ![l] = "bindError"]
               /\ UNCHANGED <<endpoint, serverOf, handle, link, serverVars, disturbed>>

-----------------------------------------------------------------------------
(* ClientCollection and ClientTargetMap (src/src/client.rs).               *)

\* Vec::resize_with(min_len, f) when min_len > len: pad with x.
Grow(v, n, x) == IF n > Len(v) THEN v \o [i \in 1..(n - Len(v)) |-> x] ELSE v

\* Mutant: remote_bufs is resized one past the slot.
ClientsJoinedPastEnd(s, h) ==
    /\ remotes' = [remotes EXCEPT ![s] = [Grow(@, h + 1, FALSE) EXCEPT ![h + 1] = TRUE]]
    /\ bufs' = [bufs EXCEPT ![s] = IF h + 2 > @ THEN h + 2 ELSE @]

\* ClientCollection::on_client_joined: slot h gets a default client.
ClientsJoined(s, h) ==
    /\ remotes' = [remotes EXCEPT ![s] = [Grow(@, h + 1, FALSE) EXCEPT ![h + 1] = TRUE]]
    /\ bufs' = [bufs EXCEPT ![s] = IF h + 1 > @ THEN h + 1 ELSE @]

\* ClientTargetMap::on_client_joined: remote_targets grows to cover h.
TargetsJoined(s, h) ==
    remoteTargets' = [remoteTargets EXCEPT ![s] = Grow(@, h + 1, NoTarget)]

\* Mutant: the slot keeps its client.
ClientsLeftKeep(s, h) == UNCHANGED <<remotes, bufs>>

\* ClientCollection::on_client_left: slot h is emptied (its buffer cleared).
ClientsLeft(s, h) ==
    /\ remotes' = [remotes EXCEPT ![s][h + 1] = FALSE]
    /\ UNCHANGED bufs

\* Mutant: only the departed client's own entry and the local target are reset.
TargetsLeftNoPurge(s, h) ==
    /\ localTarget' = [localTarget EXCEPT ![s] = IF @ = Remote(h) THEN NoTarget ELSE @]
    /\ remoteTargets' = [remoteTargets EXCEPT ![s][h + 1] = NoTarget]

(***************************************************************************)
(* ClientTargetMap::on_client_left: the local target and h's own entry are *)
(* reset if they name h, and so is every entry that maps to h.            *)
(***************************************************************************)
TargetsLeft(s, h) ==
    /\ localTarget' = [localTarget EXCEPT ![s] = IF @ = Remote(h) THEN NoTarget ELSE @]
    /\ remoteTargets' =
          [remoteTargets EXCEPT ![s] =
             [i \in DOMAIN @ |-> IF i = h + 1 \/ @[i] = Remote(h) THEN NoTarget ELSE @[i]]]

(***************************************************************************)
(* ClientTargetMap::map: `to` is kept if it is Local or a handle within    *)
(* remote_targets, else None is stored; `from` selects the entry.          *)
(***************************************************************************)
MapTarget(s, from, to) ==
    LET t == IF to = Local \/ to - 1 < Len(remoteTargets[s]) THEN to ELSE NoTarget
    IN IF from = Local
          THEN /\ localTarget' = [localTarget EXCEPT ![s] = t]
               /\ UNCHANGED remoteTargets
          ELSE /\ remoteTargets' = [remoteTargets EXCEPT ![s][from] = t]
               /\ UNCHANGED localTarget

-----------------------------------------------------------------------------
(* run_server_with_client and run_client (src/src/application.rs).         *)

(***************************************************************************)
(* ConnectionWithClientCollection::accept_connection hands out the lowest *)
(* handle no open connection holds, reusing those closed connections      *)
(* freed.                                                                  *)
(***************************************************************************)
FreeHandle(s) ==
    CHOOSE h \in Handles \ conns[s] : \A g \in Handles \ conns[s] : h <= g

(***************************************************************************)
(* The server's socket is closed: connections it had accepted or not yet  *)
(* accepted are seen closed by their clients; those the client had closed *)
(* are gone.                                                               *)
(***************************************************************************)
CloseAll(s) ==
    /\ link' = [c \in Launchers |->
                  CASE serverOf[c] # s            -> link[c]
                    [] link[c] = "up"             -> "serverClosed"
                    [] link[c] = "clientClosed"   -> "none"
                    [] OTHER                      -> link[c]]
    /\ conns' = [conns EXCEPT ![s] = {}]

(***************************************************************************)
(* ConnectionEvent::NewConnection (lines 188-196): the connection is      *)
(* accepted, and editor.on_client_joined gives its handle a client and a  *)
(* target entry.                                                           *)
(***************************************************************************)
Accept(s, c) ==
    /\ Serving(s)
    /\ serverOf[c] = s /\ handle[c] = NoHandle
    /\ link[c] \in {"up", "clientClosed"}
    /\ Handles \ conns[s] # {}
    /\ LET h == FreeHandle(s) IN
       /\ handle' = [handle EXCEPT ![c] = h]
       /\ conns' = [conns EXCEPT ![s] = @ \cup {h}]
       /\ ClientsJoined(s, h)
       /\ TargetsJoined(s, h)
    /\ UNCHANGED <<pc, endpoint, serverOf, link, localTarget, disturbed>>

(***************************************************************************)
(* ConnectionEvent::Stream ending the client (lines 211-214): receive_keys *)
(* fails because the client closed its end, or the client's keys make the *)
(* editor return Quit for it.  close_connection frees the handle and       *)
(* editor.on_client_left clears the client and the targets naming it.     *)
(***************************************************************************)
Depart(s, c) ==
    /\ Serving(s)
    /\ serverOf[c] = s /\ handle[c] # NoHandle
    /\ link[c] \in {"up", "clientClosed"}
    /\ LET h == handle[c] IN
       /\ conns' = [conns EXCEPT ![s] = @ \ {h}]
       /\ ClientsLeft(s, h)
       /\ TargetsLeft(s, h)
    /\ handle' = [handle EXCEPT ![c] = NoHandle]
    /\ link' = [link EXCEPT ![c] = IF @ = "up" THEN "serverClosed" ELSE "none"]
    /\ UNCHANGED <<pc, endpoint, serverOf, disturbed>>

\* A key of client c, or of the server's own UI, makes the editor map its
\* target (ClientTargetMap::map with the sender as `from`).
RemoteMap(s, c, to) ==
    /\ Serving(s)
    /\ serverOf[c] = s /\ handle[c] # NoHandle /\ link[c] = "up"
    /\ MapTarget(s, Remote(handle[c]), to)
    /\ UNCHANGED <<pc, endpoint, serverOf, handle, link, conns, remotes, bufs, disturbed>>

LocalMap(s, to) ==
    /\ Serving(s)
    /\ MapTarget(s, Local, to)
    /\ UNCHANGED <<pc, endpoint, serverOf, handle, link, conns, remotes, bufs, disturbed>>

\* A local key returns EditorLoop::Quit: break 'main_loop, then
\* close_all_connections (lines 153, 253-258).
ServerQuit(s) ==
    /\ Serving(s)
    /\ pc' = [pc EXCEPT ![s] = "exiting"]
    /\ CloseAll(s)
    /\ UNCHANGED <<endpoint, serverOf, handle, remotes, bufs, localTarget, remoteTargets, disturbed>>

(***************************************************************************)
(* A `?` in the loop fails (ui.draw at line 249, listen_next_* or         *)
(* receive_spawn_output): run_server_with_client returns the error, the   *)
(* connections are dropped, and run returns before its remove_file: the   *)
(* endpoint stays behind, stale.                                           *)
(***************************************************************************)
ServerFails(s) ==
    /\ Serving(s)
    /\ pc' = [pc EXCEPT ![s] = "error"]
    /\ CloseAll(s)
    /\ UNCHANGED <<endpoint, serverOf, handle, remotes, bufs, localTarget, remoteTargets, disturbed>>

(***************************************************************************)
(* run, line 81 (or 85): after a clean exit, fs::remove_file deletes the  *)
(* file at the path, whichever server bound it; its error is returned.    *)
(***************************************************************************)
RemoveOnExit(s) ==
    /\ pc[s] = "exiting"
    /\ IF endpoint # NoOwner
          THEN /\ endpoint' = NoOwner
               /\ pc' = [pc EXCEPT ![s] = "done"]
               /\ Touch(s)
          ELSE /\ pc' = [pc EXCEPT ![s] = "error"]
               /\ UNCHANGED <<endpoint, disturbed>>
    /\ UNCHANGED <<serverOf, handle, link, serverVars>>

\* Mutant: a None from receive_operations is taken as no response.
ClientSeesCloseStay(c) ==
    /\ pc[c] = "client" /\ link[c] = "serverClosed"
    /\ link' = [link EXCEPT ![c] = "none"]
    /\ UNCHANGED <<pc, endpoint, serverOf, handle, serverVars, disturbed>>

\* run_client: receive_operations gives None, or a send fails, once the
\* server closed the connection; the loop breaks and run returns Ok.
ClientSeesClose(c) ==
    /\ pc[c] = "client" /\ link[c] = "serverClosed"
    /\ pc' = [pc EXCEPT ![c] = "done"]
    /\ link' = [link EXCEPT ![c] = "none"]
    /\ UNCHANGED <<endpoint, serverOf, handle, serverVars, disturbed>>

\* run_client: a `?` fails (ui.draw, ui.resize, listen_next_event) and the
\* process ends, closing its end of the connection.
ClientFails(c) ==
    /\ pc[c] = "client" /\ link[c] = "up"
    /\ pc' = [pc EXCEPT ![c] = "error"]
    /\ link' = [link EXCEPT ![c] = "clientClosed"]
    /\ UNCHANGED <<endpoint, serverOf, handle, serverVars, disturbed>>

Next ==
    \/ \E l \in Launchers : Connect(l) \/ Listen(l) \/ Remove(l) \/ Relisten(l)
    \/ \E s, c \in Launchers : Accept(s, c) \/ Depart(s, c)
    \/ \E s, c \in Launchers, to \in Targets : RemoteMap(s, c, to)
    \/ \E s \in Launchers, to \in Targets : LocalMap(s, to)
    \/ \E s \in Launchers : ServerQuit(s) \/ ServerFails(s) \/ RemoveOnExit(s)
    \/ \E c \in Launchers : ClientSeesClose(c) \/ ClientFails(c)

(***************************************************************************)
(* The steps of a running process are fair: the discovery steps of run,   *)
(* the server's handling of new connections and of connections its client *)
(* closed, the removal after a clean exit, and a client noticing its      *)
(* server gone.  Launches, quits, errors and key presses are not.         *)
(***************************************************************************)
Fairness ==
    /\ \A l \in Launchers : WF_vars(Listen(l) \/ Remove(l) \/ Relisten(l))
    /\ \A s, c \in Launchers : WF_vars(Accept(s, c))
    /\ \A s, c \in Launchers : WF_vars(link[c] = "clientClosed" /\ Depart(s, c))
    /\ \A l \in Launchers : WF_vars(RemoveOnExit(l) \/ ClientSeesClose(l))

Spec == Init /\ [][Next]_vars /\ Fairness

-----------------------------------------------------------------------------

TypeOK ==
    /\ pc \in [Launchers -> {"start", "listen", "remove", "relisten", "server", "exiting",
                             "client", "done", "failed", "bindError", "error"}]
    /\ endpoint \in Launchers \cup {NoOwner, Crashed}
    /\ serverOf \in [Launchers -> Launchers \cup {NoOwner}]
    /\ handle \in [Launchers -> Handles \cup {NoHandle}]
    /\ link \in [Launchers -> {"none", "up", "clientClosed", "serverClosed"}]
    /\ conns \in [Launchers -> SUBSET Handles]
    /\ remotes \in [Launchers -> Seq(BOOLEAN)]
    /\ bufs \in [Launchers -> 0..MaxHandles]
    /\ localTarget \in [Launchers -> Targets \cup {NoTarget}]
    /\ remoteTargets \in [Launchers -> Seq(Targets \cup {NoTarget})]
    /\ disturbed \in [Launchers -> BOOLEAN]

\* The clients of server s its event loop has accepted and not yet let go.
Accepted(s) == {c \in Launchers : serverOf[c] = s /\ handle[c] # NoHandle}

(***************************************************************************)
(* While a server runs, its ClientCollection holds a client exactly for   *)
(* the handles of its open connections, each the handle of one accepted   *)
(* client, and remote_bufs and the ClientTargetMap reach every such       *)
(* handle: joins, departures and the reuse of freed handles by            *)
(* accept_connection keep the three structures in step, so get, get_mut   *)
(* and map never index past them.                                          *)
(***************************************************************************)
SlotsMatchConnections ==
    \A s \in Launchers : Serving(s) =>
       /\ {h \in Handles : h < Len(remotes[s]) /\ remotes[s][h + 1]} = conns[s]
       /\ conns[s] = {handle[c] : c \in Accepted(s)}
       /\ Cardinality(conns[s]) = Cardinality(Accepted(s))
       /\ \A h \in conns[s] : h < bufs[s] /\ h < Len(remoteTargets[s])

\* The targets of server s that name a remote client, as handles.
TargetedHandles(s) ==
    {t - 1 : t \in ({localTarget[s]} \cup
                    {remoteTargets[s][i] : i \in DOMAIN remoteTargets[s]}) \ {NoTarget, Local}}

(***************************************************************************)
(* When the server lets a client go (on_client_left after a Quit or a     *)
(* failed read), no target of the server names that client any more, nor  *)
(* can its own entry carry a target over to the next client given its     *)
(* handle.                                                                 *)
(***************************************************************************)
PurgedOnLeave ==
    [][\A s \in Launchers, h \in Handles :
          (Serving(s) /\ h \in conns[s] /\ h \notin conns'[s] /\ Serving(s)')
             => /\ h \notin TargetedHandles(s)'
                /\ h + 1 \in DOMAIN remoteTargets'[s] => remoteTargets'[s][h + 1] = NoTarget]_vars

(***************************************************************************)
(* A launch gives up (CouldNotConnectToOrStartServer) or fails to bind    *)
(* after removing a stale endpoint only if another editor bound or        *)
(* removed the endpoint while it was between its connect and that step:   *)
(* alone, run always ends as a client or the server, whatever endpoint a  *)
(* crashed or failed server left behind.                                   *)
(***************************************************************************)
FailsOnlyInRace ==
    \A l \in Launchers : pc[l] \in {"failed", "bindError"} => disturbed[l]

(***************************************************************************)
(* A client process whose server stopped, on a quit or an error, ends:    *)
(* the server's connections close with it and run_client leaves its loop. *)
(***************************************************************************)
ClientsFollowServer ==
    \A c \in Launchers :
       (pc[c] = "client" /\ ~Serving(serverOf[c])) ~> pc[c] \in {"done", "error"}

=============================================================================
