--------------------------- MODULE SessionStreams ---------------------------
(***************************************************************************)
(* Streams over the connection of one node's agent: shells in the browser  *)
(* and proxied HTTP responses (cluster/registry.go, grpcserver.go,         *)
(* exec_handler.go, proxy.go, tunnel_transport.go).  Each connection is a  *)
(* session with a reader of its own; the newest is the registered one.     *)
(* The reader looks a stream up under the session's lock and sends to its  *)
(* channel outside of it, while the stream's handler, or the connection    *)
(* that replaces the session, may close the channel.                       *)
(*                                                                         *)
(* An answer is the chunks 1 .. Length(r), the last of which is its end; 0 *)
(* stands for an error at the agent.                                       *)
(***************************************************************************)
EXTENDS Naturals, Sequences, FiniteSets

CONSTANTS Shells,       \* shells asked for
          Fetches,      \* HTTP requests to instances
          ShellChunks,  \* bound: messages of which a shell's answer consists
          FetchChunks,  \* bound: messages of which a response consists
          Buffer,       \* capacity of a stream's channel
          MaxShells,    \* execMaxConcurrentPerSession
          MaxFetches,   \* proxyMaxConcurrentPerSession
          MaxSessions,  \* bound: connections of the agent
          MaxInTransit  \* bound: messages on their way up

ASSUME StreamAssumption ==
    /\ {ShellChunks, FetchChunks, Buffer, MaxSessions} \subseteq Nat \ {0}
    /\ Shells \cap Fetches = {}

VARIABLES link,        \* the agent's connection, 0 if it has none
          registered,  \* the session the registry has for the provider, or 0
          readers,     \* readers[n]: what the goroutine of connection n is at
          closed,      \* sessions that are marked dead
          transit,     \* transit[n]: what connection n carries up
          channel,     \* channel[r]: the stream of request r
          request,     \* request[r]: its handler, and what its customer has seen
          answer,      \* answer[r]: how far the agent has come
          panicked     \* a send on a closed channel has ended the process

streamVars == <<link, registered, readers, closed, transit, channel, request, answer, panicked>>

Streams == Shells \cup Fetches
Sessions == 1 .. MaxSessions

Length(r) == IF r \in Shells THEN ShellChunks ELSE FetchChunks

NoStream   == [session |-> 0, listed |-> FALSE, open |-> FALSE, buffer |-> <<>>]
NotAsked   == [pc |-> "idle", session |-> 0, shown |-> <<>>, outcome |-> "none"]
NotStarted == [on |-> 0, next |-> 1]

StreamsInit ==
    /\ link = 0 /\ registered = 0
    /\ readers = [n \in Sessions |-> [pc |-> "none"]]
    /\ closed = {}
    /\ transit = [n \in Sessions |-> <<>>]
    /\ channel = [r \in Streams |-> NoStream]
    /\ request = [r \in Streams |-> NotAsked]
    /\ answer = [r \in Streams |-> NotStarted]
    /\ panicked = FALSE

ReaderAt(n, pc) == readers[n].pc = pc
ReaderGoes(n, pc) == readers' = [readers EXCEPT ![n] = [pc |-> pc]]

----------------------------------------------------------------------------
(* Connections.                                                            *)

\* AgentSession.Close, which marks the session dead once.
EndSession(n) ==
    /\ closed' = closed \cup {n}
    /\ channel' = [r \in Streams |->
                     IF n \notin closed /\ channel[r].listed /\ channel[r].session = n
                       THEN [channel[r] EXCEPT !.listed = FALSE, !.open = FALSE]
                       ELSE channel[r]]

\* Connect and Registry.Add: the new session replaces the provider's old one.
AddSession(n) ==
    /\ link = 0 /\ ReaderAt(n, "none") /\ \A m \in Sessions : m < n => ~ReaderAt(m, "none")
    /\ link' = n /\ registered' = n
    /\ readers' = [readers EXCEPT ![n] = IF registered = 0 THEN [pc |-> "recv"]
                                         ELSE [pc |-> "replacing", old |-> registered]]
    /\ UNCHANGED <<closed, transit, channel, request, answer, panicked>>

\* Add then closes the session it has replaced, from the new one's goroutine.
CloseReplaced(n) ==
    /\ ReaderAt(n, "replacing")
    /\ EndSession(readers[n].old)
    /\ ReaderGoes(n, "recv")
    /\ UNCHANGED <<link, registered, transit, request, answer, panicked>>

\* The connection breaks; the agent notices first.
Disconnect ==
    /\ link # 0
    /\ link' = 0
    /\ UNCHANGED <<registered, readers, closed, transit, channel, request, answer, panicked>>

\* stream.Recv fails; Registry.Remove first drops the session from the
\* registry, if it is still the one registered.
RecvFails(n) ==
    /\ ReaderAt(n, "recv") /\ link # n
    /\ registered' = IF registered = n THEN 0 ELSE registered
    /\ ReaderGoes(n, "removed")
    /\ UNCHANGED <<link, closed, transit, channel, request, answer, panicked>>

\* Remove then closes the session, and Connect returns.
CloseRemoved(n) ==
    /\ ReaderAt(n, "removed")
    /\ EndSession(n)
    /\ ReaderGoes(n, "gone")
    /\ UNCHANGED <<link, registered, transit, request, answer, panicked>>

----------------------------------------------------------------------------
(* Handlers of requests.                                                   *)

HandlerAt(r, pc) == request[r].pc = pc
HandlerGoes(r, pc) == request' = [request EXCEPT ![r].pc = pc]
HandlerEnds(r, outcome) == request' = [request EXCEPT ![r].pc = "ending", ![r].outcome = outcome]

InFlight(requests) == {r \in requests : ~HandlerAt(r, "idle") /\ ~HandlerAt(r, "done")}

\* ServeInstance, RoundTrip: a slot of the provider's is taken.
AskFor(r) ==
    /\ HandlerAt(r, "idle") /\ registered # 0
    /\ IF r \in Shells THEN Cardinality(InFlight(Shells)) < MaxShells
                       ELSE Cardinality(InFlight(Fetches)) < MaxFetches
    /\ request' = [request EXCEPT ![r].pc = "resolved", ![r].session = registered]
    /\ UNCHANGED <<link, registered, readers, closed, transit, channel, answer, panicked>>

\* openExecStream, openProxyStream: they do not ask whether the session is dead.
OpenStream(r) ==
    /\ HandlerAt(r, "resolved")
    /\ channel' = [channel EXCEPT ![r] = [session |-> request[r].session, listed |-> TRUE,
                                          open |-> TRUE, buffer |-> <<>>]]
    /\ HandlerGoes(r, "opened")
    /\ UNCHANGED <<link, registered, readers, closed, transit, answer, panicked>>

\* The request is sent down; on a connection just lost that may go unnoticed,
\* until its reader has gone.
SendRequest(r) ==
    LET n == request[r].session IN
    /\ HandlerAt(r, "opened")
    /\ \/ /\ link = n
          /\ answer' = [answer EXCEPT ![r].on = n]
          /\ HandlerGoes(r, "relaying")
       \/ /\ link # n /\ UNCHANGED answer
          /\ \/ ~ReaderAt(n, "gone") /\ HandlerGoes(r, "relaying")
             \/ HandlerEnds(r, "offline")
    /\ UNCHANGED <<link, registered, readers, closed, transit, channel, panicked>>

\* The handler takes what the channel holds, and learns that it is closed only
\* when it is empty.
Relay(r) ==
    /\ HandlerAt(r, "relaying")
    /\ IF channel[r].buffer # <<>>
         THEN LET chunk == Head(channel[r].buffer) IN
              /\ channel' = [channel EXCEPT ![r].buffer = Tail(@)]
              /\ request' = [request EXCEPT
                    ![r].shown = IF chunk = 0 THEN @ ELSE Append(@, chunk),
                    ![r].pc = IF chunk \in {0, Length(r)} THEN "ending" ELSE @,
                    ![r].outcome = CASE chunk = Length(r) -> "complete"
                                     [] chunk = 0      -> "failed"
                                     [] OTHER          -> @]
         ELSE /\ ~channel[r].open
              /\ HandlerEnds(r, "unreachable")
              /\ UNCHANGED channel
    /\ UNCHANGED <<link, registered, readers, closed, transit, answer, panicked>>

\* The customer leaves, or a limit on the whole, on attaching or on silence ends.
Leave(r) ==
    /\ HandlerAt(r, "relaying")
    /\ HandlerEnds(r, "left")
    /\ UNCHANGED <<link, registered, readers, closed, transit, channel, answer, panicked>>

\* A shell is cancelled at the agent as its handler returns.
Cancel(r) ==
    /\ HandlerAt(r, "ending")
    /\ HandlerGoes(r, "closing")
    /\ answer' = IF r \in Shells /\ link = request[r].session
                   THEN [answer EXCEPT ![r].next = Length(r) + 1] ELSE answer
    /\ UNCHANGED <<link, registered, readers, closed, transit, channel, panicked>>

\* closeExecStream closes the channel; closeProxyStream only forgets it.
CloseStream(r) ==
    /\ HandlerAt(r, "closing")
    /\ channel' = IF ~channel[r].listed THEN channel
                  ELSE IF r \in Shells THEN [channel EXCEPT ![r].listed = FALSE, ![r].open = FALSE]
                  ELSE [channel EXCEPT ![r].listed = FALSE]
    /\ HandlerGoes(r, "done")
    /\ UNCHANGED <<link, registered, readers, closed, transit, answer, panicked>>

----------------------------------------------------------------------------
(* The agent, and what its connection's reader does with its messages.     *)

\* The next chunk goes up, or an error that ends the answer.
AnswerChunk(r) ==
    /\ link # 0 /\ answer[r].on = link /\ answer[r].next <= Length(r)
    /\ Len(transit[link]) < MaxInTransit
    /\ \E chunk \in {answer[r].next, 0} :
         /\ transit' = [transit EXCEPT ![link] = Append(@, [request |-> r, chunk |-> chunk])]
         /\ answer' = [answer EXCEPT ![r].next = IF chunk = 0 THEN Length(r) + 1 ELSE @ + 1]
    /\ UNCHANGED <<link, registered, readers, closed, channel, request, panicked>>

\* The stream is looked up under the lock; a message for no stream is dropped.
LookUpStream(n) ==
    /\ ReaderAt(n, "recv") /\ transit[n] # <<>>
    /\ transit' = [transit EXCEPT ![n] = Tail(@)]
    /\ LET message == Head(transit[n])
           stream  == channel[message.request]
       IN  readers' = IF stream.listed /\ stream.session = n
                        THEN [readers EXCEPT ![n] = [pc |-> "delivering", request |-> message.request,
                                                     chunk |-> message.chunk]]
                        ELSE readers
    /\ UNCHANGED <<link, registered, closed, channel, request, answer, panicked>>

\* Without the lock, the message is sent to the channel; one that has been
\* closed meanwhile ends the process.
DeliverEvent(n) ==
    /\ ReaderAt(n, "delivering")
    /\ LET r == readers[n].request IN
       IF channel[r].open
         THEN /\ Len(channel[r].buffer) < Buffer
              /\ channel' = [channel EXCEPT ![r].buffer = Append(@, readers[n].chunk)]
              /\ ReaderGoes(n, "recv")
              /\ UNCHANGED panicked
         ELSE panicked' = TRUE /\ UNCHANGED <<channel, readers>>
    /\ UNCHANGED <<link, registered, closed, transit, request, answer>>

\* Mutant of Stalls: the message is dropped, for shells too.
StallsSilently(n) ==
    /\ ReaderAt(n, "delivering")
    /\ LET r == readers[n].request IN
       /\ channel[r].open /\ Len(channel[r].buffer) = Buffer
       /\ UNCHANGED channel
    /\ ReaderGoes(n, "recv")
    /\ UNCHANGED <<link, registered, closed, transit, request, answer, panicked>>

\* The channel stays full for five seconds: a shell is closed, a chunk of a
\* response is dropped.
Stalls(n) ==
    /\ ReaderAt(n, "delivering")
    /\ LET r == readers[n].request IN
       /\ channel[r].open /\ Len(channel[r].buffer) = Buffer
       /\ channel' = IF r \in Shells /\ channel[r].listed
                       THEN [channel EXCEPT ![r].listed = FALSE, ![r].open = FALSE]
                       ELSE channel
    /\ ReaderGoes(n, "recv")
    /\ UNCHANGED <<link, registered, closed, transit, request, answer, panicked>>

----------------------------------------------------------------------------
StreamsNext ==
    /\ ~panicked
    /\ \/ Disconnect
       \/ \E n \in Sessions :
            \/ AddSession(n) \/ CloseReplaced(n) \/ RecvFails(n) \/ CloseRemoved(n)
            \/ LookUpStream(n) \/ DeliverEvent(n) \/ Stalls(n)
       \/ \E r \in Streams :
            \/ AskFor(r) \/ OpenStream(r) \/ SendRequest(r) \/ Relay(r) \/ Leave(r)
            \/ Cancel(r) \/ CloseStream(r) \/ AnswerChunk(r)

StreamsSpec == StreamsInit /\ [][StreamsNext]_streamVars

----------------------------------------------------------------------------
(* What should hold.                                                       *)

\* A terminal shows what the shell has written from its start and without a
\* gap, and says that the shell has exited only when it has shown it all: "a
\* silently dropped chunk is a lie the customer cannot detect" (registry.go:319-322).
TerminalShowsAll == \A r \in Shells :
    /\ request[r].shown = [i \in 1 .. Len(request[r].shown) |-> i]
    /\ request[r].outcome = "complete" => Len(request[r].shown) = Length(r)

\* A connected agent is the one requests are sent to: the end of an older
\* connection does not take it from the registry (registry.go:478-480).
ConnectedIsRegistered == link # 0 => registered = link

\* Neither a slow reader nor a reconnect makes a terminal lie or a node vanish.
StreamsSound == TerminalShowsAll /\ ConnectedIsRegistered

\* The control plane outlives what one agent or one customer does: "a provider
\* rebooting a node must not affect another provider's customers"
\* (registry.go:442-444).
NeverPanics == ~panicked
=============================================================================
