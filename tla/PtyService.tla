----------------------------- MODULE PtyService -----------------------------
(***************************************************************************)
(* src/opencodehx/pty/PtyService.hx and the /pty routes: terminals, their  *)
(* output with its bounded buffer, and the sockets that follow it.         *)
(*                                                                         *)
(* The output of a terminal is its positions 1, 2, ...; a buffer holds     *)
(* some of them.  A connection is known by a key (socketKey: the identity  *)
(* of ws.data, else of the socket); hosts that recycle socket objects give *)
(* an object the key of another connection.  A request of a connection     *)
(* without a cursor is one with cursor 0.                                  *)
(***************************************************************************)
EXTENDS Integers, Sequences, FiniteSets, SequencesExt, Selection

CONSTANTS MaxTerminals,  (* bound on the terminals created                 *)
          MaxSockets,    (* bound on the socket objects                    *)
          MaxKeys,       (* bound on the connections ever made             *)
          MaxOutput,     (* bound on what all terminals write              *)
          Chunks,        (* the lengths output comes in                    *)
          Cursors,       (* the cursors asked for                          *)
          BufferLimit,   (* BUFFER_LIMIT                                   *)
          IntLimit       (* 2^31: Std.int yields a 32 bit integer          *)

FromEnd == -1

ASSUME PtyAssumption ==
  /\ MaxTerminals \in Nat /\ MaxSockets \in Nat /\ MaxOutput \in Nat
  /\ MaxKeys \in Nat /\ MaxKeys >= MaxSockets
  /\ Chunks \subseteq Nat \ {0}
  /\ Cursors \subseteq Nat \cup {FromEnd}
  /\ BufferLimit \in Nat \ {0} /\ IntLimit \in Nat \ {0}

Terminals == 1 .. MaxTerminals

Sockets == 1 .. MaxSockets

Keys == 1 .. MaxKeys

VARIABLES sessions,     (* the ids of the terminals that can be found      *)
          pty,          (* what the closures of each terminal hold         *)
          process,      (* none, running, or gone: onExit was called       *)
          events,       (* created, exited, deleted                        *)
          socket,       (* readyState = 1, and the key, of each socket     *)
          nextKey,
          handlers,     (* the onClose callbacks connections still have    *)
          client        (* the client of each key: the terminal it         *)
                        (* follows (it was connected to it and neither     *)
                        (* side has ended that since; 0: none), the cursor *)
                        (* it asked for, the one it was sent, and what it  *)
                        (* got since                                       *)

ptyVars == <<sessions, pty, process, events, socket, nextKey, handlers, client>>

NoClient == [of |-> 0, asked |-> 0, end |-> 0, got |-> <<>>]

NoPty == [status |-> "none", cursor |-> 0, buffer |-> <<>>, bufferCursor |-> 0,
          subscribers |-> <<>>]

AtLeast(a, b) == IF a >= b THEN a ELSE b

Int32(x) == ((x + IntLimit) % (2 * IntLimit)) - IntLimit

(* PtyService.create: ids are given in order.                              *)
Create(t) ==
  /\ process[t] = "none"
  /\ \A u \in Terminals : u < t => process[u] # "none"
  /\ sessions' = sessions \cup {t}
  /\ process' = [process EXCEPT ![t] = "running"]
  /\ pty' = [pty EXCEPT ![t].status = "running"]
  /\ events' = [events EXCEPT ![t] = Append(@, "created")]
  /\ UNCHANGED <<socket, nextKey, handlers, client>>

IsOpen(x) == socket[x.socket].open

SameKey(x) == socket[x.socket].key = x.key

-----------------------------------------------------------------------------
(* Output.                                                                 *)

(* The subscribers a chunk reaches, bad being the sockets whose send       *)
(* throws; the others are dropped from the list.  ReachedAny, and below    *)
(* OnExitAgain, are forms a defect would give, for the mutation checks     *)
(* only.                                                                   *)
ReachedAny(t, bad) ==
  Selected(pty[t].subscribers,
           {x \in ToSet(pty[t].subscribers) : IsOpen(x) /\ x.socket \notin bad})

Reached(t, bad) ==
  Selected(pty[t].subscribers,
           {x \in ToSet(pty[t].subscribers) : IsOpen(x) /\ SameKey(x) /\ x.socket \notin bad})

Positions(p, n) == [i \in 1 .. n |-> p + i]

(* The cursor, the buffer and its first position after a chunk.            *)
Buffered(p, n) ==
  LET all == p.buffer \o Positions(p.cursor, n)
      excess == AtLeast(0, Len(all) - BufferLimit)
  IN  [cursor |-> p.cursor + n, buffer |-> SubSeq(all, excess + 1, Len(all)),
       bufferCursor |-> p.bufferCursor + excess]

(* What the connection k gets of it: once for every socket that has its    *)
(* key and is reached.                                                     *)
Arrived(t, n, k, reached) ==
  LET times == Cardinality({i \in DOMAIN reached : socket[reached[i].socket].key = k})
  IN  [i \in 1 .. times * n |-> <<t, pty[t].cursor + ((i - 1) % n) + 1>>]

(* onData; it may also come after the exit or the removal of the terminal. *)
OnData(t, n, bad) ==
  LET reached == Reached(t, bad)
      failed == {x \in ToSet(pty[t].subscribers) : IsOpen(x) /\ SameKey(x) /\ x.socket \in bad}
  IN  /\ process[t] # "none"
      /\ pty' = [pty EXCEPT ![t] =
                   [@ EXCEPT !.subscribers = reached,
                             !.cursor = Buffered(pty[t], n).cursor,
                             !.buffer = Buffered(pty[t], n).buffer,
                             !.bufferCursor = Buffered(pty[t], n).bufferCursor]]
      /\ client' = [k \in Keys |->
                      IF \E x \in failed : x.key = k THEN NoClient
                      ELSE [client[k] EXCEPT !.got = @ \o Arrived(t, n, k, reached)]]
      /\ UNCHANGED <<sessions, process, events, socket, nextKey, handlers>>

-----------------------------------------------------------------------------
(* Connections.                                                            *)

Without(subscribers, k) == Selected(subscribers, {x \in ToSet(subscribers) : x.key # k})

(* What sendReplay sends of the buffer for the cursor of a request, which  *)
(* parsePtyCursor made an integer.                                         *)
Replay(p, asked) ==
  LET cursor == Int32(asked)
      from == IF cursor = FromEnd THEN p.cursor ELSE AtLeast(0, cursor)
      offset == AtLeast(0, from - p.bufferCursor)
  IN  IF from >= p.cursor THEN <<>> ELSE SubSeq(p.buffer, offset + 1, Len(p.buffer))

Tagged(t, positions) == [i \in DOMAIN positions |-> <<t, positions[i]>>]

(* PtyService.connect.  A client does not follow two terminals at once: a  *)
(* WebSocket is opened for one.  It may be connected to it again under the *)
(* same key, which replaces its subscription.                              *)
Connect(s, t, asked) ==
  LET k == socket[s].key
      p == pty[t]
  IN  /\ socket[s].open /\ t \in sessions /\ client[k].of \in {0, t}
      /\ pty' = [pty EXCEPT ![t].subscribers =
                   Append(Without(@, k), [socket |-> s, key |-> k])]
      /\ client' = [client EXCEPT ![k] = [of |-> t, asked |-> asked, end |-> p.cursor,
                                          got |-> Tagged(t, Replay(p, asked))]]
      /\ handlers' = handlers \cup {[terminal |-> t, key |-> k]}
      /\ UNCHANGED <<sessions, process, events, socket, nextKey>>

(* A send of sendReplay throws: the socket is closed.                      *)
ConnectFails(s, t) ==
  LET k == socket[s].key
  IN  /\ socket[s].open /\ t \in sessions /\ client[k].of \in {0, t}
      /\ pty' = [pty EXCEPT ![t].subscribers = Without(@, k)]
      /\ client' = [client EXCEPT ![k] = NoClient]
      /\ socket' = [socket EXCEPT ![s].open = FALSE]
      /\ UNCHANGED <<sessions, process, events, nextKey, handlers>>

(* There is no such terminal, any more.                                    *)
ConnectUnknown(s, t) ==
  /\ socket[s].open /\ t \notin sessions /\ client[socket[s].key].of = 0
  /\ socket' = [socket EXCEPT ![s].open = FALSE]
  /\ UNCHANGED <<sessions, pty, process, events, nextKey, handlers, client>>

(* The client is gone; the server is yet to hear of it.                    *)
SocketCloses(s) ==
  /\ socket[s].open
  /\ socket' = [socket EXCEPT ![s].open = FALSE]
  /\ client' = [client EXCEPT ![socket[s].key] = NoClient]
  /\ UNCHANGED <<sessions, pty, process, events, nextKey, handlers>>

(* It hears: onClose, or onError, of the connection.  Callbacks of one key *)
(* and terminal are alike, so they are a set.                              *)
OnClose(h) ==
  /\ h \in handlers
  /\ handlers' = handlers \ {h}
  /\ pty' = [pty EXCEPT ![h.terminal].subscribers = Without(@, h.key)]
  /\ client' = [client EXCEPT ![h.key] = IF @.of = h.terminal THEN NoClient ELSE @]
  /\ UNCHANGED <<sessions, process, events, socket, nextKey>>

(* The host takes the socket object for another connection.                *)
Recycle(s) ==
  /\ nextKey <= MaxKeys
  /\ nextKey' = nextKey + 1
  /\ socket' = [socket EXCEPT ![s] = [open |-> TRUE, key |-> nextKey]]
  /\ client' = [client EXCEPT ![socket[s].key] = NoClient]
  /\ UNCHANGED <<sessions, pty, process, events, handlers>>

-----------------------------------------------------------------------------
(* The end.                                                                *)

(* closeSubscribers.                                                       *)
Closes(T) ==
  {x.socket : x \in {y \in UNION {ToSet(pty[t].subscribers) : t \in T} : SameKey(y)}}

(* PtyService.remove of the terminals T, which are listed.                 *)
RemoveAll(T) ==
  /\ sessions' = sessions \ T
  /\ pty' = [t \in Terminals |->
               IF t \in T THEN [pty[t] EXCEPT !.status = "exited", !.subscribers = <<>>] ELSE pty[t]]
  /\ events' = [t \in Terminals |->
                  IF t \in T THEN events[t] \o <<"exited", "deleted">> ELSE events[t]]
  /\ socket' = [s \in Sockets |-> [socket[s] EXCEPT !.open = @ /\ s \notin Closes(T)]]
  /\ client' = [k \in Keys |->
                  IF \E s \in Closes(T) : socket[s].key = k THEN NoClient ELSE client[k]]
  /\ UNCHANGED <<nextKey, handlers>>

RemovePty(t) ==
  /\ t \in sessions
  /\ RemoveAll({t})
  /\ UNCHANGED process

(* The server is disposed of.                                              *)
Dispose ==
  /\ sessions # {}
  /\ RemoveAll(sessions)
  /\ UNCHANGED process

OnExitAgain(t) ==
  /\ process[t] = "running"
  /\ process' = [process EXCEPT ![t] = "gone"]
  /\ \/ t \in sessions /\ RemoveAll({t})
     \/ /\ t \notin sessions
        /\ events' = [events EXCEPT ![t] = Append(@, "exited")]
        /\ UNCHANGED <<sessions, pty, socket, nextKey, handlers, client>>

(* The process ended by itself, or was killed by remove.                   *)
OnExit(t) ==
  /\ process[t] = "running"
  /\ process' = [process EXCEPT ![t] = "gone"]
  /\ \/ pty[t].status = "running" /\ RemoveAll({t})
     \/ /\ pty[t].status = "exited"
        /\ UNCHANGED <<sessions, pty, events, socket, nextKey, handlers, client>>

-----------------------------------------------------------------------------

PtyInit ==
  /\ sessions = {}
  /\ pty = [t \in Terminals |-> NoPty]
  /\ process = [t \in Terminals |-> "none"]
  /\ events = [t \in Terminals |-> <<>>]
  /\ socket = [s \in Sockets |-> [open |-> TRUE, key |-> s]]
  /\ nextKey = MaxSockets + 1
  /\ handlers = {}
  /\ client = [k \in Keys |-> NoClient]

Written(T) == FoldLeft(LAMBDA sum, t : sum + pty[t].cursor, 0, T)

PtyNext ==
  \/ \E t \in Terminals : Create(t) \/ RemovePty(t) \/ OnExit(t)
  \/ Dispose
  \/ \E t \in Terminals, n \in Chunks, bad \in SUBSET Sockets :
       Written([u \in Terminals |-> u]) + n <= MaxOutput /\ OnData(t, n, bad)
  \/ \E s \in Sockets, t \in Terminals : ConnectUnknown(s, t) \/ ConnectFails(s, t)
  \/ \E s \in Sockets, t \in Terminals, asked \in Cursors : Connect(s, t, asked)
  \/ \E s \in Sockets : SocketCloses(s) \/ Recycle(s)
  \/ \E h \in handlers : OnClose(h)

PtySpec == PtyInit /\ [][PtyNext]_ptyVars

-----------------------------------------------------------------------------

Subscriber == [socket : Sockets, key : Keys]

(* The buffer holds the last of the output, as much as it may, and the     *)
(* cursors count it.                                                       *)
PtyTypeOK ==
  /\ sessions \subseteq Terminals
  /\ pty \in [Terminals -> [status : {"none", "running", "exited"}, cursor : Nat, buffer : Seq(Nat),
                           bufferCursor : Nat, subscribers : Seq(Subscriber)]]
  /\ \A t \in Terminals :
       /\ pty[t].bufferCursor = AtLeast(0, pty[t].cursor - BufferLimit)
       /\ pty[t].buffer = Positions(pty[t].bufferCursor, pty[t].cursor - pty[t].bufferCursor)
  /\ process \in [Terminals -> {"none", "running", "gone"}]
  /\ events \in [Terminals -> Seq({"created", "exited", "deleted"})]
  /\ socket \in [Sockets -> [open : BOOLEAN, key : Keys]]
  /\ nextKey \in 1 .. MaxKeys + 1
  /\ handlers \subseteq [terminal : Terminals, key : Keys]
  /\ client \in [Keys -> [of : 0 .. MaxTerminals, asked : Cursors \cup {0}, end : Nat,
                         got : Seq(Terminals \X Nat)]]

Stream == INSTANCE PtyStream
  WITH Terminals <- Terminals, Readers <- Keys, Keep <- BufferLimit,
       written <- [t \in Terminals |-> pty[t].cursor], reader <- client

(* A client gets the output from the cursor it asks for, or what the       *)
(* buffer kept of it, and then every chunk until one of the two sides ends *)
(* the connection: nothing twice, nothing left out at the seam of replay   *)
(* and live output, nothing of another terminal on a recycled socket       *)
(* (docs/pty-runtime.md, "recycled socket wrappers").  And it is told the  *)
(* position from which it has to count (sendReplay, onData).               *)
ReadsTheStream == Stream!Spec

(* A terminal ends once, however its exit and its removal meet: exited and *)
(* then deleted are published once each, it can be found until then only,  *)
(* and the sockets of its clients are closed (remove, onExit).             *)
EndsOnce ==
  \A t \in Terminals :
    /\ IsPrefix(events[t], <<"created", "exited", "deleted">>)
    /\ t \in sessions <=> events[t] = <<"created">>
    /\ t \notin sessions => \A k \in Keys : client[k].of # t
=============================================================================
