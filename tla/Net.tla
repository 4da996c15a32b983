-------------------------------- MODULE Net --------------------------------
(***************************************************************************)
(* net: TCP sockets are registered with an edge-triggered poll under the   *)
(* index of their entry in a slab; the thread net::Poller passes readiness *)
(* on through the channels of that entry.  A socket that is dropped leaves *)
(* the poll at once, and its token to the poller, which may still hold     *)
(* events of it.  The kernel side of sockets and poll is external.         *)
(***************************************************************************)
EXTENDS Integers, FiniteSets, Sequences, SequencesExt

CONSTANTS
    Sockets,   \* TcpListener and TcpStream values, used over and over
    Listeners, \* those that are a TcpListener
    Tokens,    \* indices of the slab
    Signals,   \* capacity of the channels readable and writable (2)
    Batch,     \* events of one poll (1024)
    MaxUses,   \* bound: sockets that are made in turn of each of Sockets
    None

ASSUME Shape ==
    /\ {Signals, Batch} \subseteq Nat \ {0} /\ MaxUses \in [Sockets -> Nat]
    /\ Listeners \subseteq Sockets /\ None \notin Sockets \cup Tokens \cup (Sockets \X Nat)

Sides == {"read", "write"}

VARIABLES
    st, uses,          \* each socket: its stage, and how many it has been
    token, via,        \* its token; the listener that accepts it
    halves, split,     \* the halves that exist, TcpReader and TcpWriter if split
    pc, channel,       \* per side: what its coroutine does, and signals that wait
    registered, ready, shut, edge, \* external: the kernel's view of it
    entries,           \* Registry::entries: token to the socket it was made for
    freeing,           \* tokens on their way to the poller
    ppc, events,       \* the poller thread, and events it has to handle
    stopped,           \* the waker's event is among them, or was
    lost,              \* tokens that nobody will ever free
    fault              \* a panic of the poller thread

socket == <<st, uses, token, via, halves, split, pc, channel>>
kernel == <<registered, ready, shut, edge>>
poller == <<ppc, events, stopped, fault>>
vars == <<st, uses, token, via, halves, split, pc, channel, registered, ready, shut,
          edge, entries, freeing, ppc, events, stopped, lost, fault>>

\* A socket, and the one-th it is: what an entry and an event are about.
This(s) == <<s, uses[s]>>

Init ==
    /\ st = [s \in Sockets |-> "none"] /\ uses = [s \in Sockets |-> 0]
    /\ token = [s \in Sockets |-> None] /\ via = [s \in Sockets |-> None]
    /\ halves = [s \in Sockets |-> {}] /\ split = [s \in Sockets |-> FALSE]
    /\ pc = [s \in Sockets |-> [d \in Sides |-> "idle"]]
    /\ channel = [s \in Sockets |-> [d \in Sides |-> 0]]
    /\ registered = {} /\ ready = [s \in Sockets |-> {}]
    /\ shut = [s \in Sockets |-> {}] /\ edge = {}
    /\ entries = [t \in Tokens |-> None] /\ freeing = <<>>
    /\ ppc = "poll" /\ events = {} /\ stopped = FALSE
    /\ lost = {} /\ fault = FALSE

\* wake_events holds the lock of the entries from its first event to its last token.
Unlocked == ppc \in {"poll", "events", "gone"}

------------------------------------------------------------------------------
(* Registration *)

\* A file descriptor of its own: of bind, of connect, or of an accepted connection.
Make(s, by, r, before) ==
    /\ st[s] = "none" /\ uses[s] < MaxUses[s]
    /\ st' = [st EXCEPT ![s] = "fresh"]
    /\ uses' = [uses EXCEPT ![s] = @ + 1] /\ via' = [via EXCEPT ![s] = by]
    /\ halves' = [halves EXCEPT ![s] = IF s \in Listeners THEN {"read"} ELSE Sides]
    /\ ready' = [before EXCEPT ![s] = r]
    /\ UNCHANGED <<token, split, channel, shut, registered, edge, entries, freeing, poller, lost>>

Bind(s) == s \in Listeners /\ Make(s, None, {}, ready) /\ UNCHANGED pc
Connect(s) == s \notin Listeners /\ Make(s, None, {}, ready) /\ UNCHANGED pc

\* register_entry, at an index of the slab that is vacant, which one is the slab's
\* choice; Tokens bounds the slab, which grows in the code.
vacant == {t \in Tokens : entries[t] = None}
Insert(s) ==
    /\ st[s] = "fresh" /\ Unlocked
    /\ \E t \in vacant :
          /\ entries' = [entries EXCEPT ![t] = This(s)]
          /\ token' = [token EXCEPT ![s] = t]
    /\ st' = [st EXCEPT ![s] = "registering"]
    /\ UNCHANGED <<uses, via, halves, split, pc, channel, kernel, freeing, poller, lost>>

\* mio's register: an event is due for what the socket is ready for already.
\* TcpStream::new then waits until it is writable; a listener is complete.
Register(s) ==
    /\ st[s] = "registering"
    /\ registered' = registered \cup {s}
    /\ edge' = IF ready[s] # {} THEN edge \cup {s} ELSE edge
    /\ st' = [st EXCEPT ![s] = IF s \in Listeners THEN "open" ELSE "connecting"]
    /\ UNCHANGED <<uses, token, via, halves, split, pc, channel, ready, shut, entries,
                   freeing, poller, lost>>

\* Who waits in accept() gets a connection, an error or an abort of it.
Accepted(s) == pc' = IF via[s] = None THEN pc
                     ELSE [pc EXCEPT ![via[s]]["read"] = "idle"]

\* Nothing of a socket is left but, maybe, its entry.
Gone(s) ==
    /\ st' = [st EXCEPT ![s] = "none"]
    /\ token' = [token EXCEPT ![s] = None] /\ via' = [via EXCEPT ![s] = None]
    /\ halves' = [halves EXCEPT ![s] = {}] /\ split' = [split EXCEPT ![s] = FALSE]
    /\ channel' = [channel EXCEPT ![s] = [d \in Sides |-> 0]]
    /\ ready' = [ready EXCEPT ![s] = {}] /\ shut' = [shut EXCEPT ![s] = {}]

\* It fails, and the entry is removed again.
RegisterFails(s) ==
    /\ st[s] = "registering" /\ st' = [st EXCEPT ![s] = "failed"]
    /\ UNCHANGED <<uses, token, via, halves, split, pc, channel, kernel, entries, freeing,
                   poller, lost>>

\* Variant: the token goes to the poller as well.
VacateTwice(s) == /\ entries' = [entries EXCEPT ![token[s]] = None]
                  /\ freeing' = Append(freeing, token[s])
Vacate(s) == entries' = [entries EXCEPT ![token[s]] = None] /\ UNCHANGED freeing

unregister_entry(s) ==
    /\ st[s] = "failed" /\ Unlocked
    /\ Vacate(s) /\ Gone(s) /\ Accepted(s)
    /\ UNCHANGED <<uses, registered, edge, poller, lost>>

\* The first signal of a stream: it is connected, or connect() was refused, and
\* take_error drops it.
New(s) ==
    /\ st[s] = "connecting" /\ channel[s]["write"] > 0
    /\ channel' = [channel EXCEPT ![s]["write"] = @ - 1]
    /\ st' = [st EXCEPT ![s] = IF via[s] = None /\ "write" \in shut[s] THEN "refused" ELSE "open"]
    /\ via' = [via EXCEPT ![s] = None] /\ Accepted(s)
    /\ UNCHANGED <<uses, token, halves, split, kernel, entries, freeing, poller, lost>>

\* The coroutine is aborted while it waits for that: the stream of mio is closed,
\* and its entry stays.
AbortNew(s) ==
    /\ st[s] = "connecting"
    /\ registered' = registered \ {s} /\ edge' = edge \ {s}
    /\ lost' = lost \cup {token[s]}
    /\ Gone(s) /\ Accepted(s)
    /\ UNCHANGED <<uses, entries, freeing, poller>>

------------------------------------------------------------------------------
(* Input and output *)

\* A stream that is not split is used by one coroutine at a time.
Free(s, d) ==
    /\ st[s] = "open" /\ d \in halves[s] /\ pc[s][d] \in {"idle", "try"}
    /\ split[s] \/ \A e \in Sides \ {d} : pc[s][e] = "idle"

\* TcpStream::read and write: the call succeeds, and may leave more to read or
\* room to write, or it would block and the coroutine waits for a signal.
Try(s, d) ==
    /\ Free(s, d) /\ s \notin Listeners
    /\ IF d \in ready[s]
       THEN /\ pc' = [pc EXCEPT ![s][d] = "idle"]
            /\ \E left \in {ready[s], ready[s] \ ({d} \ shut[s])} :
                 ready' = [ready EXCEPT ![s] = left]
       ELSE pc' = [pc EXCEPT ![s][d] = "recv"] /\ UNCHANGED ready
    /\ UNCHANGED <<st, uses, token, via, halves, split, channel, registered, shut, edge,
                   entries, freeing, poller, lost>>

\* accept(): a connection that is complete goes on to TcpStream::new.
Accept(s) ==
    /\ Free(s, "read") /\ s \in Listeners
    /\ IF "read" \in ready[s]
       THEN /\ \E n \in Sockets \ Listeners, left \in SUBSET {"read"} :
                 Make(n, s, {"write"}, [ready EXCEPT ![s] = left])
            /\ pc' = [pc EXCEPT ![s]["read"] = "new"]
       ELSE /\ pc' = [pc EXCEPT ![s]["read"] = "recv"]
            /\ UNCHANGED <<st, uses, token, via, halves, split, channel, kernel, entries,
                           freeing, poller, lost>>

Recv(s, d) ==
    /\ st[s] = "open" /\ pc[s][d] = "recv" /\ channel[s][d] > 0
    /\ channel' = [channel EXCEPT ![s][d] = @ - 1] /\ pc' = [pc EXCEPT ![s][d] = "try"]
    /\ UNCHANGED <<st, uses, token, via, halves, split, kernel, entries, freeing, poller,
                   lost>>

into_split(s) ==
    /\ st[s] = "open" /\ s \notin Listeners /\ ~split[s]
    /\ \A d \in Sides : pc[s][d] = "idle"
    /\ split' = [split EXCEPT ![s] = TRUE]
    /\ UNCHANGED <<st, uses, token, via, halves, pc, channel, kernel, entries, freeing,
                   poller, lost>>

------------------------------------------------------------------------------
(* Drop *)

\* Variant: the token is free at once.
HandBack(s) == /\ entries' = [entries EXCEPT ![token[s]] = None] /\ UNCHANGED freeing
HandOver(s) == freeing' = Append(freeing, token[s]) /\ UNCHANGED entries

\* deregister_event_source: first the source leaves the poll, ...
Leave(s) == /\ registered' = registered \ {s} /\ edge' = edge \ {s}
            /\ st' = [st EXCEPT ![s] = "leaving"]

\* ... then its token goes to the poller, and the source is closed.
Unused(s) ==
    /\ st[s] = "leaving" /\ HandOver(s) /\ Gone(s)
    /\ UNCHANGED <<uses, pc, registered, edge, poller, lost>>

\* A TcpListener or TcpStream goes out of scope, be it that its coroutine was
\* aborted while it waits for a signal.
Drop(s) ==
    /\ \/ st[s] = "refused"
       \/ st[s] = "open" /\ ~split[s] /\ \A d \in Sides : pc[s][d] \in {"idle", "recv"}
    /\ pc' = [pc EXCEPT ![s] = [d \in Sides |-> "idle"]]
    /\ Leave(s)
    /\ UNCHANGED <<uses, token, via, halves, split, channel, ready, shut, entries, freeing,
                   poller, lost>>

LastHalf(s, d) ==
    IF halves[s] = {d} THEN Leave(s)
    ELSE /\ edge' = edge \cup {s} /\ UNCHANGED <<st, registered>>

\* TcpReader or TcpWriter: its side is shut down, and the last one drops the stream.
DropHalf(s, d) ==
    /\ st[s] = "open" /\ split[s] /\ d \in halves[s] /\ pc[s][d] \in {"idle", "recv"}
    /\ pc' = [pc EXCEPT ![s][d] = "idle"] /\ halves' = [halves EXCEPT ![s] = @ \ {d}]
    /\ ready' = [ready EXCEPT ![s] = @ \cup {d}] /\ shut' = [shut EXCEPT ![s] = @ \cup {d}]
    /\ LastHalf(s, d)
    /\ UNCHANGED <<uses, token, via, split, channel, entries, freeing, poller, lost>>

------------------------------------------------------------------------------
(* The kernel *)

Alive(s) == st[s] \in {"fresh", "registering", "connecting", "open"}

\* Something arrives to read, which is an event, or there is room to write, which
\* is one to who found that there was none.
Arrive(s, d) ==
    /\ Alive(s) /\ d \notin shut[s]
    /\ d = "write" => s \notin Listeners /\ d \notin ready[s]
    /\ ready' = [ready EXCEPT ![s] = @ \cup {d}]
    /\ \/ edge' = edge \cup ({s} \cap registered)
       \/ /\ d = "write" /\ st[s] = "open" /\ pc[s][d] # "recv"
          /\ UNCHANGED edge
    /\ UNCHANGED <<socket, registered, shut, entries, freeing, poller, lost>>

\* The peer closes the connection or one direction of it, or it fails.
PeerCloses(s, ds) ==
    /\ Alive(s) /\ s \notin Listeners /\ ds \ shut[s] # {}
    /\ ready' = [ready EXCEPT ![s] = @ \cup ds] /\ shut' = [shut EXCEPT ![s] = @ \cup ds]
    /\ edge' = edge \cup ({s} \cap registered)
    /\ UNCHANGED <<socket, registered, entries, freeing, poller, lost>>

------------------------------------------------------------------------------
(* The poller thread *)

\* Poller::serve: poll returns what is due, or Interrupted, which changes nothing.
\* It returns the event of the waker once Stopper::stop was called.
Poll(stop) ==
    /\ ppc = "poll" /\ (edge # {} \/ stop)
    /\ \E due \in SUBSET edge :
         /\ Cardinality(due) = Batch \/ (due = edge /\ Cardinality(due) < Batch)
         /\ edge' = edge \ due
         /\ events' = {[token |-> token[s], of |-> This(s), ready |-> ready[s]] : s \in due}
    /\ stopped' = stop /\ ppc' = "events"
    /\ UNCHANGED <<socket, registered, ready, shut, entries, freeing, lost, fault>>

\* Variant: a stream is told of one side an event.
NotifyOne(entry, ev) ==
    LET d == IF "read" \in ev.ready THEN "read" ELSE "write"
    IN channel' = IF /\ entry = This(entry[1]) /\ st[entry[1]] # "none"
                     /\ channel[entry[1]][d] < Signals
                  THEN [channel EXCEPT ![entry[1]][d] = @ + 1] ELSE channel

\* check_readable and check_writable: try_send, whose error is ignored, to the
\* channels of the entry, whose receivers may be gone with the socket.
Notify(entry, ev) ==
    LET s == entry[1]
    IN channel' = IF entry # This(s) \/ st[s] = "none" THEN channel
                  ELSE [channel EXCEPT ![s] = [d \in Sides |->
                          IF d \in ev.ready /\ @[d] < Signals THEN @[d] + 1 ELSE @[d]]]

\* wake_events takes the lock and handles its events one after another, those of
\* unknown tokens not at all, ...
wake_events(ev) ==
    /\ ppc' = "locked" /\ events' = events \ {ev}
    /\ IF entries[ev.token] = None THEN UNCHANGED channel
       ELSE Notify(entries[ev.token], ev)
    /\ UNCHANGED <<st, uses, token, via, halves, split, pc, kernel, entries, freeing,
                   stopped, lost, fault>>

\* ... and then frees the tokens that arrived meanwhile; Slab::remove panics if
\* there is no such entry.
FreeToken ==
    /\ ppc \in {"events", "locked"} /\ events = {} /\ freeing # <<>>
    /\ ppc' = "locked"
    /\ entries' = [entries EXCEPT ![Head(freeing)] = None] /\ freeing' = Tail(freeing)
    /\ fault' = (entries[Head(freeing)] = None)
    /\ UNCHANGED <<socket, kernel, events, stopped, lost>>

Unlock ==
    /\ ppc \in {"events", "locked"} /\ events = {} /\ freeing = <<>>
    /\ ppc' = IF stopped THEN "gone" ELSE "poll"
    /\ UNCHANGED <<socket, kernel, entries, freeing, events, stopped, lost, fault>>

\* Nothing changes the entries once the poller has exited.
Next ==
    /\ ~fault /\ ppc # "gone"
    /\ \/ \E s \in Sockets :
            \/ Bind(s) \/ Connect(s) \/ Insert(s) \/ Register(s) \/ RegisterFails(s)
            \/ unregister_entry(s) \/ New(s) \/ AbortNew(s) \/ Accept(s)
            \/ into_split(s) \/ Drop(s) \/ Unused(s)
            \/ \E d \in Sides : Try(s, d) \/ Recv(s, d) \/ DropHalf(s, d) \/ Arrive(s, d)
            \/ \E ds \in {{"read"}, Sides} : PeerCloses(s, ds)
       \/ \E stop \in BOOLEAN : Poll(stop)
       \/ \E ev \in events : wake_events(ev)
       \/ FreeToken \/ Unlock

Spec == Init /\ [][Next]_vars

------------------------------------------------------------------------------
(* Properties *)

SocketTypeOK ==
    /\ st \in [Sockets -> {"none", "fresh", "registering", "failed", "connecting", "refused",
                           "open", "leaving"}]
    /\ uses \in [Sockets -> Nat]
    /\ token \in [Sockets -> Tokens \cup {None}] /\ via \in [Sockets -> Sockets \cup {None}]
    /\ halves \in [Sockets -> SUBSET Sides] /\ split \in [Sockets -> BOOLEAN]
    /\ pc \in [Sockets -> [Sides -> {"idle", "try", "recv", "new"}]]
    /\ channel \in [Sockets -> [Sides -> 0 .. Signals]]
KernelTypeOK ==
    /\ registered \subseteq Sockets /\ edge \subseteq registered
    /\ ready \in [Sockets -> SUBSET Sides] /\ shut \in [Sockets -> SUBSET Sides]
PollerTypeOK ==
    /\ entries \in [Tokens -> (Sockets \X Nat) \cup {None}]
    /\ events \subseteq [token : Tokens, of : Sockets \X Nat, ready : SUBSET Sides]
    /\ freeing \in Seq(Tokens) /\ lost \subseteq Tokens
    /\ ppc \in {"poll", "events", "locked", "gone"} /\ stopped \in BOOLEAN /\ fault \in BOOLEAN
TypeOK == SocketTypeOK /\ KernelTypeOK /\ PollerTypeOK

\* "it is possible that net::poller is processing old events for this token", and
\* "that it could be reused by new socket" (net/mod.rs): an event that is still to
\* be handled finds, under its token, the entry of the socket that it is of.
Routed == \A ev \in events : entries[ev.token] = ev.of

\* Every entry is one socket's, on its way to be freed, or left by an aborted
\* connect or accept, and each token is on its way at most once, so that the
\* poller neither panics nor frees the token of a socket that lives.
FreedOnce ==
    /\ ~fault /\ IsInjective(freeing)
    /\ LET owned == {token[s] : s \in Sockets} \ {None}
       IN /\ {t \in Tokens : entries[t] # None} = owned \cup ToSet(freeing) \cup lost
          /\ owned \cap (ToSet(freeing) \cup lost) = {}
          /\ \A s \in Sockets : token[s] # None => entries[token[s]] = This(s)

\* Signals are dropped when some wait already, and readiness is reported once:
\* still, when a coroutine waits for a signal and none is there though it could
\* read or write, an event that brings one is on its way.
NothingUnheard ==
    \A s \in Sockets, d \in Sides :
        pc[s][d] = "recv" /\ d \in ready[s] /\ channel[s][d] = 0 /\ ppc # "gone" =>
            s \in edge \/ \E ev \in events : ev.of = This(s) /\ d \in ev.ready
=============================================================================
