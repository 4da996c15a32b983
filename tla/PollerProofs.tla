--------------------------- MODULE PollerProofs ---------------------------
(***************************************************************************)
(* For any number of coroutines, pool threads, sessions and descriptors:   *)
(* who has an operation in flight waits for it with its buffer and file,   *)
(* a cancellation reaches its own operation, and neither poller thread is  *)
(* handed what it cannot serve.                                            *)
(***************************************************************************)
EXTENDS Poller, SequenceFacts

------------------------------------------------------------------------------
(* The inductive invariant. *)

(* Reserved: an address is of one session at a time, and a coroutine has *)
(* the one of its operation from when it begins until it goes on, and    *)
(* one of a Cancel as long as it waits for its answer.                   *)
Reserved ==
    /\ \A c \in Clients : addr[c] = None <=> pc[c] \in {"running", "gone"}
    /\ \A c \in Clients : ack[c] # None <=> pc[c] = "cancelling"
    /\ \A c \in Clients : acked[c] => ack[c] # None
    /\ \A c \in Clients : answer[c] # None => pc[c] \in Waiting
    /\ \A c, d \in Clients : addr[c] = addr[d] /\ addr[c] # None => c = d
    /\ \A c, d \in Clients : ack[c] = ack[d] /\ ack[c] # None => c = d
    /\ \A c, d \in Clients : addr[c] = ack[d] => addr[c] = None
    /\ \A c \in Clients : pc[c] = "sending" => /\ op[c] \in Operation
                                               /\ op[c] = "open" => file[c] = None

(* Owing: whoever is to be answered waits, unanswered, with what the request *)
(* names: the coroutine in its operation with its file, or in its Cancel.    *)
Owes(r) ==
    IF r.kind = "cancel"
    THEN /\ pc[r.by] = "cancelling" /\ ack[r.by] = r.addr /\ addr[r.by] = r.target
         /\ ~acked[r.by]
    ELSE /\ pc[r.by] \in Waiting /\ addr[r.by] = r.addr /\ file[r.by] = r.fd
         /\ answer[r.by] = None /\ (r.kind = "open" => r.fd = None)
Owing == \A r \in Outstanding : Owes(r)

(* Queued: a request is in one place, once, and known by its address; what *)
(* the pool serves it is sent, and nothing else.                           *)
Jobs == {job[t] : t \in Pool} \ {None}
Queued ==
    /\ \A r, s \in Outstanding : r.addr = s.addr => r = s
    /\ IsInjective(channel["uring"]) /\ ToSet(channel["uring"]) \cap requests = {}
    /\ IsInjective(channel["pool"]) /\ ToSet(channel["pool"]) \cap Jobs = {}
    /\ \A t, u \in Pool : job[t] = job[u] /\ job[t] # None => t = u
    /\ \A r \in ToSet(channel["pool"]) \cup Jobs : r.kind = "truncate"
    /\ \A r \in ToSet(channel["uring"]) \cup requests : r.kind # "truncate"

(* Ring: what the kernel works on and what it completed are different      *)
(* requests that State still holds and that left the batch; it may have    *)
(* found the target of a Cancel.                                           *)
Submitted == requests \ ToSet(entries)
In(r) == {r, IF r.kind = "cancel" THEN [r EXCEPT !.kind = "done"]
             ELSE [r EXCEPT !.kind = "cancelled"]}
Ring ==
    /\ IsInjective(entries) /\ ToSet(entries) \subseteq requests
    /\ upc # "submit" => entries = <<>>
    /\ \A k \in kernel : \E r \in Submitted : k \in In(r)
    /\ \A k, l \in kernel : k.addr = l.addr => k = l
    /\ cq \subseteq [addr : Addrs, result : Fds \cup {"ok", "err"}]
    /\ \A e \in cq : \E r \in Submitted : /\ r.addr = e.addr
                                          /\ e.result \in Fds => r.kind = "open"
    /\ \A e, f \in cq : e.addr = f.addr => e = f
    /\ \A e \in cq, k \in kernel : e.addr # k.addr

(* Files: a descriptor that is open is in one File, or on its way to one   *)
(* that has none.                                                          *)
Files ==
    /\ open = Fds \cap ({file[c] : c \in Clients} \cup {answer[c] : c \in Clients}
                           \cup {e.result : e \in cq})
    /\ \A c, d \in Clients : file[c] = file[d] /\ file[c] \in Fds => c = d
    /\ \A c, d \in Clients : answer[c] = answer[d] /\ answer[c] \in Fds => c = d
    /\ \A e, f \in cq : e.result = f.result /\ e.result \in Fds => e = f
    /\ \A c, d \in Clients : answer[c] \in Fds => file[d] # answer[c]
    /\ \A c \in Clients, e \in cq : e.result \in Fds =>
          file[c] # e.result /\ answer[c] # e.result
    /\ \A c \in Clients : answer[c] \in Fds => file[c] = None

IInv == TypeOK /\ Reserved /\ Owing /\ Queued /\ Ring /\ Files /\ fault # "panic"

------------------------------------------------------------------------------
(* Requests. *)

\* Vec::swap_remove takes out the one element, and moves the last to its place.
LEMMA SwapRemoveFacts ==
    ASSUME NEW S, NEW s \in Seq(S), IsInjective(s), NEW i \in DOMAIN s
    PROVE  /\ SwapRemove(s, i) \in Seq(S) /\ Len(SwapRemove(s, i)) = Len(s) - 1
           /\ ToSet(SwapRemove(s, i)) = ToSet(s) \ {s[i]}
           /\ IsInjective(SwapRemove(s, i))
<1> DEFINE n == Len(s)
           q == SwapRemove(s, i)
<1>1. n \in Nat /\ DOMAIN s = 1 .. n /\ i \in 1 .. n /\ n - 1 \in Nat /\ n \in 1 .. n
  OBVIOUS
<1>2. \A j \in 1 .. n : s[j] \in S
  OBVIOUS
<1>3. q = [j \in 1 .. n - 1 |-> IF j = i THEN s[n] ELSE s[j]]
  BY <1>1 DEF SwapRemove, Front, Last
<1> HIDE DEF n, q
<1>4. q \in Seq(S) /\ Len(q) = n - 1 /\ DOMAIN q = 1 .. n - 1
  BY <1>1, <1>2, <1>3
<1>5. \A j \in 1 .. n - 1 : q[j] = IF j = i THEN s[n] ELSE s[j]
  BY <1>3
<1>6. \A j, k \in 1 .. n : s[j] = s[k] => j = k
  BY <1>1 DEF IsInjective
<1>7. \A x : x \in ToSet(q) => x \in ToSet(s) \ {s[i]}
  BY <1>1, <1>4, <1>5, <1>6 DEF ToSet
<1>8. ASSUME NEW j \in 1 .. n, j # i PROVE s[j] \in ToSet(q)
  <2>1. CASE j = n
    BY <1>1, <1>4, <1>5, <1>8, <2>1 DEF ToSet
  <2>2. CASE j # n
    BY <1>1, <1>4, <1>5, <1>8, <2>2 DEF ToSet
  <2> QED
    BY <2>1, <2>2
<1>9. ToSet(q) = ToSet(s) \ {s[i]}
  <2>1. \A x : x \in ToSet(s) \ {s[i]} => x \in ToSet(q)
    BY <1>1, <1>8 DEF ToSet
  <2> QED
    BY <1>7, <2>1
<1>10. IsInjective(q)
  BY <1>1, <1>4, <1>5, <1>6 DEF IsInjective
<1> QED
  BY <1>4, <1>9, <1>10 DEF n, q

\* What there is to a request.
LEMMA RequestFacts ==
    ASSUME NEW r \in Request
    PROVE  /\ r.kind \in Operation \cup {"cancel"} /\ r.by \in Clients
           /\ r.addr \in Addrs /\ r.addr # None /\ r # None
           /\ r.fd \in Fds \cup {None} /\ r.target \in Addrs \cup {None}
BY Shape DEF Request

\* Wherever a request is, it is one.
LEMMA Typed ==
    ASSUME TypeOK
    PROVE  /\ Outstanding \subseteq Request /\ requests \subseteq Outstanding
           /\ Jobs \subseteq Outstanding
           /\ \A to \in {"uring", "pool"} : /\ channel[to] \in Seq(Request)
                                           /\ ToSet(channel[to]) \subseteq Outstanding
<1>1. \A to \in {"uring", "pool"} : channel[to] \in Seq(Request)
  BY DEF TypeOK
<1>2. \A to \in {"uring", "pool"} : ToSet(channel[to]) \subseteq Request
  BY <1>1 DEF ToSet
<1>3. requests \subseteq Request /\ Jobs \subseteq Request
  BY DEF TypeOK, Jobs
<1> QED
  BY <1>1, <1>2, <1>3 DEF Outstanding, Jobs

\* The address of the session that is woken tells the request that it is woken for.
LEMMA ByAddress ==
    ASSUME IInv, NEW r \in Outstanding, NEW c \in Clients
    PROVE  /\ addr[c] = r.addr => r.kind # "cancel" /\ r.by = c
           /\ ack[c] = r.addr => r.kind = "cancel" /\ r.by = c
<1>1. r \in Request
  BY Typed DEF IInv
<1>2. r.by \in Clients /\ r.addr # None
  BY <1>1, RequestFacts
<1>3. Owes(r) /\ Reserved
  BY DEF IInv, Owing
<1> QED
  BY <1>2, <1>3 DEF Owes, Reserved

\* Who does not wait for an operation, or was answered, has none under way.
LEMMA Idle ==
    ASSUME IInv, NEW c \in Clients,
           pc[c] \notin Waiting \/ (answer[c] # None /\ pc[c] # "cancelling"),
           NEW r \in Outstanding
    PROVE  r.by # c
<1>1. Owes(r)
  BY DEF IInv, Owing
<1> QED
  BY <1>1 DEF Owes, Waiting

\* A step that leaves the requests where they are.
LEMMA QueuedFrame ==
    ASSUME IInv, UNCHANGED <<channel, requests, job>>
    PROVE  Queued' /\ Outstanding' = Outstanding
<1>1. Outstanding' = Outstanding /\ Jobs' = Jobs
  BY DEF Outstanding, Jobs
<1> QED
  BY <1>1 DEF Queued, IInv

\* A request with an address of its own goes into its channel.
LEMMA PutQueued ==
    ASSUME IInv, NEW to \in {"uring", "pool"}, NEW r \in Request, Put(to, r),
           UNCHANGED <<requests, job>>, \A s \in Outstanding : s.addr # r.addr,
           r.kind = "truncate" <=> to = "pool"
    PROVE  Queued' /\ Outstanding' = Outstanding \cup {r}
<1>1. /\ channel' = [channel EXCEPT ![to] = Append(channel[to], r)]
      /\ channel \in [{"uring", "pool"} -> Seq(Request)]
  BY DEF Put, IInv, TypeOK
<1>2. /\ channel'[to] = Append(channel[to], r) /\ channel[to] \in Seq(Request)
      /\ \A other \in {"uring", "pool"} : other # to => channel'[other] = channel[other]
  BY <1>1
<1>3. r \notin Outstanding
  OBVIOUS
<1>4. ToSet(channel[to]) \subseteq Outstanding
  BY Typed DEF IInv
<1>5. IsInjective(channel[to])
  BY DEF IInv, Queued
<1>6. ToSet(channel'[to]) = ToSet(channel[to]) \cup {r} /\ IsInjective(channel'[to])
  BY <1>2, <1>3, <1>4, <1>5, AppendFacts
<1>7. Jobs' = Jobs
  BY DEF Jobs
<1>8. Outstanding' = Outstanding \cup {r}
  BY <1>2, <1>6, <1>7 DEF Outstanding, Jobs
<1>9. r \notin requests /\ r \notin Jobs
  BY <1>3, Typed DEF IInv
<1>10. Queued
  BY DEF IInv
<1>11. \A x, y \in Outstanding' : x.addr = y.addr => x = y
  BY <1>8, <1>10 DEF Queued
<1>12. \A t, u \in Pool : job'[t] = job'[u] /\ job'[t] # None => t = u
  BY <1>10 DEF Queued
<1>13. CASE to = "uring"
  <2>1. channel'["pool"] = channel["pool"] /\ r.kind # "truncate"
    BY <1>2, <1>13
  <2>2. ToSet(channel'["uring"]) \cap requests' = {} /\ IsInjective(channel'["uring"])
    BY <1>6, <1>9, <1>10, <1>13 DEF Queued
  <2>3. \A x \in ToSet(channel'["uring"]) \cup requests' : x.kind # "truncate"
    BY <1>6, <1>10, <1>13, <2>1 DEF Queued
  <2>4. ToSet(channel'["pool"]) = ToSet(channel["pool"]) /\ IsInjective(channel'["pool"])
    BY <1>10, <2>1 DEF Queued
  <2>5. /\ ToSet(channel'["pool"]) \cap Jobs' = {}
        /\ \A x \in ToSet(channel'["pool"]) \cup Jobs' : x.kind = "truncate"
    BY <1>7, <1>10, <2>4 DEF Queued
  <2> QED
    BY <1>8, <1>11, <1>12, <2>2, <2>3, <2>4, <2>5 DEF Queued
<1>14. CASE to = "pool"
  <2>1. channel'["uring"] = channel["uring"] /\ r.kind = "truncate"
    BY <1>2, <1>14
  <2>2. ToSet(channel'["pool"]) \cap Jobs' = {} /\ IsInjective(channel'["pool"])
    BY <1>6, <1>7, <1>9, <1>10, <1>14 DEF Queued
  <2>3. \A x \in ToSet(channel'["pool"]) \cup Jobs' : x.kind = "truncate"
    BY <1>6, <1>7, <1>10, <1>14, <2>1 DEF Queued
  <2>4. /\ ToSet(channel'["uring"]) = ToSet(channel["uring"]) /\ requests' = requests
        /\ IsInjective(channel'["uring"])
    BY <1>10, <2>1 DEF Queued
  <2>5. /\ ToSet(channel'["uring"]) \cap requests' = {}
        /\ \A x \in ToSet(channel'["uring"]) \cup requests' : x.kind # "truncate"
    BY <1>10, <2>4 DEF Queued
  <2> QED
    BY <1>8, <1>11, <1>12, <2>2, <2>3, <2>4, <2>5 DEF Queued
<1> QED
  BY <1>8, <1>13, <1>14

\* The other coroutines stay what and where they are.
OthersStay(c) ==
    \A d \in Clients : d # c =>
       /\ pc'[d] = pc[d] /\ op'[d] = op[d] /\ addr'[d] = addr[d] /\ ack'[d] = ack[d]
       /\ acked'[d] = acked[d] /\ file'[d] = file[d] /\ answer'[d] = answer[d]

\* What a step of one coroutine has to see to: its own requests, old and new.
LEMMA ClientOwing ==
    ASSUME IInv, NEW c \in Clients, OthersStay(c),
           \A r \in Outstanding' : r \in Outstanding \/ Owes(r)',
           \/ \A r \in Outstanding : r.by # c
           \/ /\ pc'[c] \in Waiting /\ (pc[c] # "cancelling" \/ acked[c])
              /\ addr'[c] = addr[c] /\ file'[c] = file[c] /\ answer'[c] = answer[c]
    PROVE  Owing'
<1> SUFFICES ASSUME NEW r \in Outstanding PROVE Owes(r)'
  BY DEF Owing
<1>1. Owes(r) /\ r.by \in Clients
  BY Typed, RequestFacts DEF IInv, Owing
<1> QED
  BY <1>1 DEF Owes, OthersStay

\* The sessions of a coroutine that begins none stay its own.
LEMMA ClientReserved ==
    ASSUME IInv, NEW c \in Clients, OthersStay(c),
           addr'[c] \in {addr[c], None}, addr'[c] = None <=> pc'[c] \in {"running", "gone"},
           ack'[c] \in {ack[c], None}, ack'[c] # None <=> pc'[c] = "cancelling",
           acked'[c] => ack'[c] # None, answer'[c] # None => pc'[c] \in Waiting,
           pc'[c] # "sending"
    PROVE  Reserved'
BY DEF Reserved, OthersStay, IInv

\* What a step that answers requests has to see to: no other session is woken.
LEMMA Answered ==
    ASSUME IInv, NEW gone \in SUBSET Outstanding, Outstanding' \subseteq Outstanding \ gone,
           UNCHANGED <<pc, op, addr, ack, file>>,
           \A c \in Clients : answer'[c] # answer[c] => \E r \in gone : r.addr = addr[c],
           \A c \in Clients : acked'[c] => acked[c] \/ \E r \in gone : r.addr = ack[c]
    PROVE  Reserved' /\ Owing'
<1>1. \A r \in Outstanding : r.by \in Clients /\ r.addr # None /\ Owes(r)
  BY Typed, RequestFacts DEF IInv, Owing
<1>2. \A r, s \in Outstanding : r.addr = s.addr => r = s
  BY DEF IInv, Queued
<1>3. ASSUME NEW r \in Outstanding, r \notin gone PROVE Owes(r)'
  BY <1>1, <1>2, <1>3 DEF Owes
<1>4. \A c \in Clients : answer'[c] # None => pc[c] \in Waiting
  <2> SUFFICES ASSUME NEW c \in Clients, NEW r \in gone, r.addr = addr[c]
               PROVE  pc[c] \in Waiting
    BY DEF IInv, Reserved
  <2>1. r.kind # "cancel" /\ r.by = c
    BY ByAddress
  <2> QED
    BY <1>1, <2>1 DEF Owes
<1>5. \A c \in Clients : acked'[c] => ack[c] # None
  BY <1>1 DEF IInv, Reserved
<1>6. Reserved'
  BY <1>4, <1>5 DEF Reserved, IInv
<1> QED
  BY <1>3, <1>6 DEF Owing

------------------------------------------------------------------------------
(* The steps of a coroutine. *)

\* A coroutine that ends has no operation.
LEMMA UnwindKeeps ==
    ASSUME IInv, NEW c \in Clients, pc[c] \in {"running", "sending"}, Unwind(c)
    PROVE  Reserved' /\ Owing' /\ Queued'
<1>1. Queued' /\ Outstanding' = Outstanding
  BY QueuedFrame DEF Unwind, ring, threads
<1>2. \A r \in Outstanding : r.by # c
  BY Idle DEF Waiting
<1>3. OthersStay(c)
  BY DEF Unwind, OthersStay, IInv, TypeOK
<1>5. Owing'
  BY <1>1, <1>2, <1>3, ClientOwing
<1>4. Reserved'
  BY DEF Unwind, Reserved, Waiting, IInv, TypeOK
<1> QED
  BY <1>1, <1>5, <1>4

\* A request of the coroutine's own goes into the channel.
LEMMA SendKeeps ==
    ASSUME IInv, NEW c \in Clients, pc[c] \in {"running", "sending"},
           NEW kind \in Operation, kind = "open" => file[c] = None,
           NEW a \in Addrs, addr' = [addr EXCEPT ![c] = a], op' = [op EXCEPT ![c] = kind],
           pc' = [pc EXCEPT ![c] = "waiting"],
           \A s \in Outstanding : s.addr # a, \A d \in Clients : ack[d] # a,
           \A d \in Clients : addr[d] = a => d = c,
           Put(To(kind), [kind |-> kind, by |-> c, addr |-> a, fd |-> file[c],
                          target |-> None]),
           UNCHANGED <<answer, ack, acked, file, requests, job>>
    PROVE  Reserved' /\ Owing' /\ Queued'
<1>1. PICK r \in Request :
        r = [kind |-> kind, by |-> c, addr |-> a, fd |-> file[c], target |-> None]
  BY DEF Request, IInv, TypeOK
<1>2. /\ r.kind = kind /\ r.by = c /\ r.addr = a /\ r.fd = file[c]
      /\ To(kind) \in {"uring", "pool"} /\ (kind = "truncate" <=> To(kind) = "pool")
      /\ kind # "cancel"
  BY <1>1 DEF To, Operation
<1>3. Put(To(kind), r)
  BY <1>1
<1>4. Queued' /\ Outstanding' = Outstanding \cup {r}
  BY <1>1, <1>2, <1>3, PutQueued
<1>5. \A s \in Outstanding : s.by # c
  BY Idle DEF Waiting
<1>6. pc'[c] = "waiting" /\ addr'[c] = a /\ file' = file /\ answer' = answer /\ answer[c] = None
  BY DEF IInv, TypeOK, Reserved, Waiting
<1>7. Owes(r)'
  BY <1>2, <1>6 DEF Owes, Waiting
<1>8. Owing'
  <2>1. OthersStay(c)
    BY DEF OthersStay, IInv, TypeOK
  <2> QED
    BY <1>4, <1>5, <1>7, <2>1, ClientOwing
<1>9. Reserved'
  BY Shape DEF Reserved, Waiting, IInv, TypeOK
<1> QED
  BY <1>4, <1>8, <1>9

\* Requester::request
LEMMA BeginKeeps ==
    ASSUME IInv, NEW c \in Clients, NEW kind \in Kinds, Begin(c, kind)
    PROVE  Reserved' /\ Owing' /\ Queued'
<1>1. pc[c] = "running" /\ kind \in Operation /\ (kind = "open" => file[c] = None)
  BY Shape DEF Begin
<1>2. CASE closed[To(kind)] /\ Unwind(c)
  BY <1>1, <1>2, UnwindKeeps
<1>3. CASE ~closed[To(kind)]
  <2>1. PICK a \in Addrs :
          /\ session(a) /\ addr' = [addr EXCEPT ![c] = a]
          /\ IF Full(To(kind))
             THEN pc' = [pc EXCEPT ![c] = "sending"] /\ UNCHANGED channel
             ELSE /\ pc' = [pc EXCEPT ![c] = "waiting"]
                  /\ Put(To(kind), [kind |-> kind, by |-> c, addr |-> a, fd |-> file[c],
                                    target |-> None])
    BY <1>3 DEF Begin, request
  <2>2. a \notin InUse
    BY <2>1 DEF session
  <2>3. /\ \A d \in Clients : addr[d] # a /\ ack[d] # a
        /\ \A s \in Outstanding : s.addr # a
    BY <2>2 DEF InUse
  <2>4. op' = [op EXCEPT ![c] = kind] /\ UNCHANGED <<answer, ack, acked, file, requests, job>>
    BY <1>1, <1>3 DEF Begin, request, ring, threads, Unwind
  <2>5. CASE Full(To(kind))
    <3>1. pc' = [pc EXCEPT ![c] = "sending"] /\ UNCHANGED channel
      BY <2>1, <2>5
    <3>2. Queued' /\ Outstanding' = Outstanding
      BY <2>4, <3>1, QueuedFrame
    <3>3. \A s \in Outstanding : s.by # c
      BY <1>1, Idle DEF Waiting
    <3>4. OthersStay(c)
      BY <2>1, <2>4, <3>1 DEF OthersStay, IInv, TypeOK
    <3>6. Owing'
      BY <3>2, <3>3, <3>4, ClientOwing
    <3>5. Reserved'
      BY <1>1, <2>1, <2>3, <2>4, <3>1, Shape DEF Reserved, Waiting, IInv, TypeOK
    <3> QED
      BY <3>2, <3>6, <3>5
  <2>6. CASE ~Full(To(kind))
    BY <1>1, <2>1, <2>3, <2>4, <2>6, SendKeeps
  <2> QED
    BY <2>5, <2>6
<1> QED
  BY <1>2, <1>3 DEF Begin, request

\* The channel has room for a coroutine that waits for it.
LEMMA SentKeeps ==
    ASSUME IInv, NEW c \in Clients, Sent(c)
    PROVE  Reserved' /\ Owing' /\ Queued'
<1>1. pc[c] = "sending" /\ op[c] \in Operation /\ (op[c] = "open" => file[c] = None)
  BY DEF Sent, IInv, Reserved
<1>2. CASE Unwind(c)
  BY <1>1, <1>2, UnwindKeeps
<1>3. CASE ~closed[To(op[c])]
  <2>1. /\ Put(To(op[c]), [kind |-> op[c], by |-> c, addr |-> addr[c], fd |-> file[c],
                           target |-> None])
        /\ pc' = [pc EXCEPT ![c] = "waiting"]
        /\ UNCHANGED <<op, addr, answer, ack, acked, file, requests, job>>
    BY <1>3 DEF Sent, ring, threads
  <2>2. addr[c] \in Addrs /\ addr[c] # None
    <3>1. addr[c] \in Addrs \cup {None}
      BY DEF IInv, TypeOK
    <3>2. addr[c] # None
      BY <1>1 DEF IInv, Reserved
    <3> QED
      BY <3>1, <3>2
  <2>3. \A s \in Outstanding : s.addr # addr[c]
    BY <1>1, Idle, ByAddress DEF Waiting
  <2>4. \A d \in Clients : ack[d] # addr[c] /\ (addr[d] = addr[c] => d = c)
    BY <2>2 DEF IInv, Reserved
  <2>5. addr' = [addr EXCEPT ![c] = addr[c]] /\ op' = [op EXCEPT ![c] = op[c]]
    BY <2>1 DEF IInv, TypeOK
  <2>6. PICK a \in Addrs : a = addr[c]
    BY <2>2
  <2>7. PICK kind \in Operation : kind = op[c]
    BY <1>1
  <2>8. Put(To(kind), [kind |-> kind, by |-> c, addr |-> a, fd |-> file[c],
                       target |-> None])
    BY <2>1, <2>6, <2>7
  <2>9. /\ \A s \in Outstanding : s.addr # a
        /\ \A d \in Clients : ack[d] # a
        /\ \A d \in Clients : addr[d] = a => d = c
        /\ addr' = [addr EXCEPT ![c] = a] /\ op' = [op EXCEPT ![c] = kind]
        /\ (kind = "open" => file[c] = None)
    BY <1>1, <2>3, <2>4, <2>5, <2>6, <2>7
  <2>10. pc[c] \in {"running", "sending"} /\ pc' = [pc EXCEPT ![c] = "waiting"]
    BY <1>1, <2>1
  <2>11. UNCHANGED <<answer, ack, acked, file, requests, job>>
    BY <2>1
  <2> QED
    BY <2>8, <2>9, <2>10, <2>11, SendKeeps
<1> QED
  BY <1>2, <1>3 DEF Sent

\* Requester::cancel
LEMMA CancelKeeps ==
    ASSUME IInv, NEW c \in Clients, Cancel(c)
    PROVE  Reserved' /\ Owing' /\ Queued'
<1>1. PICK a \in Addrs :
        /\ session(a) /\ Await(c, a)
        /\ Put("uring", [kind |-> "cancel", by |-> c, addr |-> a, fd |-> None,
                         target |-> addr[c]])
  BY DEF Cancel
<1>2. /\ pc[c] = "cancel" /\ UNCHANGED <<op, addr, answer, acked, file, requests, job>>
      /\ pc' = [pc EXCEPT ![c] = "cancelling"] /\ ack' = [ack EXCEPT ![c] = a]
  BY <1>1 DEF Cancel, ring, threads, Await
<1>3. PICK r \in Request :
        r = [kind |-> "cancel", by |-> c, addr |-> a, fd |-> None, target |-> addr[c]]
  BY DEF Request, IInv, TypeOK
<1>4. r.kind = "cancel" /\ r.by = c /\ r.addr = a /\ r.target = addr[c] /\ Put("uring", r)
  BY <1>1, <1>3
<1>5. /\ \A d \in Clients : addr[d] # a /\ ack[d] # a
      /\ \A s \in Outstanding : s.addr # a
  BY <1>1 DEF session, InUse
<1>6. Queued' /\ Outstanding' = Outstanding \cup {r}
  BY <1>2, <1>3, <1>4, <1>5, PutQueued
<1>7. pc'[c] = "cancelling" /\ ack'[c] = a /\ ~acked[c]
  BY <1>2 DEF IInv, TypeOK, Reserved
<1>8. Owes(r)'
  BY <1>2, <1>4, <1>7 DEF Owes
<1>9. Owing'
  <2>1. OthersStay(c) /\ pc'[c] \in Waiting
    BY <1>2 DEF OthersStay, Waiting, IInv, TypeOK
  <2> QED
    BY <1>2, <1>6, <1>8, <2>1, ClientOwing
<1>10. Reserved'
  BY <1>2, <1>5, Shape DEF Reserved, Waiting, IInv, TypeOK
<1> QED
  BY <1>6, <1>9, <1>10

\* The steps of a coroutine that send nothing and leave it in its operation, or out.
LEMMA QuietKeeps ==
    ASSUME IInv, NEW c \in Clients,
           \/ CloseFile(c) \/ Finish(c) \/ Interrupt(c) \/ Cancelled(c) \/ CancelFails(c)
           \/ CancelDangles(c) \/ Return(c)
    PROVE  Reserved' /\ Owing' /\ Queued'
<1>1. CASE pc[c] \in {"running", "sending"} /\ Unwind(c)
  BY <1>1, UnwindKeeps
<1>2. CASE CloseFile(c) \/ Return(c)
  <2>1. /\ Outstanding' = Outstanding /\ Queued'
        /\ \A r \in Outstanding : r.by # c
    <3>1. UNCHANGED <<channel, requests, job>>
      BY <1>2 DEF CloseFile, Return, ring, threads
    <3>2. pc[c] \notin Waiting \/ (answer[c] # None /\ pc[c] # "cancelling")
      BY <1>2 DEF CloseFile, Return, Waiting
    <3> QED
      BY <3>1, <3>2, QueuedFrame, Idle
  <2>2. OthersStay(c)
    BY <1>2 DEF CloseFile, Return, TakeResult, OthersStay, IInv, TypeOK
  <2>3. Owing'
    BY <2>1, <2>2, ClientOwing
  <2>4. /\ pc'[c] = "running" /\ addr'[c] = None /\ answer'[c] = None
        /\ ack'[c] = None /\ ~acked'[c]
    BY <1>2 DEF CloseFile, Return, IInv, TypeOK, Reserved, Waiting
  <2>5. Reserved'
    BY <2>2, <2>4, ClientReserved
  <2> QED
    BY <2>1, <2>3, <2>5
<1>3. CASE Cancelled(c) \/ CancelFails(c) \/ (Interrupt(c) /\ pc[c] = "waiting")
  <2>1. Outstanding' = Outstanding /\ Queued'
    <3>1. UNCHANGED <<channel, requests, job>>
      BY <1>3 DEF Cancelled, CancelFails, Interrupt, Unwind, ring, threads
    <3> QED
      BY <3>1, QueuedFrame
  <2>2. /\ pc[c] \in Waiting /\ pc'[c] \in {"cancel", "settling", "orphaned"}
        /\ (pc[c] # "cancelling" \/ acked[c])
        /\ UNCHANGED <<addr, file, answer>>
    BY <1>3 DEF Cancelled, CancelFails, Interrupt, Waiting, IInv, TypeOK
  <2>3. OthersStay(c)
    BY <1>3 DEF Cancelled, CancelFails, Interrupt, Unwind, OthersStay, IInv, TypeOK
  <2>4. Owing'
    BY <2>1, <2>2, <2>3, ClientOwing DEF Waiting
  <2>5. ack'[c] = None /\ ~acked'[c]
    BY <1>3 DEF Cancelled, CancelFails, Interrupt, Unwind, IInv, TypeOK, Reserved
  <2>6. addr[c] # None
    BY <2>2 DEF IInv, Reserved, Waiting
  <2>7. Reserved'
    BY <2>2, <2>3, <2>5, <2>6, ClientReserved DEF Waiting
  <2> QED
    BY <2>1, <2>4, <2>7
<1>4. CASE CancelDangles(c)
  <2>1. Outstanding' = Outstanding /\ Queued'
    BY <1>4, QueuedFrame DEF CancelDangles, ring
  <2>2. Owing' /\ Reserved'
    BY <1>4, <2>1 DEF CancelDangles, client, Owing, Owes, Reserved, IInv
  <2> QED
    BY <2>1, <2>2
<1> QED
  BY <1>1, <1>2, <1>3, <1>4 DEF Finish, Interrupt

------------------------------------------------------------------------------
(* The steps of the poller threads that take or answer requests. *)

\* Requests only move on, or are answered.
LEMMA MovedQueued ==
    ASSUME IInv, IsInjective(channel'["uring"]), IsInjective(channel'["pool"]),
           ToSet(channel'["uring"]) \cup requests' \subseteq ToSet(channel["uring"]) \cup requests,
           ToSet(channel'["pool"]) \cup Jobs' \subseteq ToSet(channel["pool"]) \cup Jobs,
           ToSet(channel'["uring"]) \cap requests' = {}, ToSet(channel'["pool"]) \cap Jobs' = {},
           \A t, u \in Pool : job'[t] = job'[u] /\ job'[t] # None => t = u
    PROVE  Queued' /\ Outstanding' \subseteq Outstanding
<1>1. Outstanding' \subseteq Outstanding
  BY DEF Outstanding, Jobs
<1> QED
  BY <1>1 DEF Queued, IInv

\* The uring thread and the pool have different requests.
LEMMA Apart ==
    ASSUME IInv, NEW r \in ToSet(channel["uring"]) \cup requests
    PROVE  /\ r \in Outstanding /\ r \in Request
           /\ r \notin ToSet(channel["pool"]) /\ r \notin Jobs
<1>1. r \in Outstanding
  BY DEF Outstanding
<1> QED
  BY <1>1, Typed DEF IInv, Queued

\* What is left in the channel once its first request was received.
LEMMA HeadGone ==
    ASSUME IInv, NEW to \in {"uring", "pool"}, channel[to] # <<>>,
           channel' = [channel EXCEPT ![to] = Tail(@)]
    PROVE  /\ Head(channel[to]) \in ToSet(channel[to])
           /\ ToSet(channel'[to]) = ToSet(channel[to]) \ {Head(channel[to])}
           /\ IsInjective(channel'[to])
           /\ \A other \in {"uring", "pool"} : other # to => channel'[other] = channel[other]
<1>1. channel[to] \in Seq(Request) /\ IsInjective(channel[to])
  BY DEF IInv, TypeOK, Queued
<1>2. /\ channel'[to] = Tail(channel[to])
      /\ \A other \in {"uring", "pool"} : other # to => channel'[other] = channel[other]
  BY DEF IInv, TypeOK
<1> QED
  BY <1>1, <1>2, TailFacts

\* State::push enters the request, answers it, or answers it and the request
\* that it cancels, whose entry is taken back.
Enters(r) ==
    /\ requests' = requests \cup {r} /\ entries' = Append(entries, r)
    /\ UNCHANGED <<answer, acked>>
AnswersOne(r) ==
    r.kind = "cancel" /\ acked' = Acks({r.addr}) /\ UNCHANGED <<answer, requests, entries>>
AnswersBoth(r, q) ==
    /\ q \in requests /\ q.kind # "cancel" /\ q.addr = r.target /\ r.kind = "cancel"
    /\ acked' = Acks({r.addr}) /\ answer' = Wakes(q.addr, "err")
    /\ requests' = requests \ {q}
    /\ \E i \in DOMAIN entries : entries[i] = q /\ entries' = SwapRemove(entries, i)

\* A Cancel finds at most one request, that is no Cancel, and whose entry is one of the batch.
LEMMA PushCases ==
    ASSUME IInv, NEW r \in ToSet(channel["uring"]), push(r)
    PROVE  Enters(r) \/ AnswersOne(r) \/ \E q \in requests : AnswersBoth(r, q)
<1> DEFINE target == {q \in requests : q.addr = r.target}
<1>1. CASE r.kind # "cancel"
  BY <1>1 DEF push, Add, Enters
<1>2. CASE r.kind = "cancel" /\ target = {}
  BY <1>2 DEF push, AnswersOne
<1>3. CASE r.kind = "cancel" /\ target # {} /\ ~Entered(r.target)
  BY <1>3 DEF push, Add, Enters
<1>4. CASE r.kind = "cancel" /\ target # {} /\ Entered(r.target)
  <2>1. /\ acked' = Acks({r.addr}) /\ answer' = Wakes(r.target, "err")
        /\ requests' = requests \ target
        /\ entries' = SwapRemove(entries, Position(r.target))
    BY <1>4 DEF push, TakeBack
  <2>2. Position(r.target) \in DOMAIN entries /\ entries[Position(r.target)].addr = r.target
    BY <1>4 DEF Entered, Position
  <2>3. PICK q \in requests : q = entries[Position(r.target)]
    BY <2>2 DEF IInv, Ring, ToSet
  <2>4. q.addr = r.target
    BY <2>2, <2>3
  <2>5. target = {q}
    BY <2>4, Typed DEF IInv, Queued
  <2>6. q.kind # "cancel"
    <3>1. Owes(r) /\ r.by \in Clients
      BY Apart, RequestFacts DEF IInv, Owing
    <3>2. addr[r.by] = q.addr
      BY <1>4, <2>4, <3>1 DEF Owes
    <3> QED
      BY <3>1, <3>2, Apart, ByAddress
  <2> QED
    BY <1>4, <2>1, <2>2, <2>3, <2>4, <2>5, <2>6 DEF AnswersBoth
<1> QED
  BY <1>1, <1>2, <1>3, <1>4

\* State::push of the first request of the channel.
LEMMA PushKeeps ==
    ASSUME IInv, channel["uring"] # <<>>, push(Head(channel["uring"])),
           channel' = [channel EXCEPT !["uring"] = Tail(@)],
           UNCHANGED <<pc, op, addr, ack, file, job>>
    PROVE  Reserved' /\ Owing' /\ Queued'
<1>1. PICK r : r = Head(channel["uring"])
  OBVIOUS
<1>2. /\ r \in ToSet(channel["uring"]) /\ IsInjective(channel'["uring"])
      /\ ToSet(channel'["uring"]) = ToSet(channel["uring"]) \ {r}
      /\ channel'["pool"] = channel["pool"] /\ push(r)
  BY <1>1, HeadGone
<1>3. r \notin requests /\ r \in Outstanding
  BY <1>2, Apart DEF IInv, Queued
<1>4. Jobs' = Jobs
  BY DEF Jobs
<1>5. /\ IsInjective(channel'["pool"]) /\ ToSet(channel'["pool"]) \cap Jobs' = {}
      /\ \A t, u \in Pool : job'[t] = job'[u] /\ job'[t] # None => t = u
  BY <1>2, <1>4 DEF IInv, Queued
<1>6. ToSet(channel["uring"]) \cap requests = {}
  BY DEF IInv, Queued
<1>7. CASE Enters(r)
  <2>1. Queued' /\ Outstanding' \subseteq Outstanding
    BY <1>2, <1>3, <1>4, <1>5, <1>6, <1>7, MovedQueued DEF Enters
  <2>2. Owing' /\ Reserved'
    BY <1>7, <2>1 DEF Enters, Owing, Owes, Reserved, IInv
  <2> QED
    BY <2>1, <2>2
<1>8. CASE AnswersOne(r)
  <2>1. Queued' /\ Outstanding' \subseteq Outstanding
    BY <1>2, <1>4, <1>5, <1>6, <1>8, MovedQueued DEF AnswersOne
  <2>2. r \notin Outstanding'
    BY <1>2, <1>3, <1>4, <1>8, Apart DEF AnswersOne, Outstanding, Jobs
  <2>3. \A c \in Clients : acked'[c] => acked[c] \/ r.addr = ack[c]
    BY <1>8 DEF AnswersOne, Acks
  <2>4. Reserved' /\ Owing'
    <3>1. {r} \in SUBSET Outstanding /\ Outstanding' \subseteq Outstanding \ {r}
      BY <1>3, <2>1, <2>2
    <3>2. /\ \A c \in Clients : answer'[c] # answer[c] => \E s \in {r} : s.addr = addr[c]
          /\ \A c \in Clients : acked'[c] => acked[c] \/ \E s \in {r} : s.addr = ack[c]
      BY <1>8, <2>3 DEF AnswersOne
    <3> QED
      BY <3>1, <3>2, Answered
  <2> QED
    BY <2>1, <2>4
<1>9. ASSUME NEW q \in requests, AnswersBoth(r, q) PROVE Reserved' /\ Owing' /\ Queued'
  <2>1. Queued' /\ Outstanding' \subseteq Outstanding
    BY <1>2, <1>4, <1>5, <1>6, <1>9, MovedQueued DEF AnswersBoth
  <2>2. r \notin Outstanding' /\ q \notin Outstanding' /\ q \in Outstanding
    BY <1>2, <1>3, <1>4, <1>6, <1>9, Apart DEF AnswersBoth, Outstanding, Jobs
  <2>3. /\ \A c \in Clients : acked'[c] => acked[c] \/ r.addr = ack[c]
        /\ \A c \in Clients : answer'[c] # answer[c] => q.addr = addr[c]
    BY <1>9 DEF AnswersBoth, Acks, Wakes
  <2>4. Reserved' /\ Owing'
    <3>1. {r, q} \in SUBSET Outstanding /\ Outstanding' \subseteq Outstanding \ {r, q}
      BY <1>3, <2>1, <2>2
    <3>2. /\ \A c \in Clients : answer'[c] # answer[c] => \E s \in {r, q} : s.addr = addr[c]
          /\ \A c \in Clients : acked'[c] => acked[c] \/ \E s \in {r, q} : s.addr = ack[c]
      BY <2>3
    <3> QED
      BY <3>1, <3>2, Answered
  <2> QED
    BY <2>1, <2>4
<1> QED
  BY <1>2, <1>7, <1>8, <1>9, PushCases

\* Every completion is of a request that State holds.
LEMMA Completed ==
    ASSUME IInv, NEW e \in cq
    PROVE  \E r \in requests : /\ r \notin ToSet(entries) /\ r.addr = e.addr
                               /\ e.result \in Fds => r.kind = "open"
BY DEF IInv, Ring, Submitted

\* consume() answers what completed.
LEMMA ConsumeKeeps ==
    ASSUME IInv, consume, UNCHANGED <<pc, op, addr, ack, file, job, channel>>
    PROVE  Reserved' /\ Owing' /\ Queued' /\ UNCHANGED fault
<1> DEFINE done == {e.addr : e \in cq}
           gone == {r \in requests : r.addr \in done}
<1>1. /\ requests' = {r \in requests : r.addr \notin done} /\ acked' = Acks(done)
      /\ \A c \in Clients : answer'[c] # answer[c] => addr[c] \in done
      /\ fault' = IF done \subseteq {r.addr : r \in requests} THEN fault ELSE "panic"
  BY DEF consume, IInv, TypeOK
<1>2. \A a \in done : \E r \in gone : r.addr = a
  BY Completed
<1>3. UNCHANGED fault
  BY <1>1, <1>2
<1>4. Jobs' = Jobs
  BY DEF Jobs
<1>5. requests' = requests \ gone
  BY <1>1
<1> HIDE DEF done
<1>6. Queued' /\ Outstanding' \subseteq Outstanding
  BY <1>4, <1>5, MovedQueued DEF IInv, Queued
<1>7. ASSUME NEW r \in gone PROVE r \in Outstanding /\ r \notin Outstanding'
  BY <1>4, <1>5, <1>7, Apart DEF Outstanding, Jobs, IInv, Queued
<1>8. gone \in SUBSET Outstanding /\ Outstanding' \subseteq Outstanding \ gone
  BY <1>6, <1>7
<1>9. /\ \A c \in Clients : answer'[c] # answer[c] => \E r \in gone : r.addr = addr[c]
      /\ \A c \in Clients : acked'[c] => acked[c] \/ \E r \in gone : r.addr = ack[c]
  BY <1>1, <1>2 DEF Acks
<1> HIDE DEF gone
<1>10. Reserved' /\ Owing'
  BY <1>8, <1>9, Answered
<1> QED
  BY <1>3, <1>6, <1>10

\* A pool thread takes a request, or has served it.
LEMMA PoolKeeps ==
    ASSUME IInv, NEW t \in Pool, Take(t) \/ process(t)
    PROVE  Reserved' /\ Owing' /\ Queued' /\ UNCHANGED fault
<1>1. \A u \in Pool : job[u] # None => job[u] \in Jobs
  BY DEF Jobs
<1>2. CASE Take(t)
  <2>1. PICK r : r = Head(channel["pool"])
    OBVIOUS
  <2>2. /\ r \in ToSet(channel["pool"]) /\ IsInjective(channel'["pool"])
        /\ ToSet(channel'["pool"]) = ToSet(channel["pool"]) \ {r}
        /\ channel'["uring"] = channel["uring"]
    BY <1>2, <2>1, HeadGone DEF Take
  <2>3. /\ job[t] = None /\ job' = [job EXCEPT ![t] = r] /\ job \in [Pool -> Request \cup {None}]
        /\ UNCHANGED <<client, requests>>
    BY <1>2, <2>1 DEF Take, IInv, TypeOK, ring
  <2>4. r \in Request /\ r # None /\ r \notin Jobs
    BY <2>2, Typed, RequestFacts DEF IInv, Queued
  <2>5. job'[t] = r /\ \A u \in Pool : u # t => job'[u] = job[u]
    BY <2>3
  <2>6. Jobs' = Jobs \cup {r}
    BY <2>3, <2>4, <2>5 DEF Jobs
  <2>7. \A u, v \in Pool : job'[u] = job'[v] /\ job'[u] # None => u = v
    BY <1>1, <2>4, <2>5 DEF IInv, Queued
  <2>8. Queued' /\ Outstanding' \subseteq Outstanding
    BY <2>2, <2>3, <2>4, <2>6, <2>7, MovedQueued DEF IInv, Queued
  <2>9. Owing' /\ Reserved'
    BY <2>3, <2>8 DEF client, Owing, Owes, Reserved, IInv
  <2> QED
    BY <1>2, <2>8, <2>9 DEF Take
<1>3. CASE process(t)
  <2>1. PICK r : r = job[t]
    OBVIOUS
  <2>2. r # None /\ r \in Jobs /\ r.kind = "truncate" /\ r \in Outstanding
    BY <1>1, <1>3, <2>1, Typed DEF process, IInv, Queued
  <2>3. /\ job' = [job EXCEPT ![t] = None] /\ answer' = Wakes(r.addr, "ok")
        /\ UNCHANGED <<pc, op, addr, ack, acked, file, channel, requests, fault>>
    BY <1>3, <2>1, <2>2 DEF process, ring
  <2>4. \A u \in Pool : job'[u] = IF u = t THEN None ELSE job[u]
    BY <2>3 DEF IInv, TypeOK
  <2>5. Jobs' = Jobs \ {r}
    BY <2>1, <2>2, <2>4, <1>1 DEF Jobs, IInv, Queued
  <2>6. Queued' /\ Outstanding' \subseteq Outstanding
    BY <2>3, <2>4, <2>5, MovedQueued DEF IInv, Queued
  <2>7. r \notin Outstanding'
    <3>1. r \notin ToSet(channel["uring"]) /\ r \notin requests /\ r \notin ToSet(channel["pool"])
      BY <2>2, Apart DEF IInv, Queued
    <3> QED
      BY <2>3, <2>5, <3>1 DEF Outstanding, Jobs
  <2>8. {r} \in SUBSET Outstanding /\ Outstanding' \subseteq Outstanding \ {r}
    BY <2>2, <2>6, <2>7
  <2>9. /\ \A c \in Clients : answer'[c] # answer[c] => \E s \in {r} : s.addr = addr[c]
        /\ \A c \in Clients : acked'[c] => acked[c] \/ \E s \in {r} : s.addr = ack[c]
    BY <2>3 DEF Wakes
  <2>10. Reserved' /\ Owing'
    BY <2>3, <2>8, <2>9, Answered
  <2> QED
    BY <2>3, <2>6, <2>10
<1> QED
  BY <1>2, <1>3

------------------------------------------------------------------------------
(* The ring. *)

\* The kernel keeps a request's address, and its kind until it is cancelled or
\* has found its target.
LEMMA InFacts ==
    ASSUME NEW r \in Request, NEW k \in In(r)
    PROVE  /\ k.addr = r.addr /\ k.by = r.by /\ k.fd = r.fd
           /\ k.kind \in Operation \cup {"cancel"} => k = r
           /\ k.kind = "done" \/ k.kind = "cancel" <=> r.kind = "cancel"
           /\ r.kind # "cancel" => [k EXCEPT !.kind = "cancelled"] \in In(r)
<1>1. /\ [r EXCEPT !.kind = "done"].kind = "done" /\ [r EXCEPT !.kind = "done"].addr = r.addr
      /\ [r EXCEPT !.kind = "done"].by = r.by /\ [r EXCEPT !.kind = "done"].fd = r.fd
  BY DEF Request
<1>2. /\ [r EXCEPT !.kind = "cancelled"].kind = "cancelled"
      /\ [r EXCEPT !.kind = "cancelled"].addr = r.addr
      /\ [r EXCEPT !.kind = "cancelled"].by = r.by /\ [r EXCEPT !.kind = "cancelled"].fd = r.fd
      /\ [[r EXCEPT !.kind = "cancelled"] EXCEPT !.kind = "cancelled"]
            = [r EXCEPT !.kind = "cancelled"]
  BY DEF Request
<1>3. r.kind \in Operation \cup {"cancel"}
  BY RequestFacts
<1> QED
  BY <1>1, <1>2, <1>3 DEF In, Operation

\* A step that leaves the ring alone.
LEMMA RingFrame ==
    ASSUME IInv, UNCHANGED <<requests, entries, kernel, cq>>, upc' \in {upc, "submit", "gone"},
           upc' = "gone" => upc = "select"
    PROVE  Ring'
BY DEF Ring, Submitted, IInv

\* State::push changes the batch, and nothing that left it.
LEMMA PushRing ==
    ASSUME IInv, channel["uring"] # <<>>, push(Head(channel["uring"])), upc' = "submit",
           UNCHANGED <<kernel, cq>>
    PROVE  Ring' /\ requests' \subseteq Request /\ entries' \in Seq(Request)
           /\ Len(entries') <= Len(entries) + 1
<1>1. PICK r : r = Head(channel["uring"])
  OBVIOUS
<1>2. r \in ToSet(channel["uring"])
  <2>1. channel["uring"] \in Seq(Request) /\ IsInjective(channel["uring"])
    BY DEF IInv, TypeOK, Queued
  <2> QED
    BY <1>1, <2>1, TailFacts
<1>3. r \in Request /\ r \notin requests /\ push(r)
  BY <1>1, <1>2, Apart DEF IInv, Queued
<1>4. /\ requests \subseteq Request /\ entries \in Seq(Request) /\ IsInjective(entries)
      /\ ToSet(entries) \subseteq requests /\ Len(entries) \in Nat
  BY DEF IInv, TypeOK, Ring
<1>5. CASE Enters(r)
  <2>1. requests' = requests \cup {r} /\ entries' = Append(entries, r)
    BY <1>5 DEF Enters
  <2>2. ToSet(entries') = ToSet(entries) \cup {r} /\ IsInjective(entries')
    BY <1>3, <1>4, <2>1, AppendFacts
  <2>3. Submitted' = Submitted
    BY <1>3, <2>1, <2>2 DEF Submitted
  <2>4. Ring'
    BY <1>4, <2>1, <2>2, <2>3 DEF Ring, IInv
  <2> QED
    BY <1>3, <1>4, <2>1, <2>4
<1>6. CASE AnswersOne(r)
  <2>1. UNCHANGED <<requests, entries>>
    BY <1>6 DEF AnswersOne
  <2> QED
    BY <1>4, <2>1, RingFrame
<1>7. ASSUME NEW q \in requests, AnswersBoth(r, q)
      PROVE  /\ Ring' /\ requests' \subseteq Request /\ entries' \in Seq(Request)
             /\ Len(entries') <= Len(entries) + 1
  <2>1. PICK i \in DOMAIN entries : entries[i] = q /\ entries' = SwapRemove(entries, i)
    BY <1>7 DEF AnswersBoth
  <2>2. /\ requests' = requests \ {q} /\ entries' \in Seq(Request)
        /\ ToSet(entries') = ToSet(entries) \ {q} /\ IsInjective(entries')
        /\ Len(entries') = Len(entries) - 1
    BY <1>4, <1>7, <2>1, SwapRemoveFacts DEF AnswersBoth
  <2>3. q \in ToSet(entries)
    BY <2>1 DEF ToSet
  <2>4. Submitted' = Submitted
    BY <2>2, <2>3 DEF Submitted
  <2>5. Ring'
    BY <1>4, <2>2, <2>4 DEF Ring, IInv
  <2> QED
    BY <1>4, <2>2, <2>5
<1> QED
  BY <1>2, <1>3, <1>5, <1>6, <1>7, PushCases

\* The batch goes to the kernel.
LEMMA SubmitRing == IInv /\ Submit => Ring'
<1> SUFFICES ASSUME IInv, Submit PROVE Ring'
  OBVIOUS
<1>1. /\ kernel' = kernel \cup ToSet(entries) /\ entries' = <<>>
      /\ UNCHANGED <<requests, cq>>
  BY DEF Submit
<1>2. /\ requests \subseteq Request /\ requests \subseteq Outstanding
      /\ ToSet(entries) \subseteq requests
  BY Typed DEF IInv, TypeOK, Ring
<1>3. ToSet(entries') = {} /\ IsInjective(entries')
  BY <1>1 DEF ToSet, IsInjective
<1>4. Submitted' = requests /\ Submitted \subseteq requests
  BY <1>1, <1>3 DEF Submitted
<1>5. \A k \in kernel' : \E r \in requests : k \in In(r)
  BY <1>1, <1>2 DEF In, Ring, Submitted, IInv
<1>6. ASSUME NEW k \in kernel, NEW r \in ToSet(entries) PROVE k.addr # r.addr
  <2>1. PICK s \in Submitted : k \in In(s)
    BY DEF Ring, IInv
  <2>2. s \in requests /\ s # r /\ k.addr = s.addr
    BY <1>2, <2>1, InFacts DEF Submitted
  <2> QED
    BY <1>2, <2>2 DEF IInv, Queued
<1>7. \A k, l \in kernel' : k.addr = l.addr => k = l
  BY <1>1, <1>2, <1>6 DEF Ring, IInv, Queued
<1>8. ASSUME NEW e \in cq, NEW r \in ToSet(entries) PROVE e.addr # r.addr
  BY <1>2, Completed DEF IInv, Queued
<1>9. \A e \in cq', k \in kernel' : e.addr # k.addr
  BY <1>1, <1>8 DEF Ring, IInv
<1>10. \A e \in cq' : \E r \in Submitted' : /\ r.addr = e.addr
                                            /\ e.result \in Fds => r.kind = "open"
  BY <1>1, <1>4, Completed
<1>11. /\ cq' \subseteq [addr : Addrs, result : Fds \cup {"ok", "err"}]
       /\ \A e, f \in cq' : e.addr = f.addr => e = f
  BY <1>1 DEF Ring, IInv
<1> QED
  BY <1>1, <1>3, <1>4, <1>5, <1>7, <1>9, <1>10, <1>11 DEF Ring

\* What is still in the kernel is not among what completed.
LEMMA ConsumeRing ==
    ASSUME IInv, consume, upc # "submit", UNCHANGED <<entries, kernel>>
    PROVE  Ring'
<1> DEFINE done == {e.addr : e \in cq}
<1>1. requests' = {r \in requests : r.addr \notin done} /\ cq' = {} /\ entries = <<>>
  BY DEF consume, Ring, IInv
<1>2. requests \subseteq Request /\ ToSet(entries) = {}
  BY <1>1 DEF IInv, TypeOK, ToSet
<1>3. ASSUME NEW k \in kernel PROVE \E r \in Submitted' : k \in In(r)
  <2>1. PICK s \in Submitted : k \in In(s)
    BY DEF Ring, IInv
  <2>2. s.addr = k.addr /\ s \in requests
    BY <1>2, <2>1, InFacts DEF Submitted
  <2>3. s.addr \notin done
    BY <2>2 DEF Ring, IInv
  <2> QED
    BY <1>1, <1>2, <2>1, <2>2, <2>3 DEF Submitted
<1> HIDE DEF done
<1>4. \A k, l \in kernel : k.addr = l.addr => k = l
  BY DEF Ring, IInv
<1>5. IsInjective(entries) /\ ToSet(entries') = {}
  BY <1>2 DEF Ring, IInv
<1> QED
  BY <1>1, <1>3, <1>4, <1>5 DEF Ring

\* A completion is of a request that the kernel had.
LEMMA CompleteRing ==
    ASSUME IInv, NEW r \in kernel, Complete(r)
    PROVE  Ring'
<1>1. PICK value \in CASE r.kind = "open" -> Fds \cup {"err"}
                       [] r.kind = "cancelled" -> {"err"}
                       [] OTHER -> {"ok"} :
         cq' = cq \cup {[addr |-> r.addr, result |-> value]}
  BY DEF Complete
<1>2. /\ value \in Fds \cup {"ok", "err"}
      /\ value \in Fds => r.kind = "open"
  BY <1>1, Shape
<1>3. kernel' = kernel \ {r} /\ UNCHANGED <<requests, entries, upc>>
  BY DEF Complete
<1>4. PICK s \in Submitted : r \in In(s)
  BY DEF Ring, IInv
<1>5. /\ s \in Request /\ r.addr = s.addr /\ r.addr \in Addrs
      /\ r.kind = "open" => s.kind = "open"
  <2>1. s \in Request
    BY <1>4 DEF Submitted, IInv, TypeOK
  <2> QED
    BY <1>4, <2>1, InFacts, RequestFacts, ZenonT(60) DEF Operation
<1>6. Submitted' = Submitted
  BY <1>3 DEF Submitted
<1>7. PICK e : e = [addr |-> r.addr, result |-> value]
  OBVIOUS
<1>8. /\ cq' = cq \cup {e} /\ e.addr = r.addr /\ e.result = value
      /\ e \in [addr : Addrs, result : Fds \cup {"ok", "err"}]
  BY <1>1, <1>2, <1>5, <1>7
<1>9. /\ \A f \in cq : f.addr # e.addr
      /\ \A k \in kernel' : k.addr # e.addr
  BY <1>3, <1>8 DEF Ring, IInv
<1>10. \A f \in cq' : \E q \in Submitted' : /\ q.addr = f.addr
                                            /\ f.result \in Fds => q.kind = "open"
  BY <1>2, <1>4, <1>5, <1>6, <1>8 DEF Ring, IInv
<1>11. /\ \A f, g \in cq' : f.addr = g.addr => f = g
       /\ \A f \in cq', k \in kernel' : f.addr # k.addr
  BY <1>3, <1>8, <1>9 DEF Ring, IInv
<1>12. /\ \A k \in kernel' : \E q \in Submitted' : k \in In(q)
       /\ \A k, l \in kernel' : k.addr = l.addr => k = l
       /\ cq' \subseteq [addr : Addrs, result : Fds \cup {"ok", "err"}]
  BY <1>3, <1>6, <1>8 DEF Ring, IInv
<1>13. /\ IsInjective(entries') /\ ToSet(entries') \subseteq requests'
       /\ upc' # "submit" => entries' = <<>>
  BY <1>3 DEF Ring, IInv
<1> QED
  BY <1>10, <1>11, <1>12, <1>13 DEF Ring

\* AsyncCancel marks its target, which is no AsyncCancel, and itself.
LEMMA FindTargetRing ==
    ASSUME IInv, NEW r \in kernel, FindTarget(r)
    PROVE  Ring'
<1> DEFINE target == {q \in kernel : q.addr = r.target}
           found == [r EXCEPT !.kind = "done"]
           marked == {[q EXCEPT !.kind = "cancelled"] : q \in target}
<1>1. /\ r.kind = "cancel" /\ UNCHANGED <<requests, entries, cq, upc>>
      /\ \/ kernel' = (kernel \ ({r} \cup target)) \cup marked \cup {found}
         \/ kernel' = (kernel \ {r}) \cup {found}
  BY DEF FindTarget
<1>2. requests \subseteq Request /\ Submitted \subseteq requests /\ requests \subseteq Outstanding
  BY Typed DEF IInv, TypeOK, Submitted
<1>3. r \in Submitted /\ r \in Request /\ r \in Outstanding
  <2>1. PICK s \in Submitted : r \in In(s)
    BY DEF Ring, IInv
  <2> QED
    BY <1>1, <1>2, <2>1, InFacts
<1>4. found \in In(r) /\ found.addr = r.addr
  BY <1>1, <1>3 DEF In, Request
<1>5. r.by \in Clients /\ addr[r.by] = r.target /\ r.addr # None /\ r.addr # r.target
  <2>1. Owes(r) /\ r.by \in Clients /\ r.addr # None
    BY <1>3, RequestFacts DEF IInv, Owing
  <2> QED
    BY <1>1, <2>1 DEF Owes, IInv, Reserved
<1>6. ASSUME NEW q \in target
      PROVE  /\ \E s \in Submitted : [q EXCEPT !.kind = "cancelled"] \in In(s)
             /\ [q EXCEPT !.kind = "cancelled"].addr = r.target
  <2>1. PICK s \in Submitted : q \in In(s)
    BY DEF Ring, IInv
  <2>2. s.addr = r.target /\ s \in Request /\ s \in Outstanding
    BY <1>2, <2>1, InFacts
  <2>3. s.kind # "cancel"
    BY <1>5, <2>2, ByAddress
  <2>4. [q EXCEPT !.kind = "cancelled"] \in In(s)
    BY <2>1, <2>2, <2>3, InFacts
  <2> QED
    BY <2>2, <2>4, InFacts
<1>7. \A q, s \in target : q = s
  BY DEF Ring, IInv
<1>14. /\ \A k \in marked : k.addr = r.target
       /\ \A k, l \in marked : k = l
  BY <1>6, <1>7
<1>15. \A k \in marked : \E s \in Submitted : k \in In(s)
  BY <1>6
<1>16. marked # {} => \E q \in kernel : q.addr = r.target
  OBVIOUS
<1> HIDE DEF found, marked
<1>8. \A k \in kernel' : \E s \in Submitted : k \in In(s)
  BY <1>1, <1>3, <1>4, <1>15 DEF Ring, IInv
<1>9. \A k \in kernel' : \E l \in kernel : k.addr = l.addr
  BY <1>1, <1>3, <1>4, <1>14, <1>16
<1>10. \A k \in kernel' : k.addr = r.addr => k = found
  BY <1>1, <1>4, <1>5, <1>14 DEF Ring, IInv
<1>11. \A k, l \in kernel' : k.addr = l.addr => k = l
  <2> SUFFICES ASSUME NEW k \in kernel', NEW l \in kernel', k.addr = l.addr PROVE k = l
    OBVIOUS
  <2>1. CASE k.addr = r.addr
    BY <1>10, <2>1
  <2>2. CASE k.addr # r.addr /\ k.addr = r.target /\ kernel' = (kernel \ {r}) \cup {found}
    BY <1>4, <2>2 DEF Ring, IInv
  <2>3. CASE k.addr = r.target /\ kernel' = (kernel \ ({r} \cup target)) \cup marked \cup {found}
    BY <1>4, <1>5, <1>14, <2>3
  <2>4. CASE k.addr # r.addr /\ k.addr # r.target
    BY <1>1, <1>4, <1>14, <2>4 DEF Ring, IInv
  <2> QED
    BY <1>1, <2>1, <2>2, <2>3, <2>4
<1>12. \A e \in cq', k \in kernel' : e.addr # k.addr
  BY <1>1, <1>9 DEF Ring, IInv
<1>13. Submitted' = Submitted
  BY <1>1 DEF Submitted
<1> QED
  BY <1>1, <1>8, <1>11, <1>12, <1>13 DEF Ring, IInv

------------------------------------------------------------------------------
(* The descriptors. *)

\* A step that touches neither descriptors nor results.
LEMMA FilesFrame == ASSUME IInv, UNCHANGED <<open, file, answer, cq>> PROVE Files'
BY DEF Files, IInv

\* Where a descriptor that is open is.
InFile(x) == \E c \in Clients : file[c] = x
InAnswer(x) == \E c \in Clients : answer[c] = x
InCompletion(x) == \E e \in cq : e.result = x

\* What Files says of open, place by place.
LEMMA OpenMeans ==
    /\ open = Fds \cap ({file[c] : c \in Clients} \cup {answer[c] : c \in Clients}
                           \cup {e.result : e \in cq})
          <=> /\ open \subseteq Fds
              /\ \A x \in Fds : x \in open <=> InFile(x) \/ InAnswer(x) \/ InCompletion(x)
BY DEF InFile, InAnswer, InCompletion

\* A File is dropped, and its descriptor closed.
LEMMA CloseFiles ==
    ASSUME IInv, NEW c \in Clients, file' = [file EXCEPT ![c] = None],
           open' = open \ {file[c]}, UNCHANGED <<answer, cq>>
    PROVE  Files'
<1>1. \A d \in Clients : file'[d] = IF d = c THEN None ELSE file[d]
  BY DEF IInv, TypeOK
<1>2. None \notin Fds
  BY Shape
<1>3. /\ open \subseteq Fds
      /\ \A x \in Fds : x \in open <=> InFile(x) \/ InAnswer(x) \/ InCompletion(x)
  BY OpenMeans DEF IInv, Files
<1>4. /\ open' \subseteq Fds
      /\ \A x \in Fds : x \in open' <=> InFile(x)' \/ InAnswer(x)' \/ InCompletion(x)'
  BY <1>1, <1>2, <1>3 DEF InFile, InAnswer, InCompletion, Files, IInv
<1>5. open' = Fds \cap ({file'[d] : d \in Clients} \cup {answer'[d] : d \in Clients}
                           \cup {e.result : e \in cq'})
  BY <1>4 DEF InFile, InAnswer, InCompletion
<1> QED
  BY <1>1, <1>2, <1>5 DEF Files, IInv

\* The result of a coroutine's operation becomes its File, if it is a descriptor.
LEMMA ReturnFiles ==
    ASSUME IInv, NEW c \in Clients, Return(c)
    PROVE  Files'
<1>1. /\ \A d \in Clients : answer'[d] = IF d = c THEN None ELSE answer[d]
      /\ UNCHANGED <<open, cq>>
  BY DEF Return, ring, IInv, TypeOK
<1>2. None \notin Fds
  BY Shape
<1>3. /\ open \subseteq Fds
      /\ \A x \in Fds : x \in open <=> InFile(x) \/ InAnswer(x) \/ InCompletion(x)
  BY OpenMeans DEF IInv, Files
<1>4. CASE answer[c] \in Fds
  <2>1. \A d \in Clients : file'[d] = IF d = c THEN answer[c] ELSE file[d]
    BY <1>4 DEF Return, TakeResult, IInv, TypeOK
  <2>2. file[c] = None
    BY <1>4 DEF Files, IInv
  <2>3. \A x \in Fds : x \in open' <=> InFile(x)' \/ InAnswer(x)' \/ InCompletion(x)'
    BY <1>1, <1>2, <1>3, <2>1, <2>2 DEF InFile, InAnswer, InCompletion
  <2>4. open' = Fds \cap ({file'[d] : d \in Clients} \cup {answer'[d] : d \in Clients}
                             \cup {e.result : e \in cq'})
    BY <1>1, <1>3, <2>3 DEF InFile, InAnswer, InCompletion
  <2> QED
    BY <1>1, <1>2, <1>4, <2>1, <2>2, <2>4 DEF Files, IInv
<1>5. CASE answer[c] \notin Fds
  <2>1. file' = file
    BY <1>5 DEF Return, TakeResult
  <2>2. \A x \in Fds : x \in open' <=> InFile(x)' \/ InAnswer(x)' \/ InCompletion(x)'
    BY <1>1, <1>2, <1>3, <1>5, <2>1 DEF InFile, InAnswer, InCompletion
  <2>3. open' = Fds \cap ({file'[d] : d \in Clients} \cup {answer'[d] : d \in Clients}
                             \cup {e.result : e \in cq'})
    BY <1>1, <1>3, <2>2 DEF InFile, InAnswer, InCompletion
  <2> QED
    BY <1>1, <1>2, <2>1, <2>3 DEF Files, IInv
<1> QED
  BY <1>4, <1>5

\* Whoever an outstanding operation is for was not answered.
LEMMA Unanswered ==
    ASSUME IInv, NEW r \in Outstanding, NEW c \in Clients, addr[c] = r.addr
    PROVE  /\ answer[c] = None /\ r.by = c /\ r.kind # "cancel"
           /\ r.kind = "open" => file[c] = None
<1>1. r.by = c /\ r.kind # "cancel" /\ Owes(r)
  BY ByAddress DEF IInv, Owing
<1> QED
  BY <1>1 DEF Owes

\* A session is woken with a result that is no descriptor.
LEMMA WakesFiles ==
    ASSUME IInv, NEW r \in Outstanding, NEW value \in {"ok", "err"},
           answer' = Wakes(r.addr, value), UNCHANGED <<open, file, cq>>
    PROVE  Files'
<1>1. None \notin Fds /\ value \notin Fds
  BY Shape
<1>2. \A c \in Clients : \/ answer'[c] = answer[c]
                         \/ answer[c] = None /\ answer'[c] = value
  BY Unanswered DEF Wakes
<1>3. /\ open \subseteq Fds
      /\ \A x \in Fds : x \in open <=> InFile(x) \/ InAnswer(x) \/ InCompletion(x)
  BY OpenMeans DEF IInv, Files
<1>4. \A x \in Fds : x \in open' <=> InFile(x)' \/ InAnswer(x)' \/ InCompletion(x)'
  BY <1>1, <1>2, <1>3 DEF InFile, InAnswer, InCompletion
<1>5. open' = Fds \cap ({file'[d] : d \in Clients} \cup {answer'[d] : d \in Clients}
                           \cup {e.result : e \in cq'})
  BY <1>3, <1>4 DEF InFile, InAnswer, InCompletion
<1> QED
  BY <1>1, <1>2, <1>5 DEF Files, IInv

\* State::push answers no request with a descriptor.
LEMMA PushFiles ==
    ASSUME IInv, NEW r \in ToSet(channel["uring"]), push(r), UNCHANGED <<open, file, cq>>
    PROVE  Files'
<1>1. CASE Enters(r) \/ AnswersOne(r)
  BY <1>1, FilesFrame DEF Enters, AnswersOne
<1>2. ASSUME NEW q \in requests, AnswersBoth(r, q) PROVE Files'
  <2>1. q \in Outstanding /\ answer' = Wakes(q.addr, "err")
    BY <1>2, Typed DEF AnswersBoth, IInv
  <2> QED
    BY <2>1, WakesFiles
<1> QED
  BY <1>1, <1>2, PushCases

\* Descriptors go from the completions to the sessions that waited for them.
LEMMA ConsumeFiles ==
    ASSUME IInv, consume, UNCHANGED <<open, file, addr>>
    PROVE  Files'
<1>1. requests \subseteq Outstanding
  BY Typed DEF IInv
<1>2. ASSUME NEW e \in cq, e.result \in Fds
      PROVE  \E c \in Clients : addr[c] = e.addr
  <2>1. PICK r \in requests : r.addr = e.addr /\ r.kind = "open"
    BY <1>2, Completed
  <2>2. Owes(r) /\ r.by \in Clients
    BY <1>1, Typed, RequestFacts DEF IInv, Owing
  <2> QED
    BY <2>1, <2>2 DEF Owes
<1>3. ASSUME NEW c \in Clients, NEW e \in cq, addr[c] = e.addr
      PROVE  /\ answer[c] = None /\ answer'[c] = e.result
             /\ e.result \in Fds => file[c] = None
  <2>1. PICK r \in requests : r.addr = e.addr /\ (e.result \in Fds => r.kind = "open")
    BY Completed
  <2>2. \A f \in cq : f.addr = e.addr => f = e
    BY DEF IInv, Ring
  <2>3. answer'[c] = e.result
    BY <1>3, <2>2 DEF consume
  <2> QED
    BY <1>1, <1>3, <2>1, <2>3, Unanswered
<1>4. ASSUME NEW c \in Clients, \A e \in cq : addr[c] # e.addr
      PROVE  answer'[c] = answer[c]
  BY <1>4 DEF consume
<1>5. cq' = {} /\ None \notin Fds
  BY Shape DEF consume
<1>6. /\ open \subseteq Fds
      /\ \A x \in Fds : x \in open <=> InFile(x) \/ InAnswer(x) \/ InCompletion(x)
  BY OpenMeans DEF IInv, Files
<1>7. ASSUME NEW c \in Clients, answer'[c] \in Fds
      PROVE  \/ answer'[c] = answer[c]
             \/ \E e \in cq : /\ addr[c] = e.addr /\ answer'[c] = e.result
                              /\ answer[c] = None /\ file[c] = None
  BY <1>3, <1>4, <1>7
<1>8. \A x \in Fds : x \in open' <=> InFile(x)' \/ InAnswer(x)' \/ InCompletion(x)'
  <2> SUFFICES ASSUME NEW x \in Fds
               PROVE  InAnswer(x)' <=> InAnswer(x) \/ InCompletion(x)
    BY <1>5, <1>6 DEF InFile, InCompletion
  <2>1. InAnswer(x)' => InAnswer(x) \/ InCompletion(x)
    BY <1>7 DEF InAnswer, InCompletion
  <2>2. InAnswer(x) => InAnswer(x)'
    BY <1>3, <1>4, <1>5 DEF InAnswer
  <2>3. InCompletion(x) => InAnswer(x)'
    BY <1>2, <1>3 DEF InAnswer, InCompletion
  <2> QED
    BY <2>1, <2>2, <2>3
<1>9. open' = Fds \cap ({file'[d] : d \in Clients} \cup {answer'[d] : d \in Clients}
                           \cup {e.result : e \in cq'})
  BY <1>6, <1>8 DEF InFile, InAnswer, InCompletion
<1>10. \A c, d \in Clients : answer'[c] = answer'[d] /\ answer'[c] \in Fds => c = d
  <2> SUFFICES ASSUME NEW c \in Clients, NEW d \in Clients, answer'[c] = answer'[d],
                      answer'[c] \in Fds
               PROVE  c = d
    OBVIOUS
  <2>1. CASE answer'[c] = answer[c] /\ answer'[d] = answer[d]
    BY <2>1 DEF IInv, Files
  <2>2. ASSUME NEW e \in cq, NEW f \in cq, addr[c] = e.addr, addr[d] = f.addr,
               answer'[c] = e.result, answer'[d] = f.result
        PROVE  c = d
    <3>1. e = f
      BY <2>2 DEF IInv, Files
    <3>2. e.addr # None
      <4>1. PICK r \in requests : r.addr = e.addr
        BY Completed
      <4> QED
        BY <1>1, <4>1, Typed, RequestFacts DEF IInv
    <3> QED
      BY <2>2, <3>1, <3>2 DEF IInv, Reserved
  <2>3. ASSUME NEW e \in cq, answer'[c] = e.result, answer'[d] = answer[d] PROVE FALSE
    BY <2>3 DEF IInv, Files
  <2>4. ASSUME NEW e \in cq, answer'[d] = e.result, answer'[c] = answer[c] PROVE FALSE
    BY <2>4 DEF IInv, Files
  <2> QED
    BY <1>7, <2>1, <2>2, <2>3, <2>4
<1>11. \A c, d \in Clients : answer'[c] \in Fds => file'[d] # answer'[c]
  BY <1>7 DEF IInv, Files
<1>12. \A c \in Clients : answer'[c] \in Fds => file'[c] = None
  BY <1>7 DEF IInv, Files
<1>13. \A c, d \in Clients : file'[c] = file'[d] /\ file'[c] \in Fds => c = d
  BY DEF IInv, Files
<1> QED
  BY <1>5, <1>9, <1>10, <1>11, <1>12, <1>13 DEF Files

\* The kernel gives out a descriptor that is in no File and on its way to none.
LEMMA CompleteFiles ==
    ASSUME IInv, NEW r \in kernel, Complete(r)
    PROVE  Files'
<1>1. PICK value \in CASE r.kind = "open" -> Fds \cup {"err"}
                       [] r.kind = "cancelled" -> {"err"}
                       [] OTHER -> {"ok"} :
         /\ value \notin open
         /\ open' = IF value \in Fds THEN open \cup {value} ELSE open
         /\ cq' = cq \cup {[addr |-> r.addr, result |-> value]}
  BY DEF Complete
<1>2. UNCHANGED <<file, answer>>
  BY DEF Complete, client
<1>3. PICK e : e = [addr |-> r.addr, result |-> value]
  OBVIOUS
<1>4. cq' = cq \cup {e} /\ e.result = value
  BY <1>1, <1>3
<1>5. /\ open \subseteq Fds
      /\ \A x \in Fds : x \in open <=> InFile(x) \/ InAnswer(x) \/ InCompletion(x)
  BY OpenMeans DEF IInv, Files
<1>6. open' \subseteq Fds
  BY <1>1, <1>5
<1>7. \A x \in Fds : x \in open' <=> InFile(x)' \/ InAnswer(x)' \/ InCompletion(x)'
  BY <1>1, <1>2, <1>4, <1>5 DEF InFile, InAnswer, InCompletion
<1>8. open' = Fds \cap ({file'[d] : d \in Clients} \cup {answer'[d] : d \in Clients}
                           \cup {f.result : f \in cq'})
  BY <1>6, <1>7 DEF InFile, InAnswer, InCompletion
<1>9. value \in Fds => ~InFile(value) /\ ~InAnswer(value) /\ ~InCompletion(value)
  BY <1>1, <1>5
<1>10. /\ \A f, g \in cq' : f.result = g.result /\ f.result \in Fds => f = g
       /\ \A c \in Clients, f \in cq' : f.result \in Fds =>
             file'[c] # f.result /\ answer'[c] # f.result
  BY <1>2, <1>4, <1>9 DEF InFile, InAnswer, InCompletion, IInv, Files
<1> QED
  BY <1>2, <1>8, <1>10 DEF Files, IInv

------------------------------------------------------------------------------
(* The steps together. *)

\* What a coroutine does leaves the ring to the uring thread.
LEMMA ClientStep ==
    ASSUME IInv, NEW c \in Clients,
           \/ \E kind \in Kinds : Begin(c, kind)
           \/ Client(c) \/ CloseFile(c) \/ Finish(c) \/ Interrupt(c)
    PROVE  Reserved' /\ Owing' /\ Queued' /\ Ring' /\ Files' /\ fault' # "panic"
<1>1. CASE Unwind(c) /\ pc[c] \in {"running", "sending"}
  <2>1. Reserved' /\ Owing' /\ Queued'
    BY <1>1, UnwindKeeps
  <2>2. Files'
    BY <1>1, CloseFiles DEF Unwind, ring
  <2>3. Ring'
    <3>1. UNCHANGED <<requests, entries, kernel, cq, upc>>
      BY <1>1 DEF Unwind, ring
    <3> QED
      BY <1>1 DEF Unwind, ring, Ring, Submitted, IInv
  <2> QED
    BY <1>1, <2>1, <2>2, <2>3 DEF Unwind, threads, IInv
<1>2. ASSUME UNCHANGED ring, UNCHANGED <<open, file, answer>> PROVE Ring' /\ Files'
  <2>1. Ring'
    BY <1>2 DEF ring, Ring, Submitted, IInv
  <2>2. Files'
    BY <1>2, FilesFrame DEF ring
  <2> QED
    BY <2>1, <2>2
<1>3. CASE (\E kind \in Kinds : Begin(c, kind)) /\ ~Unwind(c)
  BY <1>2, <1>3, BeginKeeps DEF Begin, request, threads, IInv
<1>4. CASE Sent(c) /\ ~Unwind(c)
  BY <1>2, <1>4, SentKeeps DEF Sent, threads, IInv
<1>5. CASE Cancel(c)
  BY <1>2, <1>5, CancelKeeps DEF Cancel, threads, IInv
<1>6. CASE Cancelled(c) \/ CancelFails(c) \/ (Interrupt(c) /\ pc[c] = "waiting")
  BY <1>2, <1>6, QuietKeeps DEF Cancelled, CancelFails, Interrupt, Unwind, threads, IInv
<1>7. CASE CancelDangles(c)
  BY <1>2, <1>7, QuietKeeps DEF CancelDangles, client
<1>8. CASE CloseFile(c)
  <2>1. Reserved' /\ Owing' /\ Queued'
    BY <1>8, QuietKeeps
  <2>2. Files'
    BY <1>8, CloseFiles DEF CloseFile, ring
  <2>3. Ring' /\ UNCHANGED fault
    BY <1>8 DEF CloseFile, ring, threads, Ring, Submitted, IInv
  <2> QED
    BY <2>1, <2>2, <2>3 DEF IInv
<1>9. CASE Return(c)
  <2>1. Reserved' /\ Owing' /\ Queued'
    BY <1>9, QuietKeeps
  <2>2. Files'
    BY <1>9, ReturnFiles
  <2>3. Ring' /\ UNCHANGED fault
    BY <1>9 DEF Return, ring, threads, Ring, Submitted, IInv
  <2> QED
    BY <2>1, <2>2, <2>3 DEF IInv
<1> QED
  BY <1>1, <1>3, <1>4, <1>5, <1>6, <1>7, <1>8, <1>9
     DEF Client, Begin, request, Sent, Finish, Interrupt

\* What is left alone keeps its invariants.
LEMMA IdleStep ==
    ASSUME IInv, UNCHANGED <<pc, op, addr, answer, ack, acked, file, channel, job, open>>,
           UNCHANGED requests
    PROVE  Reserved' /\ Owing' /\ Queued'
<1>1. Queued' /\ Outstanding' = Outstanding
  BY QueuedFrame
<1>2. Owing' /\ Reserved'
  BY <1>1 DEF Owing, Owes, Reserved, IInv
<1> QED
  BY <1>1, <1>2

\* The steps of the uring thread.
LEMMA UringStep ==
    ASSUME IInv, UringThread
    PROVE  Reserved' /\ Owing' /\ Queued' /\ Ring' /\ Files' /\ UNCHANGED fault
<1>1. CASE Receive \/ ReceiveMore
  <2>1. /\ channel["uring"] # <<>> /\ push(Head(channel["uring"])) /\ upc' = "submit"
        /\ channel' = [channel EXCEPT !["uring"] = Tail(@)]
        /\ UNCHANGED <<pc, op, addr, ack, file, job, kernel, cq, open, fault>>
    BY <1>1 DEF Receive, ReceiveMore, threads
  <2>2. Reserved' /\ Owing' /\ Queued' /\ Ring'
    BY <2>1, PushKeeps, PushRing
  <2>3. Head(channel["uring"]) \in ToSet(channel["uring"])
    BY <2>1, HeadGone
  <2>4. Files'
    BY <2>1, <2>3, PushFiles
  <2> QED
    BY <2>1, <2>2, <2>4
<1>2. CASE Submit
  <2>1. Ring'
    BY <1>2, SubmitRing
  <2>2. UNCHANGED <<pc, op, addr, answer, ack, acked, file, channel, job, open, requests, cq>>
    BY <1>2 DEF Submit, client, threads
  <2> QED
    BY <1>2, <2>1, <2>2, IdleStep, FilesFrame DEF Submit, threads
<1>3. CASE ConsumeInline \/ ConsumeReadable
  <2>1. /\ consume /\ upc # "submit"
        /\ UNCHANGED <<pc, op, addr, ack, file, job, channel, entries, kernel, open>>
    BY <1>3 DEF ConsumeInline, ConsumeReadable, Selecting
  <2> QED
    BY <2>1, ConsumeKeeps, ConsumeRing, ConsumeFiles
<1>4. CASE Drained \/ CloseRequests \/ UringExits
  <2>1. /\ UNCHANGED <<pc, op, addr, answer, ack, acked, file, channel, job, open, requests>>
        /\ UNCHANGED <<entries, kernel, cq, fault>>
        /\ upc = "select" /\ upc' \in {"select", "gone"}
    BY <1>4 DEF Drained, CloseRequests, UringExits, Selecting, client, ring, threads
  <2>2. Ring'
    BY <2>1, RingFrame
  <2> QED
    BY <2>1, <2>2, IdleStep, FilesFrame
<1> QED
  BY <1>1, <1>2, <1>3, <1>4 DEF UringThread

\* The steps of the kernel, of the pool and of Runtime::drop.
LEMMA OtherStep ==
    ASSUME IInv, \/ \E r \in kernel : Complete(r) \/ FindTarget(r)
                 \/ \E t \in Pool : PoolThread(t)
                 \/ Stop
    PROVE  Reserved' /\ Owing' /\ Queued' /\ Ring' /\ Files' /\ UNCHANGED fault
<1>1. ASSUME NEW r \in kernel, Complete(r) PROVE Reserved' /\ Owing' /\ Queued' /\ Ring' /\ Files'
  <2>1. Reserved' /\ Owing' /\ Queued'
    <3>1. /\ UNCHANGED <<channel, requests, job, pc, op, addr, answer, ack, acked, file>>
      BY <1>1 DEF Complete, client, threads
    <3>2. Queued' /\ Outstanding' = Outstanding
      BY <3>1, QueuedFrame
    <3> QED
      BY <3>1, <3>2 DEF Owing, Owes, Reserved, IInv
  <2> QED
    BY <1>1, <2>1, CompleteRing, CompleteFiles
<1>2. ASSUME NEW r \in kernel, FindTarget(r) PROVE Reserved' /\ Owing' /\ Queued' /\ Ring' /\ Files'
  <2>1. UNCHANGED <<pc, op, addr, answer, ack, acked, file, channel, job, open, requests, cq>>
    BY <1>2 DEF FindTarget, client, threads
  <2> QED
    BY <1>2, <2>1, IdleStep, FilesFrame, FindTargetRing
<1>3. ASSUME NEW t \in Pool, Take(t) PROVE Ring' /\ Files'
  <2>1. UNCHANGED <<open, file, answer, cq, requests, entries, kernel, upc>>
    BY <1>3 DEF Take, client, ring
  <2> QED
    BY <2>1, FilesFrame DEF Ring, Submitted, IInv
<1>4. ASSUME NEW t \in Pool, process(t) PROVE Ring' /\ Files'
  <2>1. UNCHANGED <<open, file, cq, requests, entries, kernel, upc>>
    BY <1>4 DEF process, ring
  <2>2. job[t] \in Jobs /\ job[t] \in Outstanding
    BY <1>4, Typed DEF process, Jobs, IInv
  <2>3. answer' = Wakes(job[t].addr, "ok")
    BY <1>4, <2>2 DEF process, IInv, Queued
  <2>4. PICK r \in Outstanding : r = job[t]
    BY <2>2
  <2>5. Files'
    BY <2>1, <2>3, <2>4, WakesFiles
  <2> QED
    BY <2>1, <2>5 DEF Ring, Submitted, IInv
<1>5. ASSUME \/ \E t \in Pool : ClosePool(t) \/ PoolExits(t)
             \/ Stop
      PROVE  Reserved' /\ Owing' /\ Queued' /\ Ring' /\ Files' /\ UNCHANGED fault
  <2>1. /\ UNCHANGED <<pc, op, addr, answer, ack, acked, file, channel, job, open, requests>>
        /\ UNCHANGED <<entries, kernel, cq, upc, fault>>
    BY <1>5 DEF ClosePool, PoolExits, Stop, client, ring
  <2> QED
    BY <2>1, IdleStep, FilesFrame DEF Ring, Submitted, IInv
<1> QED
  BY <1>1, <1>2, <1>3, <1>4, <1>5, PoolKeeps DEF PoolThread, Complete, FindTarget, threads

------------------------------------------------------------------------------
(* Types. *)

\* What a coroutine changes stays in range.
LEMMA UnwindType ==
    ASSUME TypeOK, NEW c \in Clients, Unwind(c), aborting' \in [Clients -> BOOLEAN],
           issued' \in [Clients -> 0 .. MaxOps]
    PROVE  TypeOK'
BY Shape DEF Unwind, ring, threads, TypeOK

\* A channel that is not full takes one more.
LEMMA PutType ==
    ASSUME TypeOK, NEW to \in {"uring", "pool"}, NEW r \in Request, ~Full(to), Put(to, r)
    PROVE  /\ channel' \in [{"uring", "pool"} -> Seq(Request)]
           /\ \A other \in {"uring", "pool"} : Len(channel'[other]) <= Capacity
<1>1. /\ channel \in [{"uring", "pool"} -> Seq(Request)]
      /\ \A other \in {"uring", "pool"} : Len(channel[other]) <= Capacity
      /\ channel' = [channel EXCEPT ![to] = Append(channel[to], r)]
  BY DEF TypeOK, Put
<1>2. channel[to] \in Seq(Request) /\ Len(channel[to]) < Capacity /\ Capacity \in Nat
  BY <1>1, Shape DEF Full
<1>3. /\ Append(channel[to], r) \in Seq(Request)
      /\ Len(Append(channel[to], r)) <= Capacity
  BY <1>2
<1> QED
  BY <1>1, <1>3

\* A channel that gives up its first request holds requests.
LEMMA TailType ==
    ASSUME TypeOK, NEW to \in {"uring", "pool"}, channel[to] # <<>>,
           channel' = [channel EXCEPT ![to] = Tail(@)]
    PROVE  /\ channel' \in [{"uring", "pool"} -> Seq(Request)]
           /\ \A other \in {"uring", "pool"} : Len(channel'[other]) <= Capacity
           /\ Head(channel[to]) \in Request
<1>1. /\ channel \in [{"uring", "pool"} -> Seq(Request)]
      /\ \A other \in {"uring", "pool"} : Len(channel[other]) <= Capacity
  BY DEF TypeOK
<1>2. channel[to] \in Seq(Request) /\ Capacity \in Nat
  BY <1>1, Shape
<1>3. /\ Tail(channel[to]) \in Seq(Request) /\ Len(Tail(channel[to])) <= Capacity
      /\ Head(channel[to]) \in Request
  BY <1>1, <1>2
<1> QED
  BY <1>1, <1>3

\* The steps of a coroutine.
LEMMA ClientType ==
    ASSUME TypeOK, Reserved, NEW c \in Clients,
           \/ \E kind \in Kinds : Begin(c, kind)
           \/ Client(c) \/ CloseFile(c) \/ Finish(c) \/ Interrupt(c)
    PROVE  TypeOK'
<1>1. ASSUME NEW kind \in Kinds, Begin(c, kind) PROVE TypeOK'
  <2>1. issued' \in [Clients -> 0 .. MaxOps] /\ aborting' \in [Clients -> BOOLEAN]
    BY <1>1, Shape DEF Begin, TypeOK
  <2>2. CASE Unwind(c)
    BY <2>1, <2>2, UnwindType
  <2>3. CASE ~Unwind(c)
    <3>1. PICK a \in Addrs :
            /\ addr' = [addr EXCEPT ![c] = a]
            /\ IF Full(To(kind))
               THEN pc' = [pc EXCEPT ![c] = "sending"] /\ UNCHANGED channel
               ELSE /\ pc' = [pc EXCEPT ![c] = "waiting"]
                    /\ Put(To(kind), [kind |-> kind, by |-> c, addr |-> a, fd |-> file[c],
                                      target |-> None])
      BY <1>1, <2>3 DEF Begin, request
    <3>2. /\ op' = [op EXCEPT ![c] = kind] /\ kind \in Operation
          /\ UNCHANGED <<answer, ack, acked, file, dangling, closed, ring, threads, open>>
      BY <1>1, <2>3, Shape DEF Begin, request
    <3>3. PICK r \in Request :
            r = [kind |-> kind, by |-> c, addr |-> a, fd |-> file[c], target |-> None]
      BY <3>2 DEF Request, TypeOK
    <3>4. /\ channel' \in [{"uring", "pool"} -> Seq(Request)]
          /\ \A other \in {"uring", "pool"} : Len(channel'[other]) <= Capacity
      <4>1. To(kind) \in {"uring", "pool"}
        BY DEF To
      <4>2. CASE Full(To(kind))
        BY <3>1, <4>2 DEF TypeOK
      <4>3. CASE ~Full(To(kind))
        BY <3>1, <3>3, <4>1, <4>3, PutType
      <4> QED
        BY <4>2, <4>3
    <3>5. pc' \in [Clients -> {"running", "sending", "gone"} \cup Waiting]
      BY <3>1 DEF TypeOK, Waiting
    <3> QED
      BY <2>1, <3>1, <3>2, <3>4, <3>5 DEF ring, threads, TypeOK
  <2> QED
    BY <2>2, <2>3
<1>2. CASE Sent(c)
  <2>1. issued' \in [Clients -> 0 .. MaxOps] /\ aborting' \in [Clients -> BOOLEAN]
    BY <1>2 DEF Sent, TypeOK
  <2>2. CASE Unwind(c)
    BY <2>1, <2>2, UnwindType
  <2>3. CASE ~Unwind(c)
    <3>5. op[c] \in Operation /\ addr[c] \in Addrs
      <4>1. pc[c] = "sending"
        BY <1>2 DEF Sent
      <4>2. op[c] \in Operation /\ addr[c] # None
        BY <4>1 DEF Reserved
      <4> QED
        BY <4>2 DEF TypeOK
    <3>1. /\ ~Full(To(op[c]))
          /\ Put(To(op[c]), [kind |-> op[c], by |-> c, addr |-> addr[c], fd |-> file[c],
                             target |-> None])
          /\ pc' = [pc EXCEPT ![c] = "waiting"]
          /\ UNCHANGED <<op, addr, answer, ack, acked, file, dangling, closed, ring, threads,
                         open>>
      BY <1>2, <2>3 DEF Sent
    <3>2. PICK r \in Request :
            r = [kind |-> op[c], by |-> c, addr |-> addr[c], fd |-> file[c], target |-> None]
      BY <3>5 DEF Request, TypeOK
    <3>3. To(op[c]) \in {"uring", "pool"}
      BY DEF To
    <3>4. /\ channel' \in [{"uring", "pool"} -> Seq(Request)]
          /\ \A other \in {"uring", "pool"} : Len(channel'[other]) <= Capacity
      BY <3>1, <3>2, <3>3, PutType
    <3> QED
      BY <2>1, <3>1, <3>4 DEF ring, threads, TypeOK, Waiting
  <2> QED
    BY <2>2, <2>3
<1>3. CASE Cancel(c)
  <2>1. PICK a \in Addrs :
          /\ Await(c, a)
          /\ Put("uring", [kind |-> "cancel", by |-> c, addr |-> a, fd |-> None,
                           target |-> addr[c]])
    BY <1>3 DEF Cancel
  <2>2. PICK r \in Request :
          r = [kind |-> "cancel", by |-> c, addr |-> a, fd |-> None, target |-> addr[c]]
    BY DEF Request, TypeOK
  <2>3. ~Full("uring")
    BY <1>3 DEF Cancel
  <2>4. /\ channel' \in [{"uring", "pool"} -> Seq(Request)]
        /\ \A other \in {"uring", "pool"} : Len(channel'[other]) <= Capacity
    BY <2>1, <2>2, <2>3, PutType
  <2> QED
    BY <1>3, <2>1, <2>4 DEF Cancel, Await, ring, threads, TypeOK, Waiting
<1>4. CASE CloseFile(c) \/ Cancelled(c) \/ CancelFails(c) \/ (Interrupt(c) /\ pc[c] = "waiting")
  <2>1. CASE CloseFile(c)
    BY <2>1 DEF CloseFile, ring, threads, TypeOK
  <2>2. CASE Cancelled(c)
    BY <2>2 DEF Cancelled, ring, threads, TypeOK, Waiting
  <2>3. CASE CancelFails(c)
    BY <2>3 DEF CancelFails, ring, threads, TypeOK, Waiting
  <2>4. CASE Interrupt(c) /\ pc[c] = "waiting"
    <3>1. pc' = [pc EXCEPT ![c] = "settling"] \/ pc' = [pc EXCEPT ![c] = "cancel"]
      BY <2>4 DEF Interrupt
    <3>2. pc' \in [Clients -> {"running", "sending", "gone"} \cup Waiting]
      BY <3>1 DEF TypeOK, Waiting
    <3>3. aborting' \in [Clients -> BOOLEAN]
      BY <2>4 DEF Interrupt, TypeOK
    <3>4. UNCHANGED <<op, addr, answer, ack, acked, file, issued, dangling, channel, closed,
                      ring, threads, open>>
      BY <2>4 DEF Interrupt
    <3> QED
      BY <3>2, <3>3, <3>4 DEF ring, threads, TypeOK
  <2> QED
    BY <1>4, <2>1, <2>2, <2>3, <2>4
<1>5. CASE CancelDangles(c)
  BY <1>5 DEF CancelDangles, client, ring, TypeOK
<1>6. CASE Return(c)
  <2>1. file' \in [Clients -> Fds \cup {None}]
    BY <1>6 DEF Return, TakeResult, TypeOK
  <2> QED
    BY <1>6, <2>1 DEF Return, ring, threads, TypeOK
<1>7. CASE Finish(c) \/ (Interrupt(c) /\ pc[c] = "sending")
  <2>1. CASE Finish(c)
    <3>1. aborting' = aborting /\ issued' = issued /\ Unwind(c)
      BY <2>1 DEF Finish
    <3> QED
      BY <3>1, UnwindType DEF TypeOK
  <2>2. CASE Interrupt(c) /\ pc[c] = "sending"
    <3>1. aborting' \in [Clients -> BOOLEAN] /\ issued' = issued /\ Unwind(c)
      BY <2>2 DEF Interrupt, TypeOK
    <3> QED
      BY <3>1, UnwindType DEF TypeOK
  <2> QED
    BY <1>7, <2>1, <2>2
<1> QED
  BY <1>1, <1>2, <1>3, <1>4, <1>5, <1>6, <1>7 DEF Client, Interrupt

\* The steps of the uring thread.
LEMMA UringType == IInv /\ UringThread => TypeOK'
<1> SUFFICES ASSUME IInv, UringThread PROVE TypeOK'
  OBVIOUS
<1>0. TypeOK
  BY DEF IInv
<1>1. CASE Receive \/ ReceiveMore
  <2>1. /\ channel["uring"] # <<>> /\ push(Head(channel["uring"])) /\ upc' = "submit"
        /\ channel' = [channel EXCEPT !["uring"] = Tail(@)]
        /\ UNCHANGED <<pc, op, addr, ack, file, issued, aborting, dangling, closed, drained,
                       kernel, cq, readable, job, left, told, stop, fault, open>>
    BY <1>1 DEF Receive, ReceiveMore, threads
  <2>2. /\ channel' \in [{"uring", "pool"} -> Seq(Request)]
        /\ \A other \in {"uring", "pool"} : Len(channel'[other]) <= Capacity
    BY <1>0, <2>1, TailType
  <2>3. /\ requests' \subseteq Request /\ entries' \in Seq(Request)
        /\ Len(entries') <= Len(entries) + 1
    BY <2>1, PushRing
  <2>4. Len(entries) < Batch /\ Len(entries) \in Nat /\ Batch \in Nat
    <3>1. CASE Receive
      <4>1. entries = <<>>
        BY <3>1 DEF Receive, Selecting, IInv, Ring
      <4> QED
        BY <4>1, Shape
    <3>2. CASE ReceiveMore
      BY <1>0, <3>2, Shape DEF ReceiveMore, TypeOK
    <3> QED
      BY <1>1, <3>1, <3>2
  <2>5. Len(entries') <= Batch
    BY <2>3, <2>4
  <2>6. answer' \in [Clients -> {None, "ok", "err"} \cup Fds] /\ acked' \in [Clients -> BOOLEAN]
    <3>1. PICK r : r = Head(channel["uring"])
      OBVIOUS
    <3>2. r \in ToSet(channel["uring"])
      BY <2>1, <3>1, HeadGone
    <3>3. Enters(r) \/ AnswersOne(r) \/ \E q \in requests : AnswersBoth(r, q)
      BY <2>1, <3>1, <3>2, PushCases
    <3> QED
      BY <1>0, <3>3 DEF Enters, AnswersOne, AnswersBoth, Acks, Wakes, TypeOK
  <2> QED
    BY <1>0, <2>1, <2>2, <2>3, <2>5, <2>6 DEF TypeOK
<1>2. CASE Submit
  BY <1>0, <1>2, Shape DEF Submit, client, threads, TypeOK
<1>3. CASE ConsumeInline \/ ConsumeReadable
  <2>1. /\ consume
        /\ UNCHANGED <<pc, op, addr, ack, file, issued, aborting, dangling, channel, closed,
                       drained, entries, kernel, job, left, told, stop, open>>
        /\ upc' \in {upc, "select"} /\ readable' \in 0 .. Signals
    BY <1>0, <1>3, Shape DEF ConsumeInline, ConsumeReadable, TypeOK
  <2>2. ASSUME NEW c \in Clients PROVE answer'[c] \in {None, "ok", "err"} \cup Fds
    <3>1. CASE \E e \in cq : e.addr = addr[c]
      BY <2>1, <3>1 DEF consume, IInv, Ring
    <3>2. CASE \A e \in cq : e.addr # addr[c]
      BY <1>0, <2>1, <3>2 DEF consume, TypeOK
    <3> QED
      BY <3>1, <3>2
  <2>3. answer' \in [Clients -> {None, "ok", "err"} \cup Fds] /\ acked' \in [Clients -> BOOLEAN]
    BY <1>0, <2>1, <2>2 DEF consume, Acks, TypeOK
  <2>4. requests' \subseteq Request /\ fault' \in {fault, "panic"}
    BY <1>0, <2>1 DEF consume, TypeOK
  <2> QED
    BY <1>0, <2>1, <2>3, <2>4 DEF TypeOK
<1>4. CASE Drained \/ CloseRequests \/ UringExits
  BY <1>0, <1>4, ZenonT(60) DEF Drained, CloseRequests, UringExits, client, ring, threads, TypeOK
<1> QED
  BY <1>1, <1>2, <1>3, <1>4 DEF UringThread

\* The steps of the kernel, of the pool and of Runtime::drop.
LEMMA OtherType ==
    ASSUME TypeOK, \/ \E r \in kernel : Complete(r) \/ FindTarget(r)
                   \/ \E t \in Pool : PoolThread(t)
                   \/ Stop
    PROVE  TypeOK'
<1>1. ASSUME NEW r \in kernel, Complete(r) PROVE TypeOK'
  <2>1. readable' \in 0 .. Signals
    BY <1>1, Shape DEF Complete, Notify, TypeOK
  <2> QED
    BY <1>1, <2>1 DEF Complete, client, threads, TypeOK
<1>2. ASSUME NEW r \in kernel, FindTarget(r) PROVE TypeOK'
  BY <1>2 DEF FindTarget, client, threads, TypeOK
<1>3. ASSUME NEW t \in Pool, Take(t) PROVE TypeOK'
  <2>1. /\ channel' \in [{"uring", "pool"} -> Seq(Request)]
        /\ \A other \in {"uring", "pool"} : Len(channel'[other]) <= Capacity
        /\ Head(channel["pool"]) \in Request
    BY <1>3, TailType DEF Take
  <2> QED
    BY <1>3, <2>1 DEF Take, client, ring, TypeOK
<1>4. ASSUME NEW t \in Pool, process(t) PROVE TypeOK'
  <2>1. answer' \in [Clients -> {None, "ok", "err"} \cup Fds] /\ fault' \in {fault, "panic"}
    BY <1>4 DEF process, Wakes, TypeOK
  <2> QED
    BY <1>4, <2>1 DEF process, ring, TypeOK
<1>5. ASSUME NEW t \in Pool, ClosePool(t) PROVE TypeOK'
  BY <1>5 DEF ClosePool, client, ring, TypeOK
<1>6. ASSUME NEW t \in Pool, PoolExits(t) PROVE TypeOK'
  BY <1>6 DEF PoolExits, client, ring, TypeOK
<1>7. CASE Stop
  BY <1>7 DEF Stop, ring, TypeOK
<1> QED
  BY <1>1, <1>2, <1>3, <1>4, <1>5, <1>6, <1>7 DEF PoolThread

------------------------------------------------------------------------------
(* What it says. *)

\* Nothing is requested yet, and each File that there is has its descriptor.
LEMMA InitIInv == Init => IInv
<1> SUFFICES ASSUME Init PROVE IInv
  OBVIOUS
<1>1. TypeOK
  <2>1. /\ file \in [Clients -> Fds \cup {None}] /\ open \subseteq Fds
        /\ {addr, ack} \subseteq [Clients -> Addrs \cup {None}]
    BY DEF Init
  <2>2. /\ channel = [to \in {"uring", "pool"} |-> <<>>]
        /\ channel \in [{"uring", "pool"} -> Seq(Request)]
        /\ \A to \in {"uring", "pool"} : Len(channel[to]) <= Capacity
    BY Shape DEF Init
  <2>3. entries \in Seq(Request) /\ Len(entries) <= Batch /\ readable \in 0 .. Signals
    BY Shape DEF Init
  <2>4. /\ pc \in [Clients -> {"running", "sending", "gone"} \cup Waiting]
        /\ op \in [Clients -> Operation \cup {None}]
        /\ answer \in [Clients -> {None, "ok", "err"} \cup Fds]
        /\ acked \in [Clients -> BOOLEAN] /\ aborting \in [Clients -> BOOLEAN]
        /\ issued \in [Clients -> 0 .. MaxOps] /\ dangling \in [Clients -> BOOLEAN]
        /\ closed \in [{"uring", "pool"} -> BOOLEAN]
        /\ job \in [Pool -> Request \cup {None}]
    BY Shape DEF Init
  <2>5. /\ upc \in {"select", "submit", "inline", "gone"} /\ drained \in BOOLEAN
        /\ requests \subseteq Request /\ left \subseteq Pool
        /\ told \subseteq Pool \cup {"uring"} /\ stop \in {"live", "closing"}
        /\ fault \in {"none", "panic", "crash"}
    BY DEF Init
  <2> QED
    BY <2>1, <2>2, <2>3, <2>4, <2>5 DEF TypeOK
<1>2. Reserved
  BY Shape DEF Init, Reserved
<1>3. Outstanding = {} /\ Jobs = {}
  BY DEF Init, Outstanding, Jobs, ToSet
<1>4. Owing
  BY <1>3 DEF Owing
<1>5. Queued
  BY <1>3 DEF Init, Queued, IsInjective, ToSet
<1>6. Ring
  BY DEF Init, Ring, IsInjective, ToSet
<1>7. Files
  BY Shape DEF Init, Files
<1> QED
  BY <1>1, <1>2, <1>4, <1>5, <1>6, <1>7 DEF Init, IInv

\* Every step preserves the invariant.
LEMMA NextIInv == IInv /\ [Next]_vars => IInv'
<1> SUFFICES ASSUME IInv, [Next]_vars PROVE IInv'
  OBVIOUS
<1>0. TypeOK /\ Reserved /\ fault # "panic"
  BY DEF IInv
<1>1. ASSUME NEW c \in Clients,
             \/ \E kind \in Kinds : Begin(c, kind)
             \/ Client(c) \/ CloseFile(c) \/ Finish(c) \/ Interrupt(c)
      PROVE  IInv'
  <2>1. Reserved' /\ Owing' /\ Queued' /\ Ring' /\ Files' /\ fault' # "panic"
    BY <1>1, ClientStep
  <2>2. TypeOK'
    BY <1>0, <1>1, ClientType
  <2> QED
    BY <2>1, <2>2 DEF IInv
<1>2. CASE UringThread
  <2>1. Reserved' /\ Owing' /\ Queued' /\ Ring' /\ Files' /\ UNCHANGED fault
    BY <1>2, UringStep
  <2>2. TypeOK'
    BY <1>2, UringType
  <2> QED
    BY <1>0, <2>1, <2>2 DEF IInv
<1>3. CASE \/ \E r \in kernel : Complete(r) \/ FindTarget(r)
           \/ \E t \in Pool : PoolThread(t)
           \/ Stop
  <2>1. Reserved' /\ Owing' /\ Queued' /\ Ring' /\ Files' /\ UNCHANGED fault
    BY <1>3, OtherStep
  <2>2. TypeOK'
    BY <1>0, <1>3, OtherType
  <2> QED
    BY <1>0, <2>1, <2>2 DEF IInv
<1>4. CASE UNCHANGED vars
  <2>1. Reserved' /\ Owing' /\ Queued'
    BY <1>4, IdleStep DEF vars
  <2>2. Files'
    BY <1>4, FilesFrame DEF vars
  <2>3. Ring' /\ TypeOK' /\ fault' # "panic"
    BY <1>0, <1>4 DEF vars, Ring, Submitted, TypeOK, IInv
  <2> QED
    BY <2>1, <2>2, <2>3 DEF IInv
<1> QED
  BY <1>1, <1>2, <1>3, <1>4 DEF Next

\* Coroutines, both poller threads, the kernel and Runtime::drop keep the
\* invariant at every step.
THEOREM Invariance == Spec => []IInv
<1> QED
  BY InitIInv, NextIInv, PTL DEF Spec

\* The channels, the batch and the signals stay within their capacities, and
\* everything else keeps its type.
THEOREM TypeCorrect == Spec => []TypeOK
<1>1. IInv => TypeOK
  BY DEF IInv
<1> QED
  BY <1>1, Invariance, PTL

\* A Cancel names the operation of the coroutine that sent it, from when it is
\* sent until it is answered.
THEOREM CancellationsHit == Spec => []CancelsOwn
<1>1. IInv => CancelsOwn
  BY DEF IInv, Owing, Owes, CancelsOwn
<1> QED
  BY <1>1, Invariance, PTL

\* A coroutine waits, with its buffer and its file, for every operation in
\* flight, and every open descriptor is held.
THEOREM BuffersStay == Spec => []Owned
<1>1. ASSUME IInv PROVE Owned
  <2>1. ASSUME NEW k \in InFlight
        PROVE  \E r \in Outstanding : /\ r.kind # "cancel" /\ k.by = r.by
                                      /\ k.addr = r.addr /\ k.fd = r.fd
    <3>1. CASE k \in Outstanding
      BY <3>1 DEF InFlight
    <3>2. CASE k \in kernel
      <4>1. PICK r \in Submitted : k \in In(r)
        BY <1>1, <3>2 DEF IInv, Ring
      <4>2. r \in Request /\ r \in Outstanding
        BY <1>1, Typed DEF Submitted, IInv
      <4> QED
        BY <4>1, <4>2, InFacts, ZenonT(60) DEF InFlight
    <3> QED
      BY <3>1, <3>2 DEF InFlight
  <2>2. \A k \in InFlight : pc[k.by] \in Waiting /\ addr[k.by] = k.addr /\ file[k.by] = k.fd
    BY <1>1, <2>1 DEF IInv, Owing, Owes
  <2> QED
    BY <1>1, <2>2 DEF Owned, IInv, Files
<1> QED
  BY <1>1, Invariance, PTL

\* Neither "no uring request found" nor unreachable! is ever reached.
THEOREM PollersNeverPanic == Spec => []NeverPanics
<1>1. IInv => NeverPanics
  BY DEF IInv, NeverPanics
<1> QED
  BY <1>1, Invariance, PTL
=============================================================================
