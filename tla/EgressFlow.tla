----------------------------- MODULE EgressFlow -----------------------------
(***************************************************************************)
(* One connection of the egress proxy from its first byte to its ledger    *)
(* row (crab/egress.py, _EgressHandler.handle), with the cassettes it      *)
(* records and replays (crab/cassettes.py, crab/http_wire.py) and the TLS  *)
(* interceptor's runtime bypass (crab/tls_interceptor.py).  Effects has    *)
(* the effect gate's session, queue and flush in full; here the gate is    *)
(* its decision, and what matters is what the handler then reads, sends    *)
(* and answers.                                                            *)
(*                                                                         *)
(* The handler sees what one recv returns: the body of a request, and the  *)
(* end of a long head, may come later, and so may a second request on the  *)
(* same connection.                                                        *)
(***************************************************************************)
EXTENDS Integers, Sequences, FiniteSets

CONSTANTS Conns,      \* proxy threads
          MaxConns    \* bound on the connections ever accepted

ASSUME EgressAssumption == MaxConns \in Nat

VARIABLES rule,       \* the host rule's class, "" if no rule matches the host
          intercepts, \* TLS interception is configured
          bypass,     \* the host is in _runtime_bypass
          replay,     \* the sandbox's ReplaySession, NoReplay if none
          files,      \* the cassette files of each bucket: <<key, response>>
          latest,     \* the latest pointers of each bucket: key -> response
          arrivals,   \* connections accepted so far
          fpc,        \* where each handler is
          conn,       \* what its client sends
          scheme,     \* what the handler made of it
          meta,       \* its record_meta
          held,       \* its cassette being written, or the response it serves
          served,     \* history: the last <<request, response>> answered from a cassette
          queued,     \* history: the last <<request, queued body>> answered 202
          undecided   \* history: the last exchange took a write the gate did not see

store == <<files, latest>>
handler == <<fpc, conn, scheme, meta, held>>
hist == <<served, queued, undecided>>
fvars == <<rule, intercepts, bypass, replay, store, arrivals, handler, hist>>

NoReplay == [policy |-> "none", source |-> "src"]
NoResponse == [to |-> "none", body |-> "none", bodyCame |-> TRUE,
               framed |-> TRUE, whole |-> TRUE]
Buckets == {"src", "fork"}

(* A request: its method's class, its body, how the body is framed, and how *)
(* much of it the first read returns.                                       *)
Req(m, body, frame, first) == [m |-> m, body |-> body, frame |-> frame, first |-> first]
Requests == {Req("read", "none", "none", "whole"),
             Req("read", "none", "none", "head"),
             Req("write", "b1", "length", "whole"),
             Req("write", "b2", "length", "whole"),
             Req("write", "b1", "length", "body"),
             Req("write", "b2", "length", "body"),
             Req("write", "b1", "chunked", "body"),
             Req("write", "b1", "chunked", "whole")}
NoRequest == Req("none", "none", "none", "whole")
NotHttp == Req("other", "none", "none", "whole")

(* What a client opens: plain HTTP, TLS (its hello within the first read or *)
(* not, offering http/1.1 or not, HTTP inside or something else), or bytes  *)
(* of another protocol; from the sandbox or from its fork; perhaps with a   *)
(* second request after the first.                                          *)
Plain == [wire |-> "raw", box |-> "src", h1 |-> TRUE,
          first |-> NotHttp, second |-> NoRequest]
Kind(wire, box, h1, first, second) ==
    [wire |-> wire, box |-> box, h1 |-> h1, first |-> first, second |-> second]
PlainRead == Req("read", "none", "none", "whole")
PlainWrite == Req("write", "b1", "length", "whole")
Kinds == {Kind("http", "src", TRUE, r, NoRequest) : r \in Requests}
           \cup {Kind("http", "fork", TRUE, r, NoRequest) :
                    r \in {q \in Requests : q.first = "whole" /\ q.frame # "chunked"}}
           \cup {Kind("http", "src", TRUE, PlainRead, PlainWrite)}
           \cup {Kind("hello", "src", h1, r, NoRequest) :
                    h1 \in BOOLEAN, r \in {PlainRead, PlainWrite}}
           \cup {Kind("hello", "src", TRUE, NotHttp, NoRequest),
                 Kind("bighello", "src", FALSE, PlainRead, NoRequest), Plain}
FInit == /\ rule \in {"", "idempotent_read"} /\ intercepts \in BOOLEAN
         /\ bypass = FALSE /\ replay = NoReplay
         /\ files = [b \in Buckets |-> {}] /\ latest = [b \in Buckets |-> {}]
         /\ arrivals = 0
         /\ fpc = [c \in Conns |-> "free"] /\ conn = [c \in Conns |-> Plain]
         /\ scheme = [c \in Conns |-> "tcp"] /\ meta = [c \in Conns |-> "none"]
         /\ held = [c \in Conns |-> NoResponse]
         /\ served = {} /\ queued = {} /\ undecided = FALSE

FGo(c, from, to) == fpc[c] = from /\ fpc' = [fpc EXCEPT ![c] = to]
Ends(c, m) == /\ fpc' = [fpc EXCEPT ![c] = "row"]
              /\ meta' = [meta EXCEPT ![c] = m]

\* classify_flow: the method's class unless a host rule matches.
Class(r) == IF rule # "" THEN rule
            ELSE CASE r.m = "read" -> "idempotent_read"
                   [] r.m = "write" -> "mutating"
                   [] OTHER -> "opaque"
Visible(c) == scheme[c] \in {"http", "https"}

\* request_key over parse_head of what the first read returned.
Parsed(r) == r.first # "head"

\* Mutant: the body is left out of the key.
KeyOfHead(r) == <<r.m, "none">>

KeyOf(r) == <<r.m, IF r.first = "whole" THEN r.body ELSE "none">>

-----------------------------------------------------------------------------
(* A redirected connection is accepted (one that was not redirected is     *)
(* dropped without a trace) and its first bytes are peeked at.              *)
AcceptConn(c) ==
    /\ arrivals < MaxConns
    /\ FGo(c, "free", "sniff")
    /\ arrivals' = arrivals + 1
    /\ \E k \in Kinds : conn' = [conn EXCEPT ![c] = k]
    /\ scheme' = [scheme EXCEPT ![c] = "tcp"]
    /\ meta' = [meta EXCEPT ![c] = "none"]
    /\ UNCHANGED <<rule, intercepts, bypass, replay, store, held, hist>>

\* should_intercept, after the ALPN filter; the whole hello has been peeked at.
Intercepted(c) == /\ conn[c].wire \in {"hello", "bighello"}
                  /\ conn[c].h1 /\ intercepts /\ ~bypass

\* Without interception the first read is consumed; a hello longer than it
\* no longer shows its server name.
SniffPlain(c) ==
    /\ ~Intercepted(c)
    /\ FGo(c, "sniff", "replay")
    /\ scheme' = [scheme EXCEPT ![c] = CASE conn[c].wire = "http" -> "http"
                                          [] conn[c].wire = "hello" -> "tls"
                                          [] OTHER -> "tcp"]
    /\ UNCHANGED <<rule, intercepts, bypass, replay, store, arrivals,
                   conn, meta, held, hist>>

\* The handshake with a minted leaf: on failure the host may be bypassed from
\* now on (on_handshake_failure) and the client must come again; what is not
\* HTTP inside is spliced at once.
Handshake(c) ==
    /\ Intercepted(c) /\ fpc[c] = "sniff"
    /\ \/ /\ conn[c].first # NotHttp
          /\ FGo(c, "sniff", "replay")
          /\ scheme' = [scheme EXCEPT ![c] = "https"]
          /\ UNCHANGED <<bypass, meta>>
       \/ /\ conn[c].first = NotHttp
          /\ Ends(c, "none")
          /\ scheme' = [scheme EXCEPT ![c] = "tls"]
          /\ UNCHANGED bypass
       \/ /\ Ends(c, "none")
          /\ bypass' \in {bypass, TRUE}
          /\ UNCHANGED scheme
    /\ UNCHANGED <<rule, intercepts, replay, store, arrivals, conn, held, hist>>

-----------------------------------------------------------------------------
(* Replay.                                                                  *)
\* CassetteStore.get: the pointed-to response, or any file of the key.
Cassette(b, key) ==
    IF \E e \in latest[b] : e[1] = key
    THEN {e[2] : e \in {x \in latest[b] : x[1] = key}}
    ELSE {e[2] : e \in {x \in files[b] : x[1] = key}}

Eligible(c) == Visible(c) /\ Class(conn[c].first) = "idempotent_read"

Session(c) == IF conn[c].box = "src" THEN replay ELSE NoReplay

ReplayHit(c) ==
    /\ Session(c) # NoReplay /\ Eligible(c) /\ Parsed(conn[c].first)
    /\ fpc[c] = "replay"
    /\ \E e \in Cassette(Session(c).source, KeyOf(conn[c].first)) :
          served' = {<<conn[c].first, e>>}
    /\ Ends(c, "replayed")
    /\ UNCHANGED <<rule, intercepts, bypass, replay, store, arrivals,
                   conn, scheme, held, queued, undecided>>

ReplayMiss(c) ==
    /\ Session(c) # NoReplay /\ Eligible(c) /\ fpc[c] = "replay"
    /\ \/ ~Parsed(conn[c].first)
       \/ Cassette(Session(c).source, KeyOf(conn[c].first)) = {}
    /\ IF Session(c).policy = "cassette_only"
       THEN Ends(c, "replay_miss")
       ELSE FGo(c, "replay", "gate") /\ UNCHANGED meta
    /\ UNCHANGED <<rule, intercepts, bypass, replay, store, arrivals,
                   conn, scheme, held, hist>>

NoReplayFor(c) ==
    /\ Session(c) = NoReplay \/ ~Eligible(c)
    /\ FGo(c, "replay", "gate")
    /\ UNCHANGED <<rule, intercepts, bypass, replay, store, arrivals,
                   conn, scheme, meta, held, hist>>
-----------------------------------------------------------------------------
(* The effect gate's decision and what is done about it.                    *)
\* decide_write and decide_opaque, with a session of any policy or none.
Verdicts(c) == IF Visible(c) /\ Class(conn[c].first) = "idempotent_read" THEN {"pass"}
               ELSE IF Visible(c) /\ Class(conn[c].first) = "mutating"
                    THEN {"pass", "defer", "reject", "seal"}
                    ELSE {"pass", "reject", "seal"}

GatePasses(c) == /\ FGo(c, "gate", "connect")
                 /\ \E d \in Verdicts(c) \cap {"pass", "seal"} :
                       meta' = [meta EXCEPT ![c] = IF d = "seal" THEN "sealed" ELSE "none"]
                 /\ UNCHANGED <<rule, intercepts, bypass, replay, store,
                                arrivals, conn, scheme, held, hist>>

\* The synthetic refusal.
Refused(c) == Ends(c, "rejected")

GateRejects(c) == /\ fpc[c] = "gate" /\ "reject" \in Verdicts(c)
                  /\ Refused(c)
                  /\ UNCHANGED <<rule, intercepts, bypass, replay, store, arrivals,
                                 conn, scheme, held, hist>>

\* read_remaining_body: the pairs (body, complete) it can return.
ReadBody(r) ==
    LET already == IF r.first = "whole" THEN r.body ELSE "none"
    IN IF r.frame = "length"
       THEN {<<r.body, TRUE>>}
              \cup (IF r.first = "whole" THEN {} ELSE {<<already, FALSE>>})
       ELSE {<<already, already = "none">>}

\* A deferred write is queued and answered 202; one that cannot be queued
\* whole, or whose session is gone or full, is refused.
GateDefers(c) ==
    /\ fpc[c] = "gate" /\ "defer" \in Verdicts(c)
    /\ LET r == conn[c].first
       IN \/ ~Parsed(r) /\ Refused(c) /\ UNCHANGED queued
          \/ /\ Parsed(r)
             /\ \E b \in ReadBody(r) :
                   \/ Refused(c) /\ UNCHANGED queued
                   \/ /\ b[2]
                      /\ Ends(c, "deferred")
                      /\ queued' = {<<r, b[1]>>}
    /\ UNCHANGED <<rule, intercepts, bypass, replay, store, arrivals,
                   conn, scheme, held, served, undecided>>

-----------------------------------------------------------------------------
(* The upstream connection.                                                 *)
ConnectFails(c) == /\ fpc[c] = "connect" /\ Ends(c, meta[c])
                   /\ UNCHANGED <<rule, intercepts, bypass, replay, store, arrivals,
                                  conn, scheme, held, hist>>

Recordable(c) == Visible(c) /\ Class(conn[c].first) = "idempotent_read"

\* ResponseAssembler.result: what was framed must be there in full; without
\* framing the body is whatever came before the close.
Assembled(framed, whole) == framed => whole

\* _splice pumps both ways until a side closes, the second request included;
\* the tee has then seen the answer to the first, in full or cut, of a status
\* worth recording or not, within the recorder's limit or past it.
Splice(c) ==
    /\ fpc[c] = "connect"
    /\ undecided' = (conn[c].second.m = "write")
    /\ LET r == conn[c].first
       IN \/ /\ Recordable(c) /\ Parsed(r)
             /\ \E framed, cut \in BOOLEAN :
                   LET whole == ~cut /\ (framed \/ conn[c].second = NoRequest)
                   IN /\ Assembled(framed, whole)
                      /\ held' = [held EXCEPT ![c] =
                            [to |-> r.m, body |-> r.body, bodyCame |-> r.first = "whole",
                             framed |-> framed, whole |-> whole]]
             /\ fpc' = [fpc EXCEPT ![c] = "put"]
             /\ UNCHANGED meta
          \/ /\ Ends(c, IF Recordable(c) THEN "none" ELSE meta[c])
             /\ UNCHANGED held
    /\ UNCHANGED <<rule, intercepts, bypass, replay, store, arrivals,
                   conn, scheme, served, queued>>

\* CassetteStore.put writes the response's file ...
PutFile(c) ==
    /\ FGo(c, "put", "latest")
    /\ files' = [files EXCEPT ![conn[c].box] = @ \cup {<<KeyOf(conn[c].first), held[c]>>}]
    /\ UNCHANGED <<rule, intercepts, bypass, replay, latest, arrivals,
                   conn, scheme, meta, held, hist>>

\* ... then the pointer to it; a failure of either degrades to no cassette.
PutLatest(c) ==
    /\ fpc[c] \in {"put", "latest"}
    /\ \/ /\ fpc[c] = "latest" /\ Ends(c, "recorded")
          /\ LET b == conn[c].box
                 key == KeyOf(conn[c].first)
             IN latest' = [latest EXCEPT ![b] = {e \in @ : e[1] # key} \cup {<<key, held[c]>>}]
       \/ Ends(c, "none") /\ UNCHANGED latest
    /\ UNCHANGED <<rule, intercepts, bypass, replay, files, arrivals,
                   conn, scheme, held, hist>>

\* The finally clause: the sockets are closed and the flow's row is written.
WriteRow(c) == /\ FGo(c, "row", "free")
               /\ held' = [held EXCEPT ![c] = NoResponse]
               /\ conn' = [conn EXCEPT ![c] = Plain]
               /\ scheme' = [scheme EXCEPT ![c] = "tcp"]
               /\ meta' = [meta EXCEPT ![c] = "none"]
               /\ UNCHANGED <<rule, intercepts, bypass, replay, store, arrivals>>
               /\ served' = {} /\ queued' = {} /\ undecided' = FALSE
-----------------------------------------------------------------------------
(* Around the proxy: the replay window a replayed action opens, the fork    *)
(* whose bucket goes with it.                                               *)
BeginReplay == /\ replay' \in [policy : {"cassette_first", "cassette_only"}, source : Buckets]
               /\ replay = NoReplay
               /\ UNCHANGED <<rule, intercepts, bypass, store, arrivals, handler, hist>>

EndReplay == /\ replay # NoReplay
             /\ replay' = NoReplay
             /\ UNCHANGED <<rule, intercepts, bypass, store, arrivals, handler, hist>>

PruneFork == /\ files["fork"] # {}
             /\ files' = [files EXCEPT !["fork"] = {}]
             /\ latest' = [latest EXCEPT !["fork"] = {}]
             /\ UNCHANGED <<rule, intercepts, bypass, replay, arrivals, handler, hist>>

Handle(c) == \/ AcceptConn(c) \/ SniffPlain(c) \/ Handshake(c)
             \/ ReplayHit(c) \/ ReplayMiss(c) \/ NoReplayFor(c)
             \/ GatePasses(c) \/ GateRejects(c) \/ GateDefers(c)
             \/ ConnectFails(c) \/ Splice(c) \/ PutFile(c) \/ PutLatest(c) \/ WriteRow(c)

FNext == (\E c \in Conns : Handle(c))
           \/ BeginReplay \/ EndReplay \/ PruneFork

FSpec == FInit /\ [][FNext]_fvars

-----------------------------------------------------------------------------
FTypeOK == /\ bypass \in BOOLEAN /\ arrivals \in 0..MaxConns
           /\ fpc \in [Conns -> {"free", "sniff", "replay", "gate", "connect", "put", "latest", "row"}]
           /\ scheme \in [Conns -> {"tcp", "http", "https", "tls"}]
           /\ meta \in [Conns -> {"none", "replayed", "replay_miss", "sealed", "rejected",
                                   "deferred", "recorded"}]

(* A response served from a cassette is one the server gave to the same     *)
(* request, as long as the requests' bodies come with their heads (the key  *)
(* is made of the first read): no other request's response, whichever       *)
(* sandbox recorded it and whatever was recorded since.                     *)
ReplayIsExact == \A x \in served :
    x[1].first = "whole" /\ x[2].bodyCame => x[2].to = x[1].m /\ x[2].body = x[1].body

(* What is on disk under a framed response is all of it: a response cut     *)
(* short by either side is never recorded (ResponseAssembler.result: "None  *)
(* when it cannot be recorded").                                            *)
CassettesAreWhole == \A b \in Buckets : \A e \in files[b] : e[2].framed => e[2].whole

(* A write answered 202 with a Content-Length is queued with all of its     *)
(* body, however late the body came.                                        *)
QueuedIsWhole == \A x \in queued : x[1].frame = "length" => x[2] = x[1].body

(* Not so: read_remaining_body's comment, "complete is False when the body  *)
(* is unframed ... the caller must then refuse rather than queue".  A       *)
(* chunked body that has not yet come is an empty one to it.                *)
QueuedIsAlwaysWhole == \A x \in queued : x[2] = x[1].body

(* Not so: a read marked by a host rule may carry its body in a later read, *)
(* and requests that differ in it share a cassette.                         *)
ReplayIsAlwaysExact == \A x \in served : x[2].to = x[1].m /\ x[2].body = x[1].body

(* Not so: "a held write truly never leaves" (the gate's comment) of the    *)
(* requests that follow the first on one connection.                        *)
EveryWriteIsDecided == ~undecided

(* Not so: "Re-peek using the record length" makes the server name of a     *)
(* long hello visible to the interceptor, not to the ledger.                *)
HelloIsNamed == \A c \in Conns : conn[c].wire = "bighello" => ~(fpc[c] = "row" /\ scheme[c] = "tcp")

(* What the proxy makes of a flow is what the flow said: a replayed answer  *)
(* is of the request it answers, a cassette is whole, and so is a queued    *)
(* write of a known length.                                                 *)
FlowsAreFaithful == FTypeOK /\ ReplayIsExact /\ CassettesAreWhole /\ QueuedIsWhole
=============================================================================
