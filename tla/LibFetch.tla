------------------------------- MODULE LibFetch -------------------------------
(* The HTTP client apk downloads with (apk-tools/libfetch, io_url_libfetch.c): *)
(* the request loop with its redirects and authorization, the connection       *)
(* cache and the decoding of the body.  Servers answer, go silent, drop the    *)
(* connection in the middle of a reply and close idle connections as they      *)
(* like.  The k-th byte of the reply to request q is <<q, k>>.                 *)
EXTENDS Integers, FiniteSets, SequencesExt

CONSTANTS LfHosts,         \* servers; a host stands for scheme, host and port
          LfNetrc,         \* the hosts .netrc has a login for
          LfBodies,        \* how long the bodies are
          LfUrls,          \* requests: <<host, with a login or not, conditional or not>>
          LfCaches,        \* caches that earlier downloads left: sequences of <<host, login>>
          LfMaxRedirect,   \* MAX_REDIRECT
          LfGlobalLimit,   \* cache_global_limit
          LfHostLimit,     \* cache_per_host_limit
          LfMaxConn,       \* connections ever made
          LfMaxReq,        \* requests ever sent
          LfMaxFail,       \* how many reads, writes or connects fail
          LfReadSize       \* how much the reader asks for

VARIABLES lfConn,    \* the connections made so far
          lfCache,   \* connection_cache, most recent first
          lfReq,     \* the locals of http_request
          lfIo,      \* struct httpio of the open stream
          lfGot,     \* the bytes the reader was given
          lfBudget   \* requests sent, failures left, connections in the cache at the start of the
                     \* request; freed: fetch_cache_put closed more than one connection

lfVars == <<lfConn, lfCache, lfReq, lfIo, lfGot, lfBudget>>

None == "none"
LfIdle == [pc |-> "idle", url |-> [host |-> None, cred |-> None], i |-> 0, auth |-> FALSE, keep |-> FALSE,
           conn |-> 0, cached |-> FALSE, head |-> [status |-> 0], e |-> 0, since |-> FALSE, sent |-> 0]
LfNoIo == [chunked |-> FALSE, chunksize |-> 0, clen |-> -1, eof |-> FALSE, error |-> FALSE, keep |-> FALSE,
           buf |-> <<>>, bufpos |-> 0, want |-> 0, pos |-> 0, broken |-> FALSE]

Gone(state) == [url |-> LfIdle.url, wire |-> <<>>, eof |-> TRUE, state |-> state]
Freed(c) == lfConn[c].state = "closed"
Conn == lfConn[lfReq.conn]
Wire == Conn.wire
Goto(pc) == lfReq' = [lfReq EXCEPT !.pc = pc]
MayFail == lfBudget.fail > 0
Failed == lfBudget' = [lfBudget EXCEPT !.fail = @ - 1]

------------------------------------------------------------------------------
(* The server.  A reply is a head, which is the status line with all headers,  *)
(* and a body: bytes, preceded by sizes and followed by line ends if it is     *)
(* chunked.  A drop leaves a part of it; a stub is a head cut after its status *)
(* line.                                                                       *)
ReplyHead(status, framing, clen, keep, loc, n) ==
    [t |-> "head", status |-> status, n |-> n, chunked |-> framing = "chunked", clen |-> clen, keep |-> keep, loc |-> loc]
Byte(q, k) == [t |-> "byte", b |-> <<q, k>>]
SizeLine(n) == [t |-> "size", n |-> n]
EndLine == [t |-> "crlf"]

Body(q, framing, n) ==
    LET bytes == [k \in 1..n |-> Byte(q, k)] IN
    IF framing # "chunked" THEN bytes
    ELSE (IF n > 1 THEN <<SizeLine(1), bytes[1], EndLine, SizeLine(n - 1)>> \o SubSeq(bytes, 2, n)
          ELSE <<SizeLine(1), bytes[1]>>)
         \o <<EndLine, SizeLine(0), EndLine>>

Replies(q) ==
    {<<ReplyHead(200, f, IF f = "length" THEN n ELSE -1, k /\ f # "close", None, n)>> \o Body(q, f, n) :
        f \in {"length", "chunked", "close"}, n \in LfBodies, k \in BOOLEAN}
    \cup {<<ReplyHead(301, "length", 0, TRUE, l, 0)>> : l \in LfHosts \cup {None, "path"}}
    \cup {<<ReplyHead(s, "length", -1, FALSE, None, 0)>> : s \in {307, 401, 404}}
    \cup (IF lfReq.since THEN {<<ReplyHead(304, "length", c, TRUE, None, 0)>> : c \in {-1, 1}} ELSE {})

Dropped(reply) ==
    {SubSeq(reply, 1, k) : k \in 0..(Len(reply) - 1)}
    \cup {<<[reply[1] EXCEPT !.t = "stub"]>>}

(* The server has closed a connection while it was idle; nobody can tell       *)
(* before it is used again.                                                    *)
LfServerCloses ==
    /\ lfReq.pc = "send" /\ lfReq.cached
    /\ ~Conn.eof
    /\ lfConn' = [lfConn EXCEPT ![lfReq.conn].eof = TRUE]
    /\ UNCHANGED <<lfCache, lfReq, lfIo, lfGot, lfBudget>>

------------------------------------------------------------------------------
(* common.c: the connection cache.                                             *)
Matches(c, url) == lfConn[c].url = url
LfMatch(url) == SelectInSeq(lfCache, LAMBDA c : Matches(c, url))

(* fetch_cache_get never sets last_conn: the list now begins behind the        *)
(* connection it takes, and those that were in front of it are lost.           *)
LfTaken(k) ==
    LET c == lfCache[k]
        lost == {lfCache[j] : j \in 1..(k - 1)}
    IN /\ lfCache' = SubSeq(lfCache, k + 1, Len(lfCache))
       /\ lfConn' = [d \in DOMAIN lfConn |->
                        CASE d = c -> [lfConn[d] EXCEPT !.state = "open"]
                          [] d \in lost -> Gone("leaked")
                          [] OTHER -> lfConn[d]]

(* fetch_cache_put closes the connections from the first one that is over a    *)
(* limit on: the count of the host is never taken back, that of all is.  Only  *)
(* the first is unlinked, since the loop keeps the one it has just freed as    *)
(* the predecessor of the next; the others stay in the list, freed.            *)
LfEvicted(c, cache) ==
    LET sameHost(k) == Cardinality({j \in 1..k : lfConn[cache[j]].url.host = lfConn[c].url.host})
        crowded(k) == sameHost(k) >= LfHostLimit
    IN {k \in DOMAIN cache : k >= LfGlobalLimit \/ crowded(k)}

LfPut(c) ==
    LET out == LfEvicted(c, lfCache)
        first == CHOOSE k \in out : \A j \in out : k <= j
    IN /\ lfCache' = <<c>> \o (IF out = {} THEN lfCache ELSE RemoveAt(lfCache, first))
       /\ lfConn' = [d \in DOMAIN lfConn |->
                        IF d = c THEN [lfConn[d] EXCEPT !.state = "cached"]
                        ELSE IF \E k \in out : lfCache[k] = d THEN Gone("closed")
                        ELSE lfConn[d]]
       /\ lfBudget' = [lfBudget EXCEPT !.freed = @ \/ Cardinality(out) > 1]

(* A connection whose reply has no length cannot be kept.                      *)
LfKeep == lfReq.keep /\ (lfReq.head.clen # -1 \/ lfReq.head.chunked)

(* Walking over a connection that was freed is undefined: nothing is said of   *)
(* what follows.  fetch_cache_get walks up to the match, fetch_cache_put to    *)
(* the end.                                                                    *)
LfWalked ==
    LET m == IF lfReq.pc = "connect" THEN LfMatch(lfReq.url) ELSE 0
    IN {lfCache[k] : k \in 1..(IF m = 0 THEN Len(lfCache) ELSE m)}
Sound == \A c \in LfWalked : ~Freed(c)

LfUndefined ==
    /\ \/ lfReq.pc = "connect"
       \/ lfReq.pc \in {"open", "ended"} /\ lfIo.keep
       \/ lfReq.pc = "decide" /\ lfReq.head.status = 304 /\ LfKeep
    /\ ~Sound
    /\ Goto("undefined")
    /\ UNCHANGED <<lfConn, lfCache, lfIo, lfGot, lfBudget>>

(* fetch_close.                                                                *)
LfShut(c) == lfConn' = [lfConn EXCEPT ![c] = Gone("closed")] /\ UNCHANGED lfCache

(* http_request leaves through ouch.                                           *)
LfOuch(status) ==
    /\ IF lfReq.conn = 0 THEN UNCHANGED <<lfConn, lfCache>> ELSE LfShut(lfReq.conn)
    /\ lfReq' = [LfIdle EXCEPT !.pc = "failed", !.e = status]

------------------------------------------------------------------------------
(* apk_io_url_init, and downloads before this one: each left its connection.   *)
LfEarlier(urls) ==
    /\ lfReq.pc = "idle" /\ lfConn = <<>>
    /\ lfConn' = [k \in DOMAIN urls |-> [url |-> [host |-> urls[k][1], cred |-> IF urls[k][2] THEN urls[k][1] ELSE None],
                                         wire |-> <<>>, eof |-> FALSE, state |-> "cached"]]
    /\ lfCache' = [k \in DOMAIN urls |-> k]
    /\ UNCHANGED <<lfReq, lfIo, lfGot, lfBudget>>

(* apk_io_url_istream: a conditional request for a URL, with a login or not.   *)
LfGet(h, login, since) ==
    /\ lfReq.pc \in {"idle", "failed", "closed"}
    /\ lfBudget.req < LfMaxReq
    /\ lfReq' = [LfIdle EXCEPT !.pc = "connect", !.url = [host |-> h, cred |-> IF login THEN h ELSE None], !.since = since]
    /\ lfGot' = <<>>
    /\ lfIo' = LfNoIo
    /\ lfBudget' = [lfBudget EXCEPT !.start = Len(lfCache)]
    /\ UNCHANGED <<lfConn, lfCache>>

(* http_connect: a cached connection, or a new one, or none.                   *)
LfReuse ==
    /\ lfReq.pc = "connect" /\ Sound
    /\ LfMatch(lfReq.url) > 0
    /\ lfReq' = [lfReq EXCEPT !.pc = "send", !.conn = lfCache[LfMatch(lfReq.url)], !.cached = TRUE]
    /\ LfTaken(LfMatch(lfReq.url))
    /\ UNCHANGED <<lfIo, lfGot, lfBudget>>

(* fetch_connect: the first address that answers.                              *)
LfConnected == Append(lfConn, [url |-> lfReq.url, wire |-> <<>>, eof |-> FALSE, state |-> "open"])

LfConnect ==
    /\ lfReq.pc = "connect" /\ Sound
    /\ LfMatch(lfReq.url) = 0
    /\ Len(lfConn) < LfMaxConn
    /\ \/ /\ lfConn' = LfConnected
          /\ lfReq' = [lfReq EXCEPT !.pc = "send", !.conn = Len(lfConn) + 1, !.cached = FALSE]
          /\ UNCHANGED <<lfCache, lfBudget>>
       \/ /\ MayFail /\ Failed
          /\ LfOuch(-1)
    /\ UNCHANGED <<lfIo, lfGot>>

(* The request is written; the login is the URL's or, once the server asked,   *)
(* that of .netrc.  What the server sends is on the wire behind what an        *)
(* earlier reader left there.                                                  *)
LfNetrcAuth(h) == IF h \in LfNetrc THEN h ELSE None
LfLogin == IF lfReq.auth /\ lfReq.url.cred = None THEN LfNetrcAuth(lfReq.url.host) ELSE lfReq.url.cred

(* http_cmd and fetch_write: nobody looks at whether the request went out.     *)
LfWrite(reply, last) ==
    lfConn' = IF Conn.eof THEN lfConn
              ELSE [lfConn EXCEPT ![lfReq.conn].wire = @ \o reply, ![lfReq.conn].eof = last]

LfSend ==
    /\ lfReq.pc = "send"
    /\ lfBudget.req < LfMaxReq
    /\ ~(lfReq.auth /\ LfLogin = None)
    /\ lfReq' = [lfReq EXCEPT !.pc = "reply", !.url.cred = LfLogin, !.sent = @ + 1]
    /\ \E r \in Replies(lfBudget.req + 1) :
          \/ /\ LfWrite(r, ~r[1].keep)
             /\ lfBudget' = [lfBudget EXCEPT !.req = @ + 1]
          \/ /\ MayFail /\ ~Conn.eof
             /\ \E p \in Dropped(r) : LfWrite(p, TRUE)
             /\ lfBudget' = [lfBudget EXCEPT !.req = @ + 1, !.fail = @ - 1]
    /\ UNCHANGED <<lfCache, lfIo, lfGot>>

LfNoLogin ==
    /\ lfReq.pc = "send"
    /\ lfReq.auth /\ LfLogin = None
    /\ LfOuch(401)
    /\ UNCHANGED <<lfIo, lfGot, lfBudget>>

(* http_get_reply and the switch on it.  A line that is no status line, or the *)
(* end of the connection, is a protocol error: a cached connection is dropped, *)
(* without being closed, and the loop tries again without counting.            *)
LfGetln(kinds) == Wire # <<>> /\ Wire[1].t \in kinds
LfStatus == IF LfGetln({"head", "stub"}) THEN Wire[1].status ELSE 999

(* http_next_header, until the empty line or the end of the connection.        *)
LfHeaders(u) == IF u.t = "head" THEN u ELSE [u EXCEPT !.clen = -1, !.chunked = FALSE, !.loc = None]

LfNoReply ==
    /\ lfReq.pc = "reply"
    /\ \/ LfStatus = 999 /\ UNCHANGED lfBudget
       \/ MayFail /\ Failed
    /\ IF lfReq.cached
       THEN /\ lfReq' = [lfReq EXCEPT !.pc = "connect", !.conn = 0]
            /\ lfConn' = [lfConn EXCEPT ![lfReq.conn] = Gone("leaked")]
            /\ UNCHANGED lfCache
       ELSE LfOuch(999)
    /\ UNCHANGED <<lfIo, lfGot>>

LfReply ==
    /\ lfReq.pc = "reply"
    /\ LfStatus # 999
    /\ lfConn' = [lfConn EXCEPT ![lfReq.conn].wire = Tail(@)]
    /\ lfReq' = [lfReq EXCEPT !.pc = "decide", !.head = LfHeaders(Wire[1]), !.keep = IF Wire[1].t = "head" THEN Wire[1].keep ELSE @]
    /\ UNCHANGED <<lfCache, lfIo, lfGot, lfBudget>>

(* Another round of the loop, or the end of the retries.                       *)
LfRound == lfReq.i + 1

LfAgain(url, auth, status) ==
    /\ LfShut(lfReq.conn)
    /\ lfReq' = IF LfRound < LfMaxRedirect
                THEN [lfReq EXCEPT !.pc = "connect", !.url = url, !.auth = auth, !.i = LfRound, !.conn = 0]
                ELSE [LfIdle EXCEPT !.pc = "failed", !.e = status]

LfAuthorize ==
    /\ lfReq.pc = "decide" /\ lfReq.head.status = 401
    /\ IF lfReq.auth THEN LfOuch(401) ELSE LfAgain(lfReq.url, TRUE, 401)
    /\ UNCHANGED <<lfIo, lfGot, lfBudget>>

(* The login is kept by a path on the same server, or by a URL of the same     *)
(* server.                                                                     *)
LfLocation(loc) == IF loc \in {"path", lfReq.url.host} THEN lfReq.url ELSE [host |-> loc, cred |-> None]

LfRedirect ==
    /\ lfReq.pc = "decide" /\ lfReq.head.status = 301
    /\ IF lfReq.head.loc = None
       THEN LfShut(lfReq.conn) /\ lfReq' = [LfIdle EXCEPT !.pc = "failed", !.e = 301]
       ELSE LfAgain(LfLocation(lfReq.head.loc), FALSE, 301)
    /\ UNCHANGED <<lfIo, lfGot, lfBudget>>

LfRefused ==
    /\ lfReq.pc = "decide" /\ lfReq.head.status \in {307, 404}
    /\ LfOuch(lfReq.head.status)
    /\ UNCHANGED <<lfIo, lfGot, lfBudget>>

LfNotModified ==
    /\ lfReq.pc = "decide" /\ lfReq.head.status = 304
    /\ IF LfKeep
       THEN Sound /\ LfPut(lfReq.conn) /\ lfReq' = [LfIdle EXCEPT !.pc = "failed", !.e = 304]
       ELSE LfOuch(304) /\ UNCHANGED lfBudget
    /\ UNCHANGED <<lfIo, lfGot>>

(* http_funopen.                                                               *)
LfFunopen == [LfNoIo EXCEPT !.chunked = lfReq.head.chunked, !.clen = lfReq.head.clen, !.keep = LfKeep]

LfOpen ==
    /\ lfReq.pc = "decide" /\ lfReq.head.status = 200
    /\ Goto("open")
    /\ lfIo' = LfFunopen
    /\ UNCHANGED <<lfConn, lfCache, lfGot, lfBudget>>

------------------------------------------------------------------------------
(* http_readfn: calls http_fillbuf until it has what was asked for.            *)
LfRead ==
    /\ lfReq.pc = "open"
    /\ IF lfIo.error \/ lfIo.eof
       THEN Goto("ended") /\ UNCHANGED lfIo
       ELSE Goto("read") /\ lfIo' = [lfIo EXCEPT !.want = LfReadSize, !.pos = 0]
    /\ UNCHANGED <<lfConn, lfCache, lfGot, lfBudget>>

LfBuffered == Len(lfIo.buf) - lfIo.bufpos

(* The copy to the caller.  After a failed fill the offset may be behind the   *)
(* end of the buffer: then what is copied is not the reply.                    *)
LfAdvanceNot(l) == lfIo.bufpos
LfAdvance(l) == lfIo.bufpos + l

LfCopy ==
    LET junk == [k \in 1..lfIo.want |-> <<0, 0>>]
        l == IF LfBuffered < 0 THEN lfIo.want ELSE IF lfIo.want < LfBuffered THEN lfIo.want ELSE LfBuffered
        part == IF LfBuffered < 0 THEN junk ELSE SubSeq(lfIo.buf, lfIo.bufpos + 1, lfIo.bufpos + l)
    IN /\ lfReq.pc = "read"
       /\ lfIo.want > 0 /\ LfBuffered # 0
       /\ lfGot' = lfGot \o part
       /\ lfIo' = [lfIo EXCEPT !.bufpos = LfAdvance(l), !.want = @ - l, !.pos = @ + l]
       /\ UNCHANGED <<lfConn, lfCache, lfReq, lfBudget>>

Filling == lfReq.pc = "read" /\ lfIo.want > 0 /\ LfBuffered = 0

(* The call returns what it has; nothing means the end of the file to the      *)
(* caller, who stops.                                                          *)
Returned(io) == IF io.pos = 0 THEN "ended" ELSE "open"

LfReadReturns ==
    /\ lfReq.pc = "read" /\ lfIo.want = 0
    /\ Goto("open")
    /\ UNCHANGED <<lfConn, lfCache, lfIo, lfGot, lfBudget>>

(* fetch_read: up to n bytes of the wire, or the end.                          *)
LfTake(wire, k) == [j \in 1..k |-> wire[j].b]
LfRun(wire) == SelectInSeq(Append(wire, EndLine), LAMBDA u : u.t # "byte") - 1

Fill(n, k, wire) ==
    /\ k <= n /\ k <= LfRun(wire)
    /\ k = 0 => LfRun(wire) = 0

LfFillError ==
    /\ Filling /\ ~lfIo.eof
    /\ MayFail /\ Failed
    /\ lfIo' = [lfIo EXCEPT !.error = TRUE, !.broken = TRUE]
    /\ Goto(Returned(lfIo))
    /\ UNCHANGED <<lfConn, lfCache, lfGot>>

LfLeft(n, k) == lfIo.clen - k

LfFillPlain(k) ==
    /\ Filling /\ ~lfIo.chunked
    /\ LET n == IF lfIo.clen >= 0 /\ lfIo.want > lfIo.clen THEN lfIo.clen ELSE lfIo.want IN
       /\ IF n = 0 THEN k = 0 ELSE Fill(n, k, Wire) /\ (k = 0 => Conn.eof)
       /\ lfIo' = [lfIo EXCEPT !.buf = LfTake(Wire, k), !.bufpos = 0, !.clen = IF @ # 0 THEN LfLeft(n, k) ELSE @]
    /\ lfConn' = [lfConn EXCEPT ![lfReq.conn].wire = SubSeq(@, k + 1, Len(@))]
    /\ IF k = 0 THEN Goto(Returned(lfIo)) ELSE UNCHANGED lfReq
    /\ UNCHANGED <<lfCache, lfGot, lfBudget>>

(* http_new_chunk: the line with the next size.  The last one is followed by   *)
(* an empty line.                                                              *)
LfNewChunk ==
    /\ Filling /\ lfIo.chunked /\ ~lfIo.eof /\ lfIo.chunksize = 0
    /\ Wire # <<>> \/ Conn.eof
    /\ IF LfGetln({"size"})
       THEN IF Wire[1].n = 0
            THEN /\ lfIo' = [lfIo EXCEPT !.eof = TRUE]
                 /\ Goto(Returned(lfIo))
                 /\ lfConn' = [lfConn EXCEPT ![lfReq.conn].wire = SubSeq(@, 3, Len(@))]
            ELSE /\ lfIo' = [lfIo EXCEPT !.chunksize = Wire[1].n]
                 /\ lfConn' = [lfConn EXCEPT ![lfReq.conn].wire = Tail(@)]
                 /\ UNCHANGED lfReq
       ELSE /\ lfIo' = [lfIo EXCEPT !.error = TRUE, !.broken = TRUE]
            /\ Goto(Returned(lfIo))
            /\ UNCHANGED lfConn
    /\ UNCHANGED <<lfCache, lfGot, lfBudget>>

(* The bytes of a chunk, and after the last of them the end of the line: when  *)
(* the connection ends before it, the bytes that are compared were never read, *)
(* so the fill may succeed, or fail without leaving an error.                  *)
LfFillChunk(k) ==
    /\ Filling /\ lfIo.chunked /\ lfIo.chunksize > 0
    /\ LET n == IF lfIo.want > lfIo.chunksize THEN lfIo.chunksize ELSE lfIo.want
           rest == SubSeq(Wire, k + 1, Len(Wire))
           last == k = lfIo.chunksize
           filled == [lfIo EXCEPT !.buf = LfTake(Wire, k), !.chunksize = @ - k, !.bufpos = 0]
           broken == [filled EXCEPT !.bufpos = lfIo.bufpos, !.broken = TRUE]
       IN /\ Fill(n, k, Wire) /\ (k = 0 => Conn.eof)
          /\ \/ /\ last /\ rest # <<>> => rest[1].t = "crlf"
                /\ lfIo' = filled
                /\ lfConn' = [lfConn EXCEPT ![lfReq.conn].wire = IF last /\ rest # <<>> THEN Tail(rest) ELSE rest]
                /\ IF k = 0 THEN Goto(Returned(lfIo)) ELSE UNCHANGED lfReq
             \/ /\ last /\ rest = <<>>
                /\ lfIo' = broken
                /\ lfConn' = [lfConn EXCEPT ![lfReq.conn].wire = rest]
                /\ Goto(Returned(lfIo))
    /\ UNCHANGED <<lfCache, lfGot, lfBudget>>

(* http_closefn: at any time, whether everything was read or not.              *)
LfClose ==
    /\ lfReq.pc \in {"open", "ended"}
    /\ IF lfIo.keep THEN Sound /\ LfPut(lfReq.conn) ELSE LfShut(lfReq.conn) /\ UNCHANGED lfBudget
    /\ lfReq' = [LfIdle EXCEPT !.pc = "closed"]
    /\ lfIo' = LfNoIo
    /\ lfGot' = <<>>

------------------------------------------------------------------------------
LfInit ==
    /\ lfConn = <<>>
    /\ lfCache = <<>>
    /\ lfReq = LfIdle
    /\ lfIo = LfNoIo
    /\ lfGot = <<>>
    /\ lfBudget = [req |-> 0, fail |-> LfMaxFail, start |-> 0, freed |-> FALSE]

LfStep ==
    \/ LfUndefined \/ LfReuse \/ LfConnect \/ LfSend \/ LfNoLogin \/ LfNoReply \/ LfReply \/ LfAuthorize \/ LfRedirect \/ LfRefused
    \/ LfNotModified \/ LfOpen \/ LfCopy \/ LfReadReturns \/ LfFillError \/ LfNewChunk
    \/ \E k \in 0..LfReadSize : LfFillPlain(k) \/ LfFillChunk(k)

LfNext ==
    \/ \E urls \in LfCaches : LfEarlier(urls)
    \/ \E u \in LfUrls : LfGet(u[1], u[2], u[3])
    \/ LfServerCloses \/ LfRead \/ LfClose
    \/ LfStep

LfSpec == LfInit /\ [][LfNext]_lfVars

------------------------------------------------------------------------------
LfTypeOK ==
    /\ \A c \in DOMAIN lfConn : /\ lfConn[c].state \in {"open", "cached", "closed", "leaked"}
                                /\ lfConn[c].url.host \in LfHosts \cup {None}
    /\ lfReq.conn \in {0} \cup DOMAIN lfConn
    /\ Range(lfCache) \subseteq DOMAIN lfConn
    /\ lfIo.chunksize >= 0 /\ lfIo.want \in 0..LfReadSize

(* A connection is in one place: in the cache once and alive, or in use by the *)
(* request, or closed or lost for good, and the cache is within its limit.     *)
(* (fetch_cache_get, fetch_cache_put and the ways out of http_request.)  The   *)
(* exception is a cache in which fetch_cache_put found more than one           *)
(* connection to close: it still lists all of them but the first.              *)
LfOnePlace ==
    /\ IsInjective(lfCache)
    /\ Cardinality({c \in Range(lfCache) : ~Freed(c)}) <= LfGlobalLimit
    /\ \A c \in DOMAIN lfConn :
          /\ lfConn[c].state = "cached" => c \in Range(lfCache)
          /\ c \in Range(lfCache) => lfConn[c].state = "cached" \/ (lfBudget.freed /\ Freed(c))
          /\ c = lfReq.conn <=> lfConn[c].state = "open"

(* The bytes a reader gets are the bytes of the reply to its own request, from *)
(* the first on, whatever an earlier reader left unread on the connection and  *)
(* wherever servers drop it, until a read fails.                               *)
LfOwnReply ==
    ~lfIo.broken => \A k \in DOMAIN lfGot : lfGot[k] = <<lfBudget.req, k>>

(* When the length or the last chunk says that the body ends here, it does,    *)
(* and a connection that is kept has nothing of it left.                       *)
LfComplete ==
    lfReq.pc = "ended" /\ ~lfIo.broken /\ (lfIo.eof \/ (~lfIo.chunked /\ lfIo.clen = 0)) =>
        Len(lfGot) = lfReq.head.n /\ Wire = <<>>

(* A login is sent to the server it belongs to only, however the request was   *)
(* redirected.                                                                 *)
LfLoginAtHome == lfReq.pc = "reply" => lfReq.url.cred \in {None, lfReq.url.host}

(* A request is sent at most MAX_REDIRECT times, once in each round of the     *)
(* loop, and once more for each cached connection that turns out to be dead.   *)
LfBounded == lfReq.sent > 0 => lfReq.i < LfMaxRedirect /\ lfReq.sent <= lfReq.i + 1 + lfBudget.start

\* What libfetch promises of its connections: each is in one place, within the limits, its
\* reply is the one to its request, a reply that ends normally is complete, and a login
\* stays with its host.
LfCorrect ==
  lfConn # <<>> \/ lfReq # LfIdle =>
    LfTypeOK /\ LfOnePlace /\ LfOwnReply /\ LfComplete /\ LfLoginAtHome /\ LfBounded
================================================================================
