---------------------------- MODULE PrefixWatch ----------------------------
(***************************************************************************)
(* Reading what has a prefix: Watch with WithPrefix, and with WithBookmark *)
(* or not, and RangeStream from a prefix to its PrefixEnd (client/         *)
(* options.go, client/client_stream.go).  The client computes the end of   *)
(* the range, the server selects the entries of its log by that range and  *)
(* by revision, and the stream of DirectStream carries them.               *)
(***************************************************************************)
EXTENDS DirectStream, PrefixEnd, SequencesExt

CONSTANTS LogKeys,     \* the keys of the server's entries
          PrefixKeys,  \* the prefixes that are asked for
          Tick         \* a revision without an event; a watch may send a
                       \* bookmark for it

ASSUME KeyAssumption == /\ LogKeys \subseteq Seq(Bytes)
                        /\ PrefixKeys \subseteq Seq(Bytes)
                        /\ Tick \notin LogKeys

VARIABLES request,     \* the request that is sent
          start,       \* the revision that the program asked for, or 0
          log,         \* the server's entries; log[n] has revision n
          now          \* the next revision when the server gets the request

requestVars == <<request, start, log, now>>
watchVars == <<vars, requestVars>>

-----------------------------------------------------------------------------
(* The options of a watch, which a program gives in any order.             *)

\* rpc.WatchRequest: what is not set is empty, zero or false.
NewWatchRequest(k) ==
    [key |-> k, end |-> <<>>, revision |-> 0, allowWatchBookmarks |-> FALSE]

WithPrefix == [name |-> "prefix"]
WithBookmark == [name |-> "bookmark"]
WithRevision(rev) == [name |-> "revision", rev |-> rev]

withRevision(req, rev) == [req EXCEPT !.revision = rev]

\* The end comes from the key that the request has already.
withPrefix(req) == [req EXCEPT !.end = prefixEnd(req.key)]

withBookMark(req) == [req EXCEPT !.allowWatchBookmarks = TRUE]

decorateWatchReq(req, opt) ==
    CASE opt.name = "prefix" -> withPrefix(req)
      [] opt.name = "bookmark" -> withBookMark(req)
      [] opt.name = "revision" -> withRevision(req, opt.rev)

Watch(k, opts) ==
    LET req[i \in 0..Len(opts)] ==      \* when the first i options are applied
            IF i = 0 THEN NewWatchRequest(k) ELSE decorateWatchReq(req[i - 1], opts[i])
    IN  req[Len(opts)]

\* No revision is asked for by revision 0, or by no option.
Revisions(rev) == IF rev = 0 THEN {} ELSE {WithRevision(rev)}

\* A program that reads a prefix gives WithPrefix, and the others or not, in
\* some order.
OptionLists(rev) ==
    UNION {SetToSeqs({WithPrefix} \cup marks \cup Revisions(rev)) :
              marks \in SUBSET {WithBookmark}}

\* A range stream: the caller computes the end, and there are no bookmarks.
RangeRequest(k) == [NewWatchRequest(k) EXCEPT !.end = prefixEnd(k)]

-----------------------------------------------------------------------------
(* A watch starts at the revision of the request, included, or at the next *)
(* one; a range stream reads the log that is there.                        *)
First == IF request.revision = 0 THEN now ELSE request.revision

\* The positions in the log of the entries that the server selects.
Selected ==
    {p \in First..Len(log) :
        IF log[p] = Tick THEN request.allowWatchBookmarks
                         ELSE InRange(log[p], request.key, request.end)}

\* There is one response for each of them, in their order: where the entry
\* of response n is.
Position(n) == CHOOSE p \in Selected : Cardinality({q \in Selected : q <= p}) = n

WatchInit ==
    /\ log \in BoundedSeq(LogKeys \cup {Tick}, MaxLength)
    /\ Init
    /\ \E k \in PrefixKeys :
          IF stage = "open"
          THEN /\ start \in 0..(Len(log) + 1)
               /\ \E opts \in OptionLists(start) : request = Watch(k, opts)
               /\ now \in IF start = 0 THEN 1..(Len(log) + 1) ELSE {1}
          ELSE start = 0 /\ request = RangeRequest(k) /\ now = 1
    /\ length = [s \in Streams |-> Cardinality(Selected)]

WatchNext == Next /\ UNCHANGED requestVars

WatchSpec == WatchInit /\ [][WatchNext]_watchVars /\ Fairness

-----------------------------------------------------------------------------
(* Properties.                                                             *)

\* What was asked for: "Watch traces event with prefix" (interface.go:109),
\* from a revision on, if the program gave one.
Wanted ==
    {p \in (IF start = 0 THEN now ELSE start)..Len(log) :
        log[p] # Tick /\ HasPrefix(log[p], request.key)}

\* WatchResponse.IsBookmark: a response without events.
IsBookmark(n) == log[Position(n)] = Tick

\* Where the entries are that the caller has read, the i-th first.
Entry(i) == Position(got[The][i])

\* The caller gets the entries with the prefix and from the revision on, no
\* others but bookmarks, in order and without a gap, and all of them unless
\* there is an error, in whatever order the options were given.
DeliversPrefix ==
    /\ \A i, j \in DOMAIN got[The] : i < j => Entry(i) < Entry(j)
    /\ \A i \in DOMAIN got[The] : IsBookmark(got[The][i]) \/ Entry(i) \in Wanted
    /\ \A p \in Wanted :
          (ended /\ ~ gotError) \/ (\E i \in DOMAIN got[The] : p <= Entry(i))
             => \E i \in DOMAIN got[The] : Entry(i) = p
=============================================================================
