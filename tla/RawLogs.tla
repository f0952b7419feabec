------------------------------- MODULE RawLogs -------------------------------
(***************************************************************************)
(* The drill-down from a template to its raw lines (routes/raw-logs.ts)    *)
(* and the connectors it reads (routes/connectors.ts, connectors/*.ts).    *)
(* A request scans the objects of the archive that the template's rows     *)
(* refer to; if that finds nothing, it turns to one connector: files in S3 *)
(* or in a directory, scanned here, or Elasticsearch and Loki, which       *)
(* search themselves.  Objects come and go while a request is under way.   *)
(* A line is the pair of its file and its number among the file's matching *)
(* lines; number 0 stands for one that does not match.                     *)
(***************************************************************************)
EXTENDS Naturals, Sequences, SequencesExt, FiniteSets, FiniteSetsExt

CONSTANTS
  Archived, Stored,  (* objects of the archive; files, or entries, of a connector *)
  HourOf,       (* the hour an object belongs to                             *)
  LinesOf,      (* how many of its lines match the template                  *)
  Connectors, TypeOf,  (* "s3", "filesystem", "elasticsearch", "loki"        *)
  Now,          (* the current hour                                          *)
  Hours, Limits,  (* what a request may ask for                              *)
  MaxFiles, MaxRedirects,  (* SCAN_DEFAULTS.maxFiles, MAX_REDIRECTS          *)
  MaxAsks, MaxChanges  (* bounds: requests; changes outside of them          *)

Files == Archived \union Stored

RawLogsAssumption ==
  /\ Archived \intersect Stored = {}
  /\ HourOf \in [Files -> 0..Now] /\ LinesOf \in [Files -> Nat]
  /\ TypeOf \in [Connectors -> {"s3", "filesystem", "elasticsearch", "loki"}]
  /\ Hours \subseteq 1..Now /\ Limits \subseteq Nat \ {0}
  /\ {MaxFiles, MaxRedirects, MaxAsks, MaxChanges} \subseteq Nat

None    == "none"
Archive == "archive"
Needs   == {"up", "auth", "data"}

VARIABLES
  table,    (* tenant_connectors: those not deleted, oldest first            *)
  files,    (* what can be read now                                          *)
  backend,  (* what a connector can count on: "up", "auth" (its credentials, *)
            (* the allowed roots), "data" (its bucket, index, directory)      *)
  req,      (* the request                                                   *)
  tested,   (* history: connectors whose last test succeeded, and whose      *)
            (* backend did not change since                                  *)
  asks, changes

vars == <<table, files, backend, req, tested, asks, changes>>

Blank ==
  [pc |-> "idle", limit |-> 1, since |-> Now, want |-> None, via |-> None,
   hours |-> <<>>,       (* prefixes left to list                            *)
   keys |-> <<>>, listed |-> 0,  (* files left to scan; how many there were  *)
   lines |-> <<>>, truncated |-> FALSE, method |-> "GET", hops |-> 0,
   stable |-> {},        (* history: readable ever since the request began   *)
   unread |-> {},        (* history: files skipped because reading failed    *)
   excuse |-> {}]        (* history: "cut", "refused", "downgraded", "late"  *)

Ended == {"idle", "done", "empty", "notfound", "error"}

TypeOK ==
  /\ table \in SeqOf(Connectors, Cardinality(Connectors)) /\ IsInjective(table)
  /\ files \subseteq Files
  /\ backend \in [Connectors -> SUBSET Needs]
  /\ req.pc \in Ended \union {"resolve", "listing", "scanning", "querying"}
  /\ req.via \in Connectors \union {Archive, None}
  /\ Len(req.lines) <= req.limit /\ IsInjective(req.lines)
  /\ req.listed <= MaxFiles /\ Len(req.keys) <= req.listed
  /\ req.hops <= MaxRedirects
  /\ tested \subseteq Connectors

Init ==
  /\ table \in {<<>>} \union {<<c>> : c \in Connectors} /\ files \in SUBSET Files
  /\ backend = [c \in Connectors |-> Needs]
  /\ req = Blank /\ tested = {} /\ asks = 0 /\ changes = 0

-----------------------------------------------------------------------------
(* Connectors, and the world outside.                                      *)

(* POST /connectors: ids are fresh. *)
Create(c) ==
  /\ c \notin ToSet(table) /\ changes < MaxChanges /\ changes' = changes + 1
  /\ table' = Append(table, c)
  /\ UNCHANGED <<files, backend, req, tested, asks>>

(* DELETE /connectors/:id inserts a tombstone. *)
Delete(c) ==
  /\ c \in ToSet(table) /\ changes < MaxChanges /\ changes' = changes + 1
  /\ table' = SelectSeq(table, LAMBDA d : d # c)
  /\ UNCHANGED <<files, backend, req, tested, asks>>

(* testConnection: S3 assumes its role and lists the prefix, the directory *)
(* has to be allowed and there, Elasticsearch tells its health and counts  *)
(* the index, and Loki tells that it is ready and lists its labels.        *)
TestsS3(has)            == {"up", "auth", "data"} \subseteq has
TestsFilesystem(has)    == {"auth", "data"} \subseteq has
TestsElasticsearch(has) == {"up", "auth", "data"} \subseteq has
TestsLoki(has)          == {"up", "auth"} \subseteq has

TestSucceeds(c) ==
  CASE TypeOf[c] = "s3" -> TestsS3(backend[c])
    [] TypeOf[c] = "filesystem" -> TestsFilesystem(backend[c])
    [] TypeOf[c] = "elasticsearch" -> TestsElasticsearch(backend[c])
    [] TypeOf[c] = "loki" -> TestsLoki(backend[c])

(* POST /connectors/:id/test *)
Test(c) ==
  /\ c \in ToSet(table)
  /\ tested' = IF TestSucceeds(c) THEN tested \union {c} ELSE tested \ {c}
  /\ UNCHANGED <<table, files, backend, req, asks, changes>>

Landed(f) ==
  /\ f \notin files /\ changes < MaxChanges /\ changes' = changes + 1
  /\ files' = files \union {f}
  /\ UNCHANGED <<table, backend, req, tested, asks>>

Removed(f) ==
  /\ f \in files /\ changes < MaxChanges /\ changes' = changes + 1
  /\ files' = files \ {f} /\ req' = [req EXCEPT !.stable = @ \ {f}]
  /\ UNCHANGED <<table, backend, tested, asks>>

BackendChanges(c, need) ==
  /\ changes < MaxChanges /\ changes' = changes + 1
  /\ backend' = [backend EXCEPT ![c] = SymDiff(@, {need})] /\ tested' = tested \ {c}
  /\ UNCHANGED <<table, files, req, asks>>

-----------------------------------------------------------------------------
(* A request.                                                              *)

Go(next) == req' = next /\ UNCHANGED <<table, files, backend, tested, asks, changes>>

FirstOf(seq, n) == IF Len(seq) <= n THEN seq ELSE SubSeq(seq, 1, n)
NewestFirst(set) == SetToSortSeq(set, LAMBDA f, g : HourOf[f] > HourOf[g])
InRange(set, since) == {f \in set : HourOf[f] >= since}

(* getArchiveSourceRefs: the newest objects that rows in range refer to.   *)
ArchiveRefs(since) == FirstOf(NewestFirst(InRange(Archived \intersect files, since)), MaxFiles)

Asked(limit, since, want) ==
  [Blank EXCEPT !.limit = limit, !.since = since, !.want = want, !.stable = files]

Scans(r, via, keys) ==
  [r EXCEPT !.pc = "scanning", !.via = via, !.keys = keys, !.listed = Len(keys)]

(* GET /templates/:id/raw-logs, for a template that exists. *)
Ask(limit, hours, want) ==
  LET r    == Asked(limit, Now - hours, want)
      refs == ArchiveRefs(r.since)
  IN /\ req.pc \in Ended /\ asks < MaxAsks /\ asks' = asks + 1
     /\ req' = IF refs # <<>> THEN Scans(r, Archive, refs) ELSE [r EXCEPT !.pc = "resolve"]
     /\ UNCHANGED <<table, files, backend, tested, changes>>

(* resolvePathPrefixes: one prefix per hour, the oldest first. *)
HoursSince(since) == [i \in 1..(Now - since + 1) |-> since + i - 1]

(* The connector asked for, or the newest.                                 *)
Resolve ==
  LET chosen == IF req.want # None THEN req.want ELSE Last(table)
  IN /\ req.pc = "resolve"
     /\ IF req.want # None /\ req.want \notin ToSet(table) THEN Go([req EXCEPT !.pc = "notfound"])
        ELSE IF table = <<>> THEN Go([req EXCEPT !.pc = "empty"])
        ELSE IF TypeOf[chosen] \in {"s3", "filesystem"}
        THEN Go([req EXCEPT !.pc = "listing", !.via = chosen, !.hours = HoursSince(req.since)])
        ELSE Go([req EXCEPT !.pc = "querying", !.via = chosen,
                            !.method = IF TypeOf[chosen] = "elasticsearch" THEN "POST" ELSE "GET"])

(* createClient and the listing of S3; assertWithinAllowedRoots.           *)
Lists(c) == (TypeOf[c] = "s3" => "up" \in backend[c]) /\ {"auth", "data"} \subseteq backend[c]

(* A client that cannot be made, a listing that is refused, a directory    *)
(* outside of the allowed roots or that is not there: the request fails.   *)
ListingFails ==
  /\ req.pc = "listing" /\ ~Lists(req.via)
  /\ Go([req EXCEPT !.pc = "error"])

(* The S3 adapter lists the prefixes of the hours, oldest first.           *)
ListPrefix ==
  LET hour == Head(req.hours)
      keys == FirstOf(req.keys \o SetToSeq({f \in Stored \intersect files : HourOf[f] = hour}), MaxFiles)
      left == IF Len(keys) >= MaxFiles THEN <<>> ELSE Tail(req.hours)
  IN /\ req.pc = "listing" /\ TypeOf[req.via] = "s3" /\ Lists(req.via)
     /\ IF left = <<>> THEN Go(Scans([req EXCEPT !.hours = <<>>], req.via, keys))
        ELSE Go([req EXCEPT !.hours = left, !.keys = keys, !.listed = Len(keys)])

(* The filesystem adapter takes the first MaxFiles files of its walk, in   *)
(* whatever order the directories have them, then sorts and filters.       *)
Walk ==
  LET there == Stored \intersect files
  IN /\ req.pc = "listing" /\ TypeOf[req.via] = "filesystem" /\ Lists(req.via)
     /\ \E chosen \in SUBSET there :
          /\ Cardinality(chosen) = Min({MaxFiles, Cardinality(there)})
          /\ Go(Scans([req EXCEPT !.hours = <<>>,
                                  !.excuse = IF chosen # there THEN @ \union {"cut"} ELSE @],
                      req.via, NewestFirst(InRange(chosen, req.since))))

-----------------------------------------------------------------------------
(* The scan of the listed files.                                           *)

(* Mutant: a scan that read all its files is never truncated. *)
TruncatedByTimeOnly(late) == late

(* It is truncated if it ran out of time, or listed as many files as it    *)
(* may and found too little in them.                                       *)
Truncated(late) == late \/ (req.listed >= MaxFiles /\ Len(req.lines) < req.limit)

(* An archive that has nothing does not hide a connector.                  *)
Finish(late) ==
  IF req.via = Archive /\ req.lines = <<>>
  THEN Go([req EXCEPT !.pc = "resolve", !.via = None, !.keys = <<>>, !.listed = 0,
                      !.excuse = IF late THEN {"late"} ELSE {}])
  ELSE Go([req EXCEPT !.pc = "done", !.truncated = Truncated(late)])

ScanEnds ==
  /\ req.pc = "scanning" /\ (req.keys = <<>> \/ Len(req.lines) >= req.limit)
  /\ Finish(FALSE)

ScanLate ==
  /\ req.pc = "scanning" /\ req.keys # <<>> /\ Len(req.lines) < req.limit
  /\ Finish(TRUE)

MatchesIn(f) == [i \in 1..LinesOf[f] |-> <<f, i>>]

(* Lines are taken until the limit; a file that cannot be read is skipped. *)
ScanFile(reads) ==
  LET f == Head(req.keys)
  IN /\ req.pc = "scanning" /\ req.keys # <<>> /\ Len(req.lines) < req.limit
     /\ IF reads /\ f \in files
        THEN Go([req EXCEPT !.keys = Tail(@), !.lines = FirstOf(@ \o MatchesIn(f), req.limit)])
        ELSE Go([req EXCEPT !.keys = Tail(@), !.unread = @ \union {f}])

-----------------------------------------------------------------------------
(* Elasticsearch and Loki, through safeFetch.                              *)

(* A redirect is followed; 303, and 301 or 302 after a POST, with a GET    *)
(* that has no body.                                                       *)
Redirected(keeps) ==
  /\ req.pc = "querying"
  /\ IF req.hops = MaxRedirects THEN Go([req EXCEPT !.pc = "error"])
     ELSE IF req.method = "POST" /\ ~keeps
     THEN Go([req EXCEPT !.hops = @ + 1, !.method = "GET", !.excuse = @ \union {"downgraded"}])
     ELSE Go([req EXCEPT !.hops = @ + 1])

Matching(since) ==
  FlattenSeq([i \in 1..Cardinality(InRange(Stored \intersect files, since)) |->
                MatchesIn(NewestFirst(InRange(Stored \intersect files, since))[i])])

(* A search whose body was lost finds any entries. *)
Unfiltered == {<<f, 0>> : f \in Stored \intersect files}

Found ==
  IF "downgraded" \in req.excuse THEN SetToSeq(Unfiltered) ELSE Matching(req.since)

(* Elasticsearch tells the total, Loki does not. *)
Flagged(lines) ==
  IF TypeOf[req.via] = "loki" THEN Len(lines) >= req.limit ELSE Len(lines) > req.limit

Refuses(c) ==
  "auth" \notin backend[c] \/ (TypeOf[c] = "elasticsearch" /\ "data" \notin backend[c])

(* A refusal is answered like a search that found nothing. *)
QueryAnswers ==
  /\ req.pc = "querying" /\ "up" \in backend[req.via]
  /\ IF Refuses(req.via) THEN Go([req EXCEPT !.pc = "done", !.excuse = @ \union {"refused"}])
     ELSE Go([req EXCEPT !.pc = "done", !.lines = FirstOf(Found, req.limit), !.truncated = Flagged(Found)])

(* The message of a timeout names neither TimeoutError nor AbortError, so  *)
(* it fails the request, like a backend that is not reached.               *)
QueryFails(late) ==
  /\ req.pc = "querying" /\ (late \/ "up" \notin backend[req.via])
  /\ Go([req EXCEPT !.pc = "error", !.excuse = IF late THEN @ \union {"late"} ELSE @])

Next ==
  \/ \E c \in Connectors :
       Create(c) \/ Delete(c) \/ Test(c) \/ \E need \in Needs : BackendChanges(c, need)
  \/ \E f \in Files : Landed(f) \/ Removed(f)
  \/ \E limit \in Limits, hours \in Hours, want \in Connectors \union {None} : Ask(limit, hours, want)
  \/ Resolve \/ ListingFails \/ ListPrefix \/ Walk
  \/ ScanEnds \/ ScanLate \/ \E reads \in BOOLEAN : ScanFile(reads)
  \/ \E keeps \in BOOLEAN : Redirected(keeps)
  \/ QueryAnswers \/ \E late \in BOOLEAN : QueryFails(late)

Spec == Init /\ [][Next]_vars

-----------------------------------------------------------------------------
Source == IF req.via = Archive THEN Archived ELSE Stored

Complete ==
  \A f \in InRange(Source \intersect req.stable, req.since) \ req.unread :
    ToSet(MatchesIn(f)) \subseteq ToSet(req.lines)

(* An answer that is not full and not marked as truncated has every        *)
(* matching line of every file that was there all the time and could be    *)
(* read; except that a directory with too many files, and a backend that   *)
(* refuses or that redirects the search, are not told apart.               *)
AnswerHonest ==
  req.pc = "done" /\ ~req.truncated /\ Len(req.lines) < req.limit
    /\ req.excuse \intersect {"cut", "refused", "downgraded"} = {} => Complete

(* Lines match the template, and come from the source that answered.       *)
LinesMatch ==
  \A l \in ToSet(req.lines) :
    l[1] \in Source /\ ("downgraded" \in req.excuse \/ l[2] \in 1..LinesOf[l[1]])

(* A connector is turned to only when the archive has nothing: none of its *)
(* newest objects has a line, as far as they could be read in time.        *)
ArchiveFirst ==
  req.via \in Connectors /\ "late" \notin req.excuse =>
    \A f \in InRange(Archived \intersect req.stable, req.since) \ req.unread :
      LinesOf[f] = 0 \/ Cardinality({g \in InRange(Archived, req.since) : HourOf[g] >= HourOf[f]}) > MaxFiles

(* What a test found in order does not fail the drill-down, unless it      *)
(* takes too long or is redirected too often.                              *)
TestedWorks ==
  req.pc = "error" /\ req.via \in tested => "late" \in req.excuse \/ req.hops = MaxRedirects

(* "an empty archive scan can't mask configured connector data", and what  *)
(* is not told to be truncated is complete.                                *)
DrillDownSound == TypeOK /\ AnswerHonest /\ LinesMatch /\ ArchiveFirst /\ TestedWorks

(* "truncated": an answer that is not full and not marked is complete,     *)
(* whichever the source.                                                   *)
AnswerComplete ==
  req.pc = "done" /\ ~req.truncated /\ Len(req.lines) < req.limit => Complete
=============================================================================
