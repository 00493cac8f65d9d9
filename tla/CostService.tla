----------------------------- MODULE CostService -----------------------------
(***************************************************************************)
(* costwatch from the HTTP request to the status code: handleCosts and     *)
(* handleSummary (internal/api/handlers.go), Query.normalize and the fetch *)
(* loops (internal/costs/service.go, summary.go), composed with the cache  *)
(* of CostCache.  Where CostCache has one step in which fn returns, here   *)
(* fn makes its calls to Cost Explorer one by one, each page a step during *)
(* which other goroutines run, the clock moves and clients leave.          *)
(*                                                                         *)
(* A page is its place in the answer; what the pages add up to is          *)
(* SeriesAggregate's and SummaryTotals's subject.                          *)
(***************************************************************************)
EXTENDS CostCache, Sequences

CONSTANTS
    Questions,      \* what clients ask: Overview, or [granularity, groupBy, days]
    Overview,       \* GET /api/summary
    Malformed,      \* a days parameter that is no integer
    ValidGroupBys,  \* the dimensions of types.go
    AllowedTags,    \* ALLOWED_TAG_KEYS, as "TAG:<key>"
    Pages,          \* pages of every usage answer
    OptedIn,        \* the account has opted in to hourly and resource-level data
    Errors          \* what a call may fail with: why, and what the text speaks of

\* Why a call of Cost Explorer fails: the missing opt-in, the pod's credentials,
\* anything else on the way there and back (throttling, a window it rejects, the
\* network), or the request's context.
Causes == {"optin", "denied", "upstream", "cancelled"}

\* What costwatch looks for in the text of an error: "hourly" in any case,
\* "unsupported", and one of three phrases about credentials.  A text may speak
\* of several of them, or of none, whatever the cause.
Words == {"hourly", "unsupported", "denied"}

ASSUME ServiceAssumption ==
    /\ Pages \in Nat \ {0}
    /\ OptedIn \in BOOLEAN
    /\ Errors \subseteq [cause : Causes, says : SUBSET Words]
    /\ OptedIn \/ \E e \in Errors : e.cause = "optin"
    /\ NoKey \notin Questions

VARIABLES
    ask,      \* the question of each request
    cursor,   \* its fetch: the call it is at and the page token it sends, from
              \* the start again when it has failed
    bought,   \* its fetch: what it has been given so far, in order
    failure,  \* its fetch: the error it returned
    earlier,  \* history: the requests that were answered before this one began
    filler,   \* history: whose fetch filled each cache entry
    source,   \* history: whose fetch a request without a flight answers from
    status    \* the status code written, 0 before

service == <<ask, cursor, bought, failure, earlier, filler, source, status>>
allVars == <<vars, service>>

\* handleCosts: the defaults of absent parameters.
Parsed(q) ==
    [granularity |-> IF q.granularity = "" THEN "DAILY" ELSE q.granularity,
     groupBy |-> IF q.groupBy = "" THEN "SERVICE" ELSE q.groupBy,
     days |-> q.days]

\* What the handler and normalize let through.
Accepted(q) ==
    q # Overview =>
        /\ q.days # Malformed
        /\ Parsed(q).granularity \in {"HOURLY", "DAILY", "MONTHLY"}
        /\ Parsed(q).groupBy \in ValidGroupBys \cup AllowedTags

Clamp(v, min, max) == IF v < min THEN min ELSE IF v > max THEN max ELSE v

\* normalize: an accepted question with its days clamped.
Normal(q) ==
    IF q = Overview THEN q ELSE
    [Parsed(q) EXCEPT !.days =
        CASE Parsed(q).granularity = "HOURLY" -> Clamp(@, 1, 14)
          [] Parsed(q).granularity = "DAILY" ->
                IF Clamp(@, 1, 365) = 1 THEN 30 ELSE Clamp(@, 1, 365)
          [] Parsed(q).granularity = "MONTHLY" -> Clamp(@, 30, 390)]

KeyWithoutGroup(n) ==  \* mutant: groupBy left out of the key
    IF n = Overview THEN <<"summary">>
    ELSE <<"costs", n.granularity, n.days>>

\* The cache key of a normalised question.
Key(n) ==
    IF n = Overview THEN <<"summary">>
    ELSE <<"costs", n.granularity, n.groupBy, n.days>>

\* Keys holds the key of every question.
ASSUME KeysAssumption ==
    \A q \in Questions : Accepted(q) => Key(Normal(q)) \in Keys

\* The usage reports a fetch asks for, each in a page loop of its own; the
\* summary's are followed by the forecast.
UsageCalls(n) == IF n = Overview THEN <<"current", "previous">> ELSE <<"usage">>

NoFailure == [cause |-> "none", says |-> {}]

ServiceInit ==
    /\ Init
    /\ ask = [r \in Requests |-> NoKey]
    /\ cursor = [r \in Requests |-> [call |-> 1, page |-> 1]]
    /\ bought = [r \in Requests |-> << >>]
    /\ failure = [r \in Requests |-> NoFailure]
    /\ earlier = [r \in Requests |-> {}]
    /\ filler = [k \in {} |-> NoRequest]
    /\ source = [r \in Requests |-> r]
    /\ status = [r \in Requests |-> 0]

-----------------------------------------------------------------------------
(* The handler, before the cache.                                          *)

Unasked(r) == ask[r] = NoKey

\* A good question goes to the cache under its key.
Receive(r, q) ==
    /\ Unasked(r)
    /\ Accepted(q)
    /\ Begin(r, Key(Normal(q)))
    /\ ask' = [ask EXCEPT ![r] = q]
    /\ earlier' = [earlier EXCEPT ![r] = {x \in Requests : pc[x] = "done"}]
    /\ UNCHANGED <<cursor, bought, failure, filler, source, status>>

\* A bad one is refused before the cache and before Cost Explorer.
Refuse(r, q) ==
    /\ Unasked(r)
    /\ ~ Accepted(q)
    /\ ask' = [ask EXCEPT ![r] = q]
    /\ status' = [status EXCEPT ![r] = 400]
    /\ UNCHANGED <<vars, cursor, bought, failure, earlier, filler, source>>

-----------------------------------------------------------------------------
(* fn: fetchCosts and fetchSummary, in the middle of cache.do.             *)

Fetching(r) == pc[r] \in {"fetching", "direct"}
Wanted(r) == Normal(ask[r])
InUsage(r) == Fetching(r) /\ cursor[r].call <= Len(UsageCalls(Wanted(r)))

\* Cost Explorer gives hourly and per-resource data only after the opt-in.
NeedsOptIn(n) ==
    n # Overview /\ (n.granularity = "HOURLY" \/ n.groupBy = "RESOURCE_ID")

\* fn returns, to the flight or to a request that bypassed the cache.
FnReturns(r, kind) ==
    \/ FetchReturns(r) /\ outcome'[r].kind = kind
    \/ DirectReturns(r) /\ answer'[r].kind = kind

\* How a call for r may fail: for the opt-in only when it needs one that is not
\* there, for its context only when its client has left.
Faults(r) ==
    {e \in Errors :
        /\ e.cause = "optin" => NeedsOptIn(Wanted(r)) /\ ~ OptedIn
        /\ e.cause = "cancelled" => r \in gone}

MorePagesNever(r) == FALSE  \* mutant: the next token is ignored

\* out.NextPageToken is set.
MorePages(r) == cursor[r].page < Pages

\* GetCostAndUsage answers with one page.  The loop sends the next token, or
\* the summary goes on to its next call, or the fetch of a series is over.
UsagePage(r) ==
    /\ InUsage(r)
    /\ NeedsOptIn(Wanted(r)) => OptedIn
    /\ bought' = [bought EXCEPT ![r] = Append(@,
                    <<UsageCalls(Wanted(r))[cursor[r].call], cursor[r].page>>)]
    /\ \/ /\ MorePages(r)
          /\ cursor' = [cursor EXCEPT ![r].page = @ + 1]
          /\ UNCHANGED vars
       \/ /\ ~ MorePages(r)
          /\ Wanted(r) = Overview
          /\ cursor' = [cursor EXCEPT ![r] = [call |-> @.call + 1, page |-> 1]]
          /\ UNCHANGED vars
       \/ /\ ~ MorePages(r)
          /\ Wanted(r) # Overview
          /\ FnReturns(r, "ok")
          /\ UNCHANGED cursor
    /\ UNCHANGED <<ask, failure, earlier, filler, source, status>>

UsageFailsRetries(r) ==  \* mutant: continue where the loop returns
    /\ InUsage(r)
    /\ Faults(r) # {}
    /\ UNCHANGED allVars

\* GetCostAndUsage fails: fn returns the error and drops what it has read.
UsageFails(r) ==
    /\ InUsage(r)
    /\ \E fault \in Faults(r) :
        /\ failure' = [failure EXCEPT ![r] = fault]
        /\ FnReturns(r, IF fault.cause = "cancelled"
                        THEN "cancelled" ELSE "failed")
    /\ cursor' = [cursor EXCEPT ![r] = [call |-> 1, page |-> 1]]
    /\ bought' = [bought EXCEPT ![r] = << >>]
    /\ UNCHANGED <<ask, earlier, filler, source, status>>

\* GetCostForecast: whatever it answers, an amount, nothing to extrapolate or
\* an error, fetchSummary succeeds.
ForecastAnswers(r) ==
    /\ Fetching(r)
    /\ Wanted(r) = Overview
    /\ ~ InUsage(r)
    /\ \E reply \in {"amount", "nothing"}
                        \cup {"failed" : e \in Faults(r)} :
        bought' = [bought EXCEPT ![r] = Append(@, <<"forecast", reply>>)]
    /\ FnReturns(r, "ok")
    /\ UNCHANGED <<ask, cursor, failure, earlier, filler, source, status>>

-----------------------------------------------------------------------------
(* The cache's own steps, and the handler after it.                        *)

\* A hit answers from the fetch that filled the entry.
HitFrom(r) ==
    /\ Hit(r)
    /\ source' = [source EXCEPT ![r] = filler[key[r]]]
    /\ UNCHANGED <<ask, cursor, bought, failure, earlier, filler, status>>

StoreFrom(r) ==
    /\ StoreOk(r)
    /\ filler' = [k \in DOMAIN entries' |-> IF k = key[r] THEN r ELSE filler[k]]
    /\ UNCHANGED <<ask, cursor, bought, failure, earlier, source, status>>

InCache(r) ==
    /\ \/ Bypass(r) \/ CountHit(r) \/ Join(r) \/ Lead(r) \/ CountMiss(r)
       \/ FetchPanics(r) \/ Close(r) \/ Wake(r) \/ StoreFailed(r)
    /\ UNCHANGED service

\* Whose fetch r's answer came from.
Source(r) == IF call[r] # NoRequest THEN call[r] ELSE source[r]

StatusUnsupportedFirst(r) ==  \* mutant: the first two cases of the switch swapped
    LET says == failure[Source(r)].says IN
    IF answer[r].kind = "ok" THEN 200
    ELSE CASE "unsupported" \in says -> 400
           [] "hourly" \in says /\ "unsupported" \notin says -> 409
           [] says = {"denied"} -> 403
           [] OTHER -> 502

\* 200, or what writeServiceError makes of the error: mapCEError has wrapped
\* those that speak of hourly data, which are looked for first, and the other
\* phrases are looked for in order.
StatusOf(r) ==
    LET says == failure[Source(r)].says IN
    IF answer[r].kind = "ok" THEN 200
    ELSE CASE "hourly" \in says -> 409
           [] "hourly" \notin says /\ "unsupported" \in says -> 400
           [] says = {"denied"} -> 403
           [] OTHER -> 502

\* cache.do has returned: the status and body are written.
Respond(r) ==
    /\ pc[r] = "done"
    /\ status[r] = 0
    /\ status' = [status EXCEPT ![r] = StatusOf(r)]
    /\ UNCHANGED <<vars, ask, cursor, bought, failure, earlier, filler, source>>

Serve(r) ==
    \/ HitFrom(r)
    \/ InCache(r)
    \/ UsagePage(r)
    \/ UsageFails(r)
    \/ ForecastAnswers(r)
    \/ StoreFrom(r)
    \/ Respond(r)

ServiceNext ==
    \/ \E r \in Requests :
        \/ \E q \in Questions : Receive(r, q) \/ Refuse(r, q)
        \/ Serve(r)
        \/ ClientGone(r) /\ UNCHANGED service
    \/ Tick /\ UNCHANGED service

ServiceSpec == ServiceInit /\ [][ServiceNext]_allVars

\* Goroutines run and every upstream call returns; no panic is relied on.
FairServiceSpec ==
    /\ ServiceSpec
    /\ \A r \in Requests : WF_allVars(Serve(r) /\ pc'[r] # "panicked")

-----------------------------------------------------------------------------
(* Properties.                                                             *)

\* Whatever is shared through flights and entries, a dashboard never gets the
\* answer to somebody else's question: the fetch behind a 200 asked for the
\* same granularity, grouping and days, after clamping (service.go:76-79).
AnswersMatchQuestion ==
    \A r \in Requests :
        status[r] = 200 => Wanted(r) = Wanted(Source(r))

\* Every page of every usage call the question needs, once and in order.
PagesOf(report) == [p \in 1 .. Pages |-> <<report, p>>]

WholeAnswer(n) ==
    IF n = Overview THEN PagesOf("current") \o PagesOf("previous")
    ELSE PagesOf("usage")

\* A page that fails after others succeeded spoils the whole answer: nothing
\* partial is returned, joined or cached, under whichever interleaving of the
\* page loop with other requests (service.go:163-174, summary.go:38-45,
\* 114-136).
OnlyWholeAnswers ==
    \A r \in Requests : status[r] = 200 =>
        LET whole == WholeAnswer(Wanted(r))
            got == bought[Source(r)]
        IN  IF Wanted(r) = Overview
            THEN /\ Len(got) = Len(whole) + 1
                 /\ SubSeq(got, 1, Len(whole)) = whole
            ELSE got = whole

\* "TTL cache + singleflight bounds it" (docs/COST.md:78): while the map has
\* room for all keys, two successful fetches of one question lie at least a
\* TTL apart, whoever asked, however slow their pages were.
BoughtOncePerTTL ==
    \A r, q \in Requests :
        /\ r # q /\ call[r] = r /\ call[q] = q
        /\ key[r] = key[q]
        /\ outcome[r].kind = "ok" /\ outcome[q].kind = "ok"
        => outcome[r].asOf - outcome[q].asOf >= TTL
            \/ outcome[q].asOf - outcome[r].asOf >= TTL

\* r was told of an error, its own or that of the flight it joined.
Told(r) == pc[r] # "idle" /\ status[r] \notin {0, 200}

\* An error is never older than the question: once a failed fetch has been
\* reported to anyone, whoever asks after that gets a fetch of its own or of
\* somebody else, not the same error again (cache.go:61-65, 74-81).
FailuresNotKept ==
    \A r \in Requests : Told(r) => Source(r) \notin earlier[r]

\* The status blames whoever is to blame as far as the text of the error lets it,
\* also when the error is another request's (handlers.go:50-70).  What is refused
\* is told 400.  Hourly or resource-level data is never delivered without the
\* opt-in, and the opt-in is only blamed for a question that needs it: with a 409
\* whatever else the text speaks of.  A cancellation is the leader's.  403 is for
\* an error that speaks of credentials alone, and 502 for whatever speaks of
\* nothing costwatch knows.
StatusBlamesRightly ==
    \A r \in Requests :
        LET error == failure[Source(r)] IN
        /\ status[r] # 0 /\ pc[r] = "idle" => status[r] = 400
        /\ status[r] = 200 /\ NeedsOptIn(Wanted(r)) => OptedIn
        /\ Told(r) =>
            /\ error.cause = "optin" =>
                /\ NeedsOptIn(Wanted(r)) /\ ~ OptedIn
                /\ "hourly" \in error.says => status[r] = 409
            /\ error.cause = "cancelled" => Source(r) \in gone
            /\ status[r] = 403 <=> error.says = {"denied"}
            /\ status[r] = 502 <=> error.says = {}

\* Every question is answered, however many calls and pages it takes and
\* whatever fails; only a panic can prevent it.
EveryQuestionAnswered ==
    \A r \in Requests :
        ask[r] # NoKey ~> (status[r] # 0 \/ pc[r] = "panicked" \/ Wedged(r))
=============================================================================
