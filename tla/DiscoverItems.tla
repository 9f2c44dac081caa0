---------------------------- MODULE DiscoverItems ----------------------------
(***************************************************************************)
(* What DiscoverHttpClient and the adapters make of an answer of an        *)
(* upstream service: whether it can be used, may be asked for again, and   *)
(* whether the page in it is accepted.                                     *)
(*                                                                         *)
(* A reply is its status and whether its body is JSON of a bounded length. *)
(* A page is the count it promises, whether what wraps its items is as the *)
(* adapter expects, and its raw items: an id and the set of what is wrong. *)
(***************************************************************************)
EXTENDS Integers, Sequences, FiniteSets

\* fetchOnce, for a reply that comes in time.
Outcome(reply, rateLimitStatusCodes) ==
    CASE reply.status \in rateLimitStatusCodes -> "RATE_LIMITED"
      [] reply.status \in {408, 425} \cup 500 .. 599 -> "UPSTREAM"
      [] reply.status \in 200 .. 299 /\ reply.usable -> "OK"
      [] OTHER -> "INVALID_RESPONSE"

\* isRetryable; without a reply in time there is a timeout or a network error.
Retryable(outcome) == outcome \in {"TIMEOUT", "NETWORK", "RATE_LIMITED", "UPSTREAM"}
-----------------------------------------------------------------------------
(* What an adapter refuses a raw item for.                                 *)

Defects == {"lost",      \* the request of a Hacker News item failed
            "id", "title", "link", "date",
            "type",      \* a pull request, a closed issue, no article
            "taken",     \* somebody is assigned
            "label", "scope", "category", "bounty"}

ParseQuestion(requireBounty) ==
    {"id", "title", "link", "date"} \cup (IF requireBounty THEN {"bounty"} ELSE {})

ParseIssue == {"type", "taken", "id", "title", "link", "date", "label", "scope"}

ParseJob == {"id", "category", "title", "link", "date"}

ParseArticle == {"type", "id", "title", "link", "date"}

Having(page, defects) == {k \in DOMAIN page.items : page.items[k].bad \cap defects # {}}

\* The items that a page gives, each once.
Parsed(page, defects) == {page.items[k].id : k \in DOMAIN page.items \ Having(page, defects)}

MostlyValid(page, defects) ==
    LET invalid == Cardinality(Having(page, defects)) IN
    Parsed(page, defects) # {} /\ ~(invalid >= 3 /\ 4 * invalid > Len(page.items))

QuestionsAccepted(page, requireBounty) ==
    page.items # <<>> => MostlyValid(page, ParseQuestion(requireBounty))

\* total_count may promise issues on a page that has none.
IssuesAccepted(page) == page.total > 0 => MostlyValid(page, ParseIssue)

JobsAccepted(page) == page.items # <<>> => MostlyValid(page, ParseJob)

ArticlesAccepted(page) == page.items # <<>> => MostlyValid(page, ParseArticle)

FeedsAccepted(page) == Having(page, {"id"}) = {}

\* Of the items of the feeds at most a quarter may be lost; the others are left
\* out when they are not wanted.
ItemsAccepted(page) == 4 * Cardinality(Having(page, {"lost"})) <= Len(page.items)

Accepted(method, page) ==
    /\ page.wrapped
    /\ CASE method = "featured" -> QuestionsAccepted(page, TRUE)
         [] method = "unanswered" -> QuestionsAccepted(page, FALSE)
         [] method = "search" -> IssuesAccepted(page)
         [] method = "feeds" -> FeedsAccepted(page)
         [] method = "items" -> ItemsAccepted(page)
         [] method = "jobs" -> JobsAccepted(page)
         [] method = "articles" -> ArticlesAccepted(page)
=============================================================================
