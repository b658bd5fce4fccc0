----------------------------- MODULE MCServices -----------------------------
(***************************************************************************)
(* The services and clients that share no state with each other, for TLC.  *)
(* A run takes the steps of one of them, chosen at the start, and leaves   *)
(* the others in one of their initial states: there are as many states as  *)
(* the parts have together.                                                *)
(***************************************************************************)
EXTENDS Sessions, Verification, Changes, Readiness, AccountStream, OutboxPublisher,
        PendingCommands, Pages, Notices, MarketStreams, Charts, AdminKeys, Community,
        PaperTrading, SampledPrices, TLC

CONSTANTS o1, o2, o3, w1, w2, x1

VARIABLE part   \* which one the run is about

Parts == {"SESSIONS", "VERIFICATION", "CHANGES", "READINESS", "STREAM", "OUTBOX",
          "PENDING", "PAGES", "NOTICES", "MARKET", "CHARTS", "KEYS",
          "COMMUNITY", "PAPER", "SAMPLES"}

allVars == <<part, sessionVars, verificationVars, changesVars, readinessVars, streamVars,
             vars, pendingVars, pagesVars, noticesVars, marketVars,
             chartVars, keyVars, communityVars, paperVars, sampledVars>>

(* Of each kind of change there are somebody to request it and somebody    *)
(* else to review it; what o2 may request can be taken from him.           *)
MCFirstHolds == (o1 :> {"REVIEW", "USER_CONTROLS", "ADMIN_ROLE"})
                  @@ (o2 :> {"REVIEW", "USER_CONTROLS", "PAYMENT_METHOD"})
                  @@ (o3 :> {"PAYMENT_METHOD", "ADMIN_ROLE"})

(* Of the signers o1 signs and submits, and o2 reviews what o1 submitted.  *)
OneOfThemSigns == authority[o2] = {} /\ \A f \in Files : file[f].owner # o2

AllInit ==
  /\ part \in Parts
  /\ SessionInit /\ (part # "SESSIONS" => customer.gmail)
  /\ VerificationInit /\ (part # "VERIFICATION" => security.emailEnabled)
  /\ ChangesInit /\ (\A t \in Records : setting[t] = 0)
  /\ ReadinessInit /\ OneOfThemSigns /\ (part # "READINESS" => authority[o1] = Gates)
  /\ StreamInit /\ (part # "STREAM" => latest = 0)
  /\ Init
  /\ PendingInit /\ (part # "PENDING" => client = FUNDING)
  /\ PagesInit /\ (part # "PAGES" => page = "CONSOLE" /\ view = "A")
  /\ NoticesInit /\ (part # "NOTICES" => happened = 0)
  /\ MarketInit
  /\ ChartInit /\ (part # "CHARTS" => \A b \in Backends : cache[b] = Uncached)
  /\ AdminKeysInit /\ (part # "KEYS" => Registered = {})
  /\ CommunityInit
  /\ PaperInit /\ (part # "PAPER" => \A w \in TradeWindows : selected[w] = x1)
  /\ SampledInit

AllNext ==
  /\ \/ part = "SESSIONS" /\ SessionNext
     \/ part = "VERIFICATION" /\ VerificationNext
     \/ part = "CHANGES" /\ ChangesNext
     \/ part = "READINESS" /\ ReadinessNext /\ OneOfThemSigns'
     \/ part = "STREAM" /\ StreamNext
     \/ part = "OUTBOX" /\ Next
     \/ part = "PENDING" /\ PendingNext
     \/ part = "PAGES" /\ PagesNext
     \/ part = "NOTICES" /\ NoticesNext
     \/ part = "MARKET" /\ MarketNext
     \/ part = "CHARTS" /\ ChartNext
     \/ part = "KEYS" /\ AdminKeysNext
     \/ part = "COMMUNITY" /\ CommunityNext
     \/ part = "PAPER" /\ PaperNext
     \/ part = "SAMPLES" /\ SampledNext
  /\ UNCHANGED part
  /\ IF part = "SESSIONS" THEN TRUE ELSE UNCHANGED sessionVars
  /\ IF part = "VERIFICATION" THEN TRUE ELSE UNCHANGED verificationVars
  /\ IF part = "CHANGES" THEN TRUE ELSE UNCHANGED changesVars
  /\ IF part = "READINESS" THEN TRUE ELSE UNCHANGED readinessVars
  /\ IF part = "STREAM" THEN TRUE ELSE UNCHANGED streamVars
  /\ IF part = "OUTBOX" THEN TRUE ELSE UNCHANGED vars
  /\ IF part = "PENDING" THEN TRUE ELSE UNCHANGED pendingVars
  /\ IF part = "PAGES" THEN TRUE ELSE UNCHANGED pagesVars
  /\ IF part = "NOTICES" THEN TRUE ELSE UNCHANGED noticesVars
  /\ IF part = "MARKET" THEN TRUE ELSE UNCHANGED marketVars
  /\ IF part = "CHARTS" THEN TRUE ELSE UNCHANGED chartVars
  /\ IF part = "KEYS" THEN TRUE ELSE UNCHANGED keyVars
  /\ IF part = "COMMUNITY" THEN TRUE ELSE UNCHANGED communityVars
  /\ IF part = "PAPER" THEN TRUE ELSE UNCHANGED paperVars
  /\ IF part = "SAMPLES" THEN TRUE ELSE UNCHANGED sampledVars

(* Fairness of one part asks nothing of the others: what StreamFairness and*)
(* PublisherFairness are about is not enabled in the initial states, and   *)
(* PagesFairness and ChartFairness are asked of their own parts.           *)
PartFairness ==
  /\ StreamFairness /\ PublisherFairness
  /\ WF_pagesVars(part = "PAGES" /\ Debounced)
  /\ WF_pagesVars(part = "PAGES" /\ RefreshRequests)
  /\ WF_pagesVars(part = "PAGES" /\ TimedLoad)
  /\ \A s \in Slots : WF_pagesVars(part = "PAGES" /\ (Answered(s) \/ Arrive(s)))
  /\ WF_chartVars(part = "CHARTS" /\ EventArrives)
  /\ \A b \in Backends :
       /\ WF_chartVars(part = "CHARTS" /\ Expires(b))
       /\ WF_chartVars(part = "CHARTS" /\ (ProviderReads(b) \/ ProviderAnswers(b)))
  /\ \A f \in Fetches : WF_chartVars(part = "CHARTS" /\ (Poll(f) \/ FetchArrives(f)))

AllSpec == AllInit /\ [][AllNext]_allVars /\ PartFairness

-----------------------------------------------------------------------------
(* Pages' ShowsTheLatest: once operators stop, a page comes to show the    *)
(* view chosen as the server has it, however slow answers overtake others. *)
PagesShowTheLatest == part = "PAGES" => ShowsTheLatest

(* Charts' ChartCatchesUp: when the price rests, the chart comes to show   *)
(* it, whatever the cache, the provider and the stream told it last.       *)
ChartsCatchUp == part = "CHARTS" => ChartCatchesUp
=============================================================================
