--------------------------- MODULE BillingSession ---------------------------
(***************************************************************************)
(* The billing of relay requests: service/billing_session.go (the session  *)
(* of one request), service/funding_source.go (wallet, subscription and    *)
(* split funding) and the rows they update (users.quota,                   *)
(* tokens.remain_quota, user_subscriptions.amount_used and the             *)
(* subscription pre-consume records), driven by the attempt loop of        *)
(* controller/relay.go.                                                    *)
(*                                                                         *)
(* All requests belong to one user, use one token and draw on one          *)
(* subscription, so they compete for the same three rows.  A step of a     *)
(* request is one access to the store together with the session-local      *)
(* computation around it; the mutex of a session orders the operations of  *)
(* one request only, so the steps of different requests interleave freely. *)
(***************************************************************************)
EXTENDS Integers, FiniteSetsExt

CONSTANTS
  Requests,        \* the requests of one user
  Quotas,          \* quota amounts a request may estimate, reserve or use
  Preferences,     \* billing preferences a request may carry
  InitWallet,      \* users.quota at the start
  InitToken,       \* tokens.remain_quota at the start
  SubTotal,        \* user_subscriptions.amount_total, 0 = unlimited
  TrustQuota,      \* common.GetTrustQuota()
  TokenUnlimited,  \* token.unlimited_quota
  MaxAttempts,     \* bound on the relay attempts of a request
  MaxPeriods,       \* bound on the quota periods of the subscription that end
  Faults           \* what may go wrong: "db" a store access fails, "mark" a
                   \* refund is applied but not recorded, "crash"

AllPreferences ==
  {"wallet_only", "wallet_first", "subscription_only", "subscription_first"}

ASSUME BillingAssumption ==
  /\ IsFiniteSet(Requests)
  /\ Quotas \subseteq Nat
  /\ Preferences \subseteq AllPreferences
  /\ InitWallet \in Nat
  /\ InitToken \in Nat
  /\ SubTotal \in Nat
  /\ TrustQuota \in Nat
  /\ TokenUnlimited \in BOOLEAN
  /\ MaxAttempts \in Nat
  /\ MaxPeriods \in Nat
  /\ Faults \subseteq {"db", "mark", "crash"}

VARIABLES
  wallet,     \* users.quota
  token,      \* tokens.remain_quota
  subUsed,    \* user_subscriptions.amount_used
  subStatus,  \* "active", or "expired" (ended or invalidated)
  lastReset,  \* the quota period amount_used belongs to
  period,     \* the current quota period: next_reset_time passed so often
  preRecord,  \* the pre-consume record of each request id
  req,        \* what a request carries: RelayInfo
  funding,        \* the FundingSource of the session
  phase,          \* the flags fundingSettled, settled and refunded
  trusted,        \* the trust bypass applies
  preConsumed,    \* BillingSession.preConsumedQuota
  tokenConsumed,  \* BillingSession.tokenConsumed
  extraReserved,  \* BillingSession.extraReserved
  walletConsumed, \* WalletFunding.consumed
  subPre,         \* SubscriptionFunding.preConsumed
  subPost,        \* SplitFunding.subPostDelta
  op,         \* the operation that adjusts the funding: reserve, undo, settle
  amount,     \* the amount of the operation in progress
  rest,       \* the part of amount a split funding has still to adjust
  err,        \* the error the operation in progress will return
  actual,     \* the quota last passed to Settle
  tries,      \* attempts of refundWithRetry so far
  attempt,    \* relay attempts so far
  pc,         \* where the request is
  paidW,      \* ghost: net amount each request took from the wallet
  paidS,      \* ghost: net amount each request took from the subscription
  paidT,      \* ghost: net amount each request took from the token
  faulty      \* ghost: a store operation of the request failed

storeVars == <<wallet, token, subUsed, subStatus, lastReset, period, preRecord>>
localVars == <<req, op, amount, rest, err, actual, tries, attempt>>
ghostVars == <<paidW, paidS, paidT, faulty>>
sessVars == <<funding, phase, trusted, preConsumed, tokenConsumed,
              extraReserved, walletConsumed, subPre, subPost>>
vars == <<storeVars, localVars, ghostVars, sessVars, pc>>

-----------------------------------------------------------------------------
(* Types *)

Fundings == {"none", "wallet", "subscription", "split"}

(* "tokenFree" is IsPlayground or IsChannelTest, "force" is              *)
(* ForcePreConsume.                                                        *)
Flags == {"tokenFree", "force"}

Request == [pref      : AllPreferences,
            flags     : SUBSET Flags,
            estimate  : Nat,      \* QuotaToPreConsume
            tokenSeen : Int]      \* "token_quota", read when authenticating

(* The flags of a session exclude each other, but for fundingSettled which *)
(* Settle sets on the way to settled.                                      *)
Phases == {"open", "fundingSettled", "settled", "refunded"}

(* Where a request is.  The first line is NewBillingSession, the second    *)
(* the refund of a subscription pre-consume (used by a failing pre-consume *)
(* and by Refund), the third the attempt loop with Reserve, the fourth     *)
(* FundingSource.Settle with the token part of Settle, the fifth the       *)
(* goroutine of Refund.                                                    *)
Labels ==
  {"idle", "hasSub", "walletCheck", "tokenCheck", "tokenDec", "fund", "splitCheck", "splitDec"}
  \cup {"subRefund", "subRefundMark", "tokRollback"}
  \cup {"attempt", "resTokenCheck", "resTokenDec", "upstream", "answered", "attemptFailed", "giveUp"}
  \cup {"adjust", "adjustWallet", "adjustSubUndo", "adjustSub", "setToken"}
  \cup {"rfExtra", "rfWallet", "rfToken"}
  \cup {"done", "failed", "crashed"}

Terminal == {"done", "failed", "crashed"}

NewSession(r, f) ==
  /\ funding' = [funding EXCEPT ![r] = f]
  /\ phase' = [phase EXCEPT ![r] = "open"]
  /\ trusted' = trusted \ {r}
  /\ preConsumed' = [preConsumed EXCEPT ![r] = 0]
  /\ tokenConsumed' = [tokenConsumed EXCEPT ![r] = 0]
  /\ extraReserved' = [extraReserved EXCEPT ![r] = 0]
  /\ walletConsumed' = [walletConsumed EXCEPT ![r] = 0]
  /\ subPre' = [subPre EXCEPT ![r] = 0]
  /\ subPost' = [subPost EXCEPT ![r] = 0]

Min2(a, b) == IF a < b THEN a ELSE b
Max2(a, b) == IF a > b THEN a ELSE b

-----------------------------------------------------------------------------
(* The store.  A negative amount is an increase. *)

DecreaseUserQuota(r, d) ==
  /\ wallet' = wallet - d
  /\ paidW' = [paidW EXCEPT ![r] = @ + d]

DecreaseTokenQuota(r, d) ==
  /\ token' = token - d
  /\ paidT' = [paidT EXCEPT ![r] = @ + d]

(* What is left of the subscription towards an amount d, given its usage. *)
Available(used, d) ==
  IF SubTotal = 0 THEN d ELSE Min2(d, Max2(0, SubTotal - used))

UsageAlwaysReset == 0  \* mutant: resets whether or not a period has ended

(* A pre-consume first resets a subscription whose period has ended. *)
UsageAfterReset == IF lastReset < period THEN 0 ELSE subUsed

(* The transaction of PreConsumeUserSubscription and of its Partial form:  *)
(* reset if due, insert the record of the request, add to the usage.       *)
PreConsumeUserSubscription(r, d) ==
  /\ subUsed' = UsageAfterReset + d
  /\ lastReset' = period
  /\ preRecord' = [preRecord EXCEPT ![r] = "consumed"]
  /\ paidS' = [paidS EXCEPT ![r] = @ + d]

(* PostConsumeUserSubscriptionDelta is refused when it would exceed the    *)
(* total, and clamps the usage at zero.                                    *)
DeltaFits(d) == SubTotal = 0 \/ Max2(0, subUsed + d) <= SubTotal

(* mutant: the usage is not clamped *)
PostConsumeUnclamped(r, d) ==
  /\ DeltaFits(d)
  /\ subUsed' = subUsed + d
  /\ paidS' = [paidS EXCEPT ![r] = @ + d]

PostConsumeUserSubscriptionDelta(r, d) ==
  /\ DeltaFits(d)
  /\ subUsed' = Max2(0, subUsed + d)
  /\ paidS' = [paidS EXCEPT ![r] = @ + d]

(* A store access of r returns an error and has no effect. *)
StoreFails(r) ==
  /\ "db" \in Faults
  /\ faulty' = faulty \cup {r}
  /\ UNCHANGED <<storeVars, paidW, paidS, paidT>>

NoAccess == UNCHANGED <<storeVars, ghostVars>>
OnlyWallet == UNCHANGED <<token, subUsed, subStatus, lastReset, period, preRecord, paidS, paidT, faulty>>
OnlyToken == UNCHANGED <<wallet, subUsed, subStatus, lastReset, period, preRecord, paidS, paidW, faulty>>
OnlyUsage == UNCHANGED <<wallet, token, subStatus, lastReset, period, preRecord, paidW, paidT, faulty>>
OnlySubscription == UNCHANGED <<wallet, token, subStatus, period, paidW, paidT, faulty>>

-----------------------------------------------------------------------------
(* Control *)

Goto(r, l) == pc' = [pc EXCEPT ![r] = l]

(* The error that preConsume returns after undoing its steps. *)
FailWith(r, e) == err' = [err EXCEPT ![r] = e]

TokenFree(r) == "tokenFree" \in req[r].flags

(* No session: relayInfo.Billing stays nil and the request is refused. *)
Refuse(r) ==
  /\ NewSession(r, "none")
  /\ Goto(r, "failed")
  /\ UNCHANGED amount

TryWallet(r) ==
  /\ NewSession(r, "wallet")
  /\ Goto(r, "walletCheck")
  /\ UNCHANGED amount

(* trySubscription and trySubscriptionFirst ask for at least 1. *)
TrySubscription(r, f, estimate) ==
  /\ NewSession(r, f)
  /\ amount' = [amount EXCEPT ![r] = Max2(estimate, 1)]
  /\ Goto(r, "tokenCheck")

(* An insufficient-quota error of the first funding falls back to the      *)
(* other one, once, for the two *_first preferences.                       *)
Fallback(r) ==
  IF req[r].pref = "wallet_first" /\ funding[r] = "wallet"
    THEN TrySubscription(r, "subscription", req[r].estimate)
  ELSE IF req[r].pref = "subscription_first" /\ funding[r] = "split"
    THEN TryWallet(r)
  ELSE Refuse(r)

(* shouldTrust, for the wallet: a subscription is never trusted. *)
ShouldTrust(r) ==
  /\ "force" \notin req[r].flags
  /\ TrustQuota > 0
  /\ TokenUnlimited \/ req[r].tokenSeen > TrustQuota
  /\ wallet > TrustQuota

(* mutant: refunds what was already settled *)
NeedsRefundSettled(r) ==
  \/ tokenConsumed[r] > 0
  \/ funding[r] # "wallet" /\ (subPre[r] > 0 \/ walletConsumed[r] > 0)

(* needsRefundLocked *)
NeedsRefund(r) ==
  /\ phase[r] = "open"
  /\ \/ tokenConsumed[r] > 0
     \/ funding[r] = "subscription" /\ subPre[r] > 0
     \/ funding[r] = "split" /\ (subPre[r] > 0 \/ walletConsumed[r] > 0)

-----------------------------------------------------------------------------
(* NewBillingSession and preConsume *)

Start(r) ==
  /\ pc[r] = "idle"
  /\ \E p \in Preferences, q \in Quotas,
        flags \in SUBSET (IF TrustQuota > 0 THEN Flags ELSE {"tokenFree"}) :
       /\ req' = [req EXCEPT ![r] = [pref |-> p, flags |-> flags,
                                     estimate |-> q, tokenSeen |-> token]]
       /\ \/ p = "subscription_only" /\ TrySubscription(r, "subscription", q)
          \/ p = "subscription_first" /\ Goto(r, "hasSub") /\ UNCHANGED <<sessVars, amount>>
          \/ p \in {"wallet_only", "wallet_first"} /\ TryWallet(r)
  /\ NoAccess
  /\ UNCHANGED <<op, rest, err, actual, tries, attempt>>

HasActiveUserSubscription(r) ==
  /\ pc[r] = "hasSub"
  /\ \/ subStatus = "active" /\ TrySubscription(r, "split", req[r].estimate) /\ NoAccess
     \/ subStatus # "active" /\ TryWallet(r) /\ NoAccess
     \/ StoreFails(r) /\ Refuse(r)
  /\ UNCHANGED <<req, op, rest, err, actual, tries, attempt>>

WalletPositive(r) == wallet > 0  \* mutant: the estimate is not compared

WalletEnough(r) == wallet > 0 /\ wallet >= req[r].estimate

WalletCheck(r) ==
  /\ pc[r] = "walletCheck"
  /\ \/ /\ ~WalletEnough(r)
        /\ Fallback(r)
        /\ NoAccess
     \/ /\ WalletEnough(r)
        /\ LET effective == IF ShouldTrust(r) THEN 0 ELSE req[r].estimate
           IN  /\ trusted' = IF ShouldTrust(r) THEN trusted \cup {r} ELSE trusted \ {r}
               /\ amount' = [amount EXCEPT ![r] = effective]
               /\ Goto(r, IF effective > 0 THEN "tokenCheck" ELSE "attempt")
        /\ NoAccess
        /\ UNCHANGED <<funding, phase, preConsumed, tokenConsumed, extraReserved,
                       walletConsumed, subPre, subPost>>
     \/ StoreFails(r) /\ Refuse(r)
  /\ UNCHANGED <<req, op, rest, err, actual, tries, attempt>>

(* PreConsumeTokenQuota reads the remaining quota and then decreases it. *)
TokenEnough(d) == TokenUnlimited \/ token >= d

TokenCheck(r) ==
  /\ pc[r] = "tokenCheck"
  /\ \/ TokenFree(r) /\ Goto(r, "fund") /\ NoAccess /\ UNCHANGED <<sessVars, amount>>
     \/ /\ ~TokenFree(r) /\ TokenEnough(amount[r])
        /\ Goto(r, "tokenDec") /\ NoAccess /\ UNCHANGED <<sessVars, amount>>
     \/ ~TokenFree(r) /\ ~TokenEnough(amount[r]) /\ Refuse(r) /\ NoAccess
     \/ ~TokenFree(r) /\ StoreFails(r) /\ Refuse(r)
  /\ UNCHANGED <<req, op, rest, err, actual, tries, attempt>>

TokenDec(r) ==
  /\ pc[r] = "tokenDec"
  /\ \/ /\ DecreaseTokenQuota(r, amount[r]) /\ OnlyToken
        /\ tokenConsumed' = [tokenConsumed EXCEPT ![r] = amount[r]]
        /\ Goto(r, "fund")
        /\ UNCHANGED <<amount, funding, phase, trusted, preConsumed, extraReserved,
                       walletConsumed, subPre, subPost>>
     \/ StoreFails(r) /\ Refuse(r)
  /\ UNCHANGED <<req, op, rest, err, actual, tries, attempt>>

FundWallet(r) ==
  /\ pc[r] = "fund" /\ funding[r] = "wallet"
  /\ \/ /\ DecreaseUserQuota(r, amount[r]) /\ OnlyWallet
        /\ walletConsumed' = [walletConsumed EXCEPT ![r] = amount[r]]
        /\ preConsumed' = [preConsumed EXCEPT ![r] = amount[r]]
        /\ Goto(r, "attempt")
        /\ UNCHANGED <<err, funding, phase, trusted, tokenConsumed, extraReserved, subPre, subPost>>
     \/ StoreFails(r) /\ FailWith(r, "other") /\ Goto(r, "tokRollback") /\ UNCHANGED sessVars
  /\ UNCHANGED <<req, op, amount, rest, actual, tries, attempt>>

(* What a failed access of PreConsumeUserSubscription is to preConsume: the *)
(* one that lists the subscriptions reads as "no active subscription",      *)
(* which is an insufficient quota and may fall back to the wallet.          *)
FundErrors == {"insufficient", "other"}

FundSubscription(r) ==
  /\ pc[r] = "fund" /\ funding[r] = "subscription"
  /\ \/ /\ subStatus = "active" /\ amount[r] > 0
        /\ Available(UsageAfterReset, amount[r]) = amount[r]
        /\ PreConsumeUserSubscription(r, amount[r]) /\ OnlySubscription
        /\ subPre' = [subPre EXCEPT ![r] = amount[r]]
        /\ preConsumed' = [preConsumed EXCEPT ![r] = amount[r]]
        /\ Goto(r, "attempt")
        /\ UNCHANGED <<err, funding, phase, trusted, tokenConsumed, extraReserved, walletConsumed, subPost>>
     \/ /\ subStatus # "active" \/ Available(UsageAfterReset, amount[r]) < amount[r]
        /\ FailWith(r, "insufficient") /\ Goto(r, "tokRollback")
        /\ NoAccess /\ UNCHANGED sessVars
     \/ /\ StoreFails(r) /\ \E e \in FundErrors : FailWith(r, e)
        /\ Goto(r, "tokRollback") /\ UNCHANGED sessVars
  /\ UNCHANGED <<req, op, amount, rest, actual, tries, attempt>>

(* SplitFunding.PreConsume takes what the subscription has, then checks    *)
(* and decreases the wallet for the remainder, and refunds the             *)
(* subscription when the wallet cannot pay it.                             *)
FundSplit(r) ==
  /\ pc[r] = "fund" /\ funding[r] = "split"
  /\ LET part == Available(UsageAfterReset, amount[r])
     IN  \/ /\ subStatus = "active" /\ part > 0
            /\ PreConsumeUserSubscription(r, part) /\ OnlySubscription
            /\ rest' = [rest EXCEPT ![r] = amount[r] - part]
            /\ subPre' = [subPre EXCEPT ![r] = part]
            /\ preConsumed' = [preConsumed EXCEPT ![r] = IF part = amount[r] THEN part ELSE 0]
            /\ Goto(r, IF part = amount[r] THEN "attempt" ELSE "splitCheck")
            /\ UNCHANGED <<err, funding, phase, trusted, tokenConsumed, extraReserved, walletConsumed, subPost>>
         \/ /\ subStatus # "active" \/ part = 0
            /\ FailWith(r, "insufficient") /\ Goto(r, "tokRollback")
            /\ NoAccess /\ UNCHANGED <<sessVars, rest>>
         \/ /\ StoreFails(r) /\ \E e \in FundErrors : FailWith(r, e)
            /\ Goto(r, "tokRollback") /\ UNCHANGED <<sessVars, rest>>
  /\ UNCHANGED <<req, op, amount, actual, tries, attempt>>

SplitCheck(r) ==
  /\ pc[r] = "splitCheck"
  /\ \/ wallet >= rest[r] /\ Goto(r, "splitDec") /\ NoAccess /\ UNCHANGED err
     \/ /\ wallet < rest[r]
        /\ FailWith(r, "insufficient") /\ Goto(r, "subRefund") /\ NoAccess
     \/ StoreFails(r) /\ FailWith(r, "other") /\ Goto(r, "subRefund")
  /\ UNCHANGED <<req, op, amount, rest, actual, tries, attempt, sessVars>>

SplitDec(r) ==
  /\ pc[r] = "splitDec"
  /\ \/ /\ DecreaseUserQuota(r, rest[r]) /\ OnlyWallet
        /\ walletConsumed' = [walletConsumed EXCEPT ![r] = rest[r]]
        /\ preConsumed' = [preConsumed EXCEPT ![r] = amount[r]]
        /\ Goto(r, "attempt")
        /\ UNCHANGED <<err, funding, phase, trusted, tokenConsumed, extraReserved, subPre, subPost>>
     \/ StoreFails(r) /\ FailWith(r, "other") /\ Goto(r, "subRefund") /\ UNCHANGED sessVars
  /\ UNCHANGED <<req, op, amount, rest, actual, tries, attempt>>

(* SubscriptionFunding.Refund: RefundSubscriptionPreConsume applies the    *)
(* refund in a transaction of its own and then marks the record in the     *)
(* surrounding one; refundWithRetry tries three times.                     *)
MaxTries == 3

AfterSubRefund(r) == IF phase[r] = "refunded" THEN "rfExtra" ELSE "tokRollback"

(* mutant: the attempts are counted but never run out *)
RetryForever(r) ==
  /\ tries' = [tries EXCEPT ![r] = (@ + 1) % MaxTries]
  /\ Goto(r, "subRefund")

RetryOrGiveUp(r) ==
  /\ tries' = [tries EXCEPT ![r] = @ + 1]
  /\ Goto(r, IF tries[r] + 1 < MaxTries THEN "subRefund" ELSE AfterSubRefund(r))

SubRefund(r) ==
  /\ pc[r] = "subRefund" /\ preRecord[r] = "consumed"
  /\ \/ /\ PostConsumeUserSubscriptionDelta(r, - subPre[r]) /\ OnlyUsage
        /\ Goto(r, "subRefundMark")
        /\ UNCHANGED tries
     \/ StoreFails(r) /\ RetryOrGiveUp(r)
  /\ UNCHANGED <<req, op, amount, rest, err, actual, attempt, sessVars>>

SubRefundMark(r) ==
  /\ pc[r] = "subRefundMark"
  /\ \/ /\ preRecord' = [preRecord EXCEPT ![r] = "refunded"]
        /\ Goto(r, AfterSubRefund(r))
        /\ UNCHANGED <<tries, wallet, token, subUsed, subStatus, lastReset, period, ghostVars>>
     \/ /\ "mark" \in Faults
        /\ faulty' = faulty \cup {r}
        /\ RetryOrGiveUp(r)
        /\ UNCHANGED <<storeVars, paidW, paidS, paidT>>
  /\ UNCHANGED <<req, op, amount, rest, err, actual, attempt, sessVars>>

(* mutant: the token quota is not given back *)
TokRollbackSkipped(r) ==
  /\ pc[r] = "tokRollback"
  /\ NoAccess
  /\ IF err[r] = "insufficient" THEN Fallback(r) ELSE Refuse(r)
  /\ UNCHANGED <<req, op, rest, err, actual, tries, attempt>>

TokRollback(r) ==
  /\ pc[r] = "tokRollback"
  /\ \/ tokenConsumed[r] <= 0 /\ NoAccess
     \/ /\ tokenConsumed[r] > 0
        /\ DecreaseTokenQuota(r, - tokenConsumed[r]) /\ OnlyToken
     \/ tokenConsumed[r] > 0 /\ StoreFails(r)
  /\ IF err[r] = "insufficient" THEN Fallback(r) ELSE Refuse(r)
  /\ UNCHANGED <<req, op, rest, err, actual, tries, attempt>>

-----------------------------------------------------------------------------
(* FundingSource.Settle, reserveFunding and rollbackFundingReserve adjust  *)
(* the funding by a signed amount on behalf of an operation.               *)

AdjustOk(r) ==
  /\ phase' = [phase EXCEPT ![r] = IF op[r] = "settle" THEN "fundingSettled" ELSE @]
  /\ Goto(r, IF op[r] = "reserve" THEN "resTokenCheck"
             ELSE IF op[r] = "settle" THEN "setToken" ELSE "giveUp")

(* A Settle that fails is only logged; a Reserve that fails ends the       *)
(* request with an error.                                                  *)
AdjustError(r) ==
  Goto(r, IF op[r] = "settle" THEN "answered" ELSE "giveUp")

AdjustWalletFunding(r) ==
  /\ pc[r] = "adjust" /\ funding[r] = "wallet"
  /\ \/ /\ DecreaseUserQuota(r, amount[r]) /\ OnlyWallet
        /\ walletConsumed' = [walletConsumed EXCEPT ![r] = Max2(0, @ + amount[r])]
        /\ AdjustOk(r)
        /\ UNCHANGED <<funding, trusted, preConsumed, tokenConsumed, extraReserved, subPre, subPost>>
     \/ StoreFails(r) /\ AdjustError(r) /\ UNCHANGED sessVars
  /\ UNCHANGED localVars

AdjustSubscriptionFunding(r) ==
  /\ pc[r] = "adjust" /\ funding[r] = "subscription"
  /\ \/ /\ PostConsumeUserSubscriptionDelta(r, amount[r]) /\ OnlyUsage
        /\ AdjustOk(r)
        /\ UNCHANGED <<funding, trusted, preConsumed, tokenConsumed, extraReserved,
                       walletConsumed, subPre, subPost>>
     \/ ~DeltaFits(amount[r]) /\ AdjustError(r) /\ NoAccess /\ UNCHANGED sessVars
     \/ StoreFails(r) /\ AdjustError(r) /\ UNCHANGED sessVars
  /\ UNCHANGED localVars

(* SplitFunding.Settle, more: what the subscription has, then the wallet. *)
AdjustSplitMore(r) ==
  /\ pc[r] = "adjust" /\ funding[r] = "split" /\ amount[r] > 0
  /\ \/ LET part == Available(subUsed, amount[r])
        IN  /\ subUsed' = subUsed + part
            /\ paidS' = [paidS EXCEPT ![r] = @ + part]
            /\ OnlyUsage
            /\ rest' = [rest EXCEPT ![r] = amount[r] - part]
            /\ subPost' = [subPost EXCEPT ![r] = @ + part]
            /\ IF part = amount[r] THEN AdjustOk(r) ELSE Goto(r, "adjustWallet") /\ UNCHANGED phase
            /\ UNCHANGED <<funding, trusted, preConsumed, tokenConsumed, extraReserved, walletConsumed, subPre>>
     \/ StoreFails(r) /\ AdjustError(r) /\ UNCHANGED <<sessVars, rest>>
  /\ UNCHANGED <<req, op, amount, err, actual, tries, attempt>>

AdjustWallet(r) ==
  /\ pc[r] = "adjustWallet"
  /\ \/ /\ DecreaseUserQuota(r, rest[r]) /\ OnlyWallet
        /\ walletConsumed' = [walletConsumed EXCEPT ![r] = @ + rest[r]]
        /\ AdjustOk(r)
        /\ UNCHANGED <<funding, trusted, preConsumed, tokenConsumed, extraReserved, subPre, subPost>>
     \/ /\ StoreFails(r) /\ UNCHANGED sessVars
        /\ IF rest[r] < amount[r] THEN Goto(r, "adjustSubUndo") ELSE AdjustError(r)
  /\ UNCHANGED localVars

(* The wallet failed: give the subscription's part back, ignoring errors. *)
AdjustSubUndo(r) ==
  /\ pc[r] = "adjustSubUndo"
  /\ LET part == amount[r] - rest[r]
     IN  /\ \/ PostConsumeUserSubscriptionDelta(r, - part) /\ OnlyUsage
            \/ StoreFails(r)
         /\ subPost' = [subPost EXCEPT ![r] = Max2(0, @ - part)]
         /\ UNCHANGED <<funding, phase, trusted, preConsumed, tokenConsumed, extraReserved, walletConsumed, subPre>>
  /\ AdjustError(r)
  /\ UNCHANGED localVars

(* SplitFunding.Settle, less: first the wallet's part, then the            *)
(* subscription.                                                           *)
AdjustSplitLess(r) ==
  /\ pc[r] = "adjust" /\ funding[r] = "split" /\ amount[r] < 0
  /\ LET back == Min2(- amount[r], Max2(0, walletConsumed[r]))
     IN  \/ /\ back > 0
            /\ DecreaseUserQuota(r, - back) /\ OnlyWallet
            /\ rest' = [rest EXCEPT ![r] = - amount[r] - back]
            /\ walletConsumed' = [walletConsumed EXCEPT ![r] = @ - back]
            /\ IF back = - amount[r] THEN AdjustOk(r) ELSE Goto(r, "adjustSub") /\ UNCHANGED phase
            /\ UNCHANGED <<funding, trusted, preConsumed, tokenConsumed, extraReserved, subPre, subPost>>
         \/ /\ back = 0
            /\ rest' = [rest EXCEPT ![r] = - amount[r]]
            /\ Goto(r, "adjustSub")
            /\ NoAccess /\ UNCHANGED sessVars
         \/ back > 0 /\ StoreFails(r) /\ AdjustError(r) /\ UNCHANGED <<sessVars, rest>>
  /\ UNCHANGED <<req, op, amount, err, actual, tries, attempt>>

AdjustSub(r) ==
  /\ pc[r] = "adjustSub"
  /\ \/ /\ PostConsumeUserSubscriptionDelta(r, - rest[r]) /\ OnlyUsage
        /\ subPost' = [subPost EXCEPT ![r] = @ - rest[r]]
        /\ AdjustOk(r)
        /\ UNCHANGED <<funding, trusted, preConsumed, tokenConsumed, extraReserved, walletConsumed, subPre>>
     \/ StoreFails(r) /\ AdjustError(r) /\ UNCHANGED sessVars
  /\ UNCHANGED localVars

-----------------------------------------------------------------------------
(* The attempt loop of Relay *)

(* getChannel: from the second attempt on, the ratio of the selected group *)
(* may ask for a larger reserve (reserveSelectedGroupBilling, Reserve).    *)
Attempt(r) ==
  /\ pc[r] = "attempt"
  /\ \/ Goto(r, "upstream") /\ UNCHANGED <<op, amount>>
     \/ /\ attempt[r] > 0 /\ phase[r] # "settled" /\ r \notin trusted
        /\ \E target \in Quotas :
             /\ target > preConsumed[r]
             /\ amount' = [amount EXCEPT ![r] = target - preConsumed[r]]
        /\ op' = [op EXCEPT ![r] = "reserve"]
        /\ Goto(r, "adjust")
  /\ NoAccess
  /\ UNCHANGED <<req, rest, err, actual, tries, attempt, sessVars>>

(* The token part of Reserve; the funding is rolled back when it fails. *)
Undo(r) ==
  /\ op' = [op EXCEPT ![r] = "undo"]
  /\ amount' = [amount EXCEPT ![r] = - @]
  /\ Goto(r, "adjust")
  /\ UNCHANGED sessVars

(* mutant: the token part of the reserve is not recorded *)
ReservedFundingOnly(r) ==
  /\ preConsumed' = [preConsumed EXCEPT ![r] = @ + amount[r]]
  /\ extraReserved' = [extraReserved EXCEPT ![r] = @ + amount[r]]
  /\ Goto(r, "upstream")
  /\ UNCHANGED <<op, amount, funding, phase, trusted, tokenConsumed, walletConsumed, subPre, subPost>>

Reserved(r) ==
  /\ preConsumed' = [preConsumed EXCEPT ![r] = @ + amount[r]]
  /\ extraReserved' = [extraReserved EXCEPT ![r] = @ + amount[r]]
  /\ tokenConsumed' = [tokenConsumed EXCEPT ![r] = IF TokenFree(r) THEN @ ELSE @ + amount[r]]
  /\ Goto(r, "upstream")
  /\ UNCHANGED <<op, amount, funding, phase, trusted, walletConsumed, subPre, subPost>>

ReserveTokenCheck(r) ==
  /\ pc[r] = "resTokenCheck"
  /\ \/ TokenFree(r) /\ Reserved(r) /\ NoAccess
     \/ /\ ~TokenFree(r) /\ TokenEnough(amount[r])
        /\ Goto(r, "resTokenDec") /\ NoAccess /\ UNCHANGED <<sessVars, op, amount>>
     \/ ~TokenFree(r) /\ ~TokenEnough(amount[r]) /\ Undo(r) /\ NoAccess
     \/ ~TokenFree(r) /\ StoreFails(r) /\ Undo(r)
  /\ UNCHANGED <<req, rest, err, actual, tries, attempt>>

ReserveTokenDec(r) ==
  /\ pc[r] = "resTokenDec"
  /\ \/ DecreaseTokenQuota(r, amount[r]) /\ OnlyToken /\ Reserved(r)
     \/ StoreFails(r) /\ Undo(r)
  /\ UNCHANGED <<req, rest, err, actual, tries, attempt>>

(* The upstream answers with a usage worth q and the handler settles it. *)
Settle(r) ==
  /\ pc[r] = "upstream"
  /\ \E q \in Quotas :
       \/ phase[r] = "settled" /\ Goto(r, "answered") /\ UNCHANGED <<phase, op, amount, actual>>
       \/ /\ phase[r] # "settled" /\ q = preConsumed[r]
          /\ actual' = [actual EXCEPT ![r] = q]
          /\ phase' = [phase EXCEPT ![r] = "settled"]
          /\ Goto(r, "answered")
          /\ UNCHANGED <<op, amount>>
       \/ /\ phase[r] # "settled" /\ q # preConsumed[r]
          /\ actual' = [actual EXCEPT ![r] = q]
          /\ op' = [op EXCEPT ![r] = "settle"]
          /\ amount' = [amount EXCEPT ![r] = q - preConsumed[r]]
          /\ Goto(r, "adjust")
          /\ UNCHANGED phase
  /\ UNCHANGED <<funding, trusted, preConsumed, tokenConsumed, extraReserved, walletConsumed, subPre, subPost>>
  /\ NoAccess
  /\ UNCHANGED <<req, rest, err, tries, attempt>>

SettleToken(r) ==
  /\ pc[r] = "setToken"
  /\ \/ TokenFree(r) /\ NoAccess
     \/ ~TokenFree(r) /\ DecreaseTokenQuota(r, amount[r]) /\ OnlyToken
     \/ ~TokenFree(r) /\ StoreFails(r)
  /\ phase' = [phase EXCEPT ![r] = "settled"]
  /\ Goto(r, "answered")
  /\ UNCHANGED <<funding, trusted, preConsumed, tokenConsumed, extraReserved, walletConsumed, subPre, subPost>>
  /\ UNCHANGED localVars

UpstreamError(r) ==
  /\ pc[r] = "upstream"
  /\ Goto(r, "attemptFailed")
  /\ NoAccess /\ UNCHANGED <<localVars, sessVars>>

(* The handler returned without an error.  A client abort blamed on the    *)
(* channel, or a watchdog that fired meanwhile, still fails the attempt.   *)
Answered(r) ==
  /\ pc[r] = "answered"
  /\ \/ Goto(r, "done")
     \/ Goto(r, "attemptFailed")
  /\ NoAccess /\ UNCHANGED <<localVars, sessVars>>

Retry(r) ==
  /\ pc[r] = "attemptFailed"
  /\ attempt[r] + 1 < MaxAttempts
  /\ attempt' = [attempt EXCEPT ![r] = @ + 1]
  /\ Goto(r, "attempt")
  /\ NoAccess /\ UNCHANGED <<req, op, amount, rest, err, actual, tries, sessVars>>

(* Refund: decided under the mutex, carried out by a goroutine. *)
Refund(r) ==
  /\ pc[r] \in {"attemptFailed", "giveUp"}
  /\ IF NeedsRefund(r)
       THEN /\ phase' = [phase EXCEPT ![r] = "refunded"]
            /\ tries' = [tries EXCEPT ![r] = 0]
            /\ Goto(r, IF funding[r] = "wallet" THEN "rfWallet" ELSE "subRefund")
       ELSE Goto(r, "failed") /\ UNCHANGED <<phase, tries>>
  /\ NoAccess /\ UNCHANGED <<req, op, amount, rest, err, actual, attempt>>
  /\ UNCHANGED <<funding, trusted, preConsumed, tokenConsumed, extraReserved, walletConsumed, subPre, subPost>>

(* The reserve on top of the pre-consume record: subPost for a split       *)
(* funding, extraReserved for a subscription.                              *)
RefundExtra(r) ==
  /\ pc[r] = "rfExtra"
  /\ LET extra == IF funding[r] = "split" THEN subPost[r] ELSE extraReserved[r]
     IN  \/ extra > 0 /\ PostConsumeUserSubscriptionDelta(r, - extra) /\ OnlyUsage
         \/ extra > 0 /\ StoreFails(r)
         \/ extra <= 0 /\ NoAccess
  /\ Goto(r, IF funding[r] = "split" THEN "rfWallet" ELSE "rfToken")
  /\ UNCHANGED <<localVars, sessVars>>

RefundWallet(r) ==
  /\ pc[r] = "rfWallet"
  /\ \/ /\ walletConsumed[r] > 0
        /\ DecreaseUserQuota(r, - walletConsumed[r]) /\ OnlyWallet
     \/ walletConsumed[r] > 0 /\ StoreFails(r)
     \/ walletConsumed[r] <= 0 /\ NoAccess
  /\ Goto(r, "rfToken")
  /\ UNCHANGED <<localVars, sessVars>>

(* mutant: gives the token back what was pre-consumed from the funding *)
RefundTokenPreConsumed(r) ==
  /\ pc[r] = "rfToken"
  /\ DecreaseTokenQuota(r, - preConsumed[r]) /\ OnlyToken
  /\ Goto(r, "failed")
  /\ UNCHANGED <<localVars, sessVars>>

RefundToken(r) ==
  /\ pc[r] = "rfToken"
  /\ \/ /\ tokenConsumed[r] > 0
        /\ DecreaseTokenQuota(r, - tokenConsumed[r]) /\ OnlyToken
     \/ tokenConsumed[r] > 0 /\ StoreFails(r)
     \/ tokenConsumed[r] <= 0 /\ NoAccess
  /\ Goto(r, "failed")
  /\ UNCHANGED <<localVars, sessVars>>

-----------------------------------------------------------------------------
(* The environment *)

(* ExpireDueSubscriptions or AdminInvalidateUserSubscription. *)
SubscriptionEnds ==
  /\ subStatus = "active"
  /\ subStatus' = "expired"
  /\ UNCHANGED <<wallet, token, subUsed, lastReset, period, preRecord, localVars, ghostVars, sessVars, pc>>

PeriodEnds ==
  /\ period < MaxPeriods
  /\ period' = period + 1
  /\ UNCHANGED <<wallet, token, subUsed, subStatus, lastReset, preRecord, localVars, ghostVars, sessVars, pc>>

ResetDueSubscriptions ==
  /\ lastReset < period /\ subStatus = "active"
  /\ subUsed' = 0
  /\ lastReset' = period
  /\ UNCHANGED <<wallet, token, subStatus, period, preRecord, localVars, ghostVars, sessVars, pc>>

(* The process stops: sessions and refund goroutines are gone. *)
Crash ==
  /\ "crash" \in Faults
  /\ \E r \in Requests : pc[r] \notin Terminal \cup {"idle"}
  /\ pc' = [r \in Requests |-> IF pc[r] \in Terminal \cup {"idle"} THEN pc[r] ELSE "crashed"]
  /\ UNCHANGED <<storeVars, localVars, ghostVars, sessVars>>

Finished ==
  /\ \A r \in Requests : pc[r] \in Terminal
  /\ UNCHANGED vars

-----------------------------------------------------------------------------
Init ==
  /\ wallet = InitWallet
  /\ token = InitToken
  /\ subUsed = 0
  /\ subStatus = "active"
  /\ lastReset = 0
  /\ period = 0
  /\ preRecord = [r \in Requests |-> "none"]
  /\ req = [r \in Requests |-> [pref |-> "wallet_only", flags |-> {}, estimate |-> 0, tokenSeen |-> 0]]
  /\ funding = [r \in Requests |-> "none"]
  /\ phase = [r \in Requests |-> "open"]
  /\ trusted = {}
  /\ preConsumed = [r \in Requests |-> 0]
  /\ tokenConsumed = [r \in Requests |-> 0]
  /\ extraReserved = [r \in Requests |-> 0]
  /\ walletConsumed = [r \in Requests |-> 0]
  /\ subPre = [r \in Requests |-> 0]
  /\ subPost = [r \in Requests |-> 0]
  /\ op = [r \in Requests |-> "none"]
  /\ amount = [r \in Requests |-> 0]
  /\ rest = [r \in Requests |-> 0]
  /\ err = [r \in Requests |-> "none"]
  /\ actual = [r \in Requests |-> 0]
  /\ tries = [r \in Requests |-> 0]
  /\ attempt = [r \in Requests |-> 0]
  /\ pc = [r \in Requests |-> "idle"]
  /\ paidW = [r \in Requests |-> 0]
  /\ paidS = [r \in Requests |-> 0]
  /\ paidT = [r \in Requests |-> 0]
  /\ faulty = {}

(* The steps a started request takes by itself. *)
Step(r) ==
  \/ HasActiveUserSubscription(r) \/ WalletCheck(r) \/ TokenCheck(r) \/ TokenDec(r)
  \/ FundWallet(r) \/ FundSubscription(r) \/ FundSplit(r) \/ SplitCheck(r) \/ SplitDec(r)
  \/ SubRefund(r) \/ SubRefundMark(r) \/ TokRollback(r)
  \/ AdjustWalletFunding(r) \/ AdjustSubscriptionFunding(r)
  \/ AdjustSplitMore(r) \/ AdjustWallet(r) \/ AdjustSubUndo(r)
  \/ AdjustSplitLess(r) \/ AdjustSub(r)
  \/ Attempt(r) \/ ReserveTokenCheck(r) \/ ReserveTokenDec(r)
  \/ Settle(r) \/ SettleToken(r) \/ UpstreamError(r) \/ Answered(r) \/ Retry(r)
  \/ Refund(r) \/ RefundExtra(r) \/ RefundWallet(r) \/ RefundToken(r)

Next ==
  \/ \E r \in Requests : Start(r) \/ Step(r)
  \/ SubscriptionEnds \/ PeriodEnds \/ ResetDueSubscriptions
  \/ Crash \/ Finished

Spec == Init /\ [][Next]_vars

(* Every started request keeps taking steps: its goroutine and the         *)
(* goroutine of its refund are scheduled, and the upstream answers or      *)
(* times out.                                                              *)
FairSpec == Spec /\ \A r \in Requests : WF_vars(Step(r))

-----------------------------------------------------------------------------
(* Properties *)

TypeStore ==
  /\ wallet \in Int /\ token \in Int /\ subUsed \in Nat
  /\ subStatus \in {"active", "expired"} /\ lastReset \in Nat /\ period \in Nat
  /\ preRecord \in [Requests -> {"none", "consumed", "refunded"}]

TypeSession ==
  /\ funding \in [Requests -> Fundings]
  /\ phase \in [Requests -> Phases]
  /\ trusted \subseteq Requests
  /\ preConsumed \in [Requests -> Int]
  /\ tokenConsumed \in [Requests -> Int]
  /\ extraReserved \in [Requests -> Int]
  /\ walletConsumed \in [Requests -> Int]
  /\ subPre \in [Requests -> Int]
  /\ subPost \in [Requests -> Int]

TypeLocal ==
  /\ op \in [Requests -> {"none", "reserve", "undo", "settle"}]
  /\ amount \in [Requests -> Int]
  /\ rest \in [Requests -> Int]
  /\ err \in [Requests -> {"none", "insufficient", "other"}]
  /\ actual \in [Requests -> Nat]
  /\ tries \in [Requests -> Nat]
  /\ attempt \in [Requests -> Nat]

TypeControl ==
  /\ req \in [Requests -> Request]
  /\ pc \in [Requests -> Labels]

TypeGhost ==
  /\ paidW \in [Requests -> Int]
  /\ paidS \in [Requests -> Int]
  /\ paidT \in [Requests -> Int]
  /\ faulty \subseteq Requests

(* Every row, session field and local of a request stays in its type. *)
TypeOK == TypeStore /\ TypeSession /\ TypeLocal /\ TypeControl /\ TypeGhost

Charge(r) == paidW[r] + paidS[r]
TokenShare(r, q) == IF TokenFree(r) THEN 0 ELSE q

(* A request that is over and met no store error has cost its funding and  *)
(* its token exactly what it settled, or nothing if it was not settled.    *)
(* Two outcomes are told apart: a request answered although the            *)
(* subscription refused the extra charge keeps its pre-consume, and a      *)
(* failed wallet request without a token is not refunded by                *)
(* needsRefundLocked.                                                      *)
ExactCharge ==
  \A r \in Requests :
    (pc[r] \in {"done", "failed"} /\ r \notin faulty) =>
      \/ phase[r] = "settled" /\ Charge(r) = actual[r] /\ paidT[r] = TokenShare(r, actual[r])
      \/ pc[r] = "failed" /\ phase[r] # "settled" /\ Charge(r) = 0 /\ paidT[r] = 0
      \/ /\ pc[r] = "done" /\ funding[r] = "subscription"
         /\ Charge(r) = preConsumed[r] /\ Charge(r) < actual[r]
         /\ paidT[r] = TokenShare(r, Charge(r))
      \/ /\ pc[r] = "failed" /\ funding[r] = "wallet" /\ TokenFree(r)
         /\ Charge(r) = preConsumed[r] /\ paidT[r] = 0

(* Whatever fails or crashes, no request is ever given back more wallet or *)
(* token quota than was taken for it.                                      *)
NeverOverRefunded ==
  \A r \in Requests : paidW[r] >= 0 /\ paidT[r] >= 0

(* A charge that is settled is final: no later attempt, reserve, refund or *)
(* other step changes what the request paid.                               *)
SettledIsFinal ==
  [][\A r \in Requests :
       phase[r] = "settled" =>
         phase'[r] = "settled" /\ Charge(r)' = Charge(r) /\ paidT'[r] = paidT[r]]_vars

(* Every request that was started comes to an end, its refund included. *)
Termination ==
  \A r \in Requests : pc[r] # "idle" ~> pc[r] \in Terminal

(* The part of a charge that was compared with the wallet before it was    *)
(* taken: what the subscription left over, or the whole estimate.          *)
CheckedPart(r) ==
  IF funding[r] = "split" THEN Max2(req[r].estimate, 1) - subPre[r] ELSE req[r].estimate

(* A wallet overdraft takes two requests that passed their checks on the   *)
(* same quota, or a charge beyond what was checked (Reserve or Settle ask  *)
(* for more than the pre-consume), which the wallet does not refuse.       *)
OverdraftNeedsRace ==
  wallet < 0 =>
    \/ \E r, q \in Requests : r # q /\ paidW[r] > 0 /\ paidW[q] > 0
    \/ \E r \in Requests : paidW[r] > CheckedPart(r)

(* As long as no quota period has ended, the usage of the subscription is  *)
(* exactly what the requests took from it; after a reset it is at most     *)
(* that: usage is never counted that no request paid for.                  *)
SubUsageBacked ==
  LET taken == MapThenSumSet(LAMBDA r : paidS[r], Requests)
  IN  IF period = 0 THEN subUsed = taken ELSE subUsed <= taken

(* RefundSubscriptionPreConsume is idempotent: retrying it never gives     *)
(* back more than was taken.                                               *)
SubRefundIdempotent ==
  \A r \in Requests : phase[r] = "refunded" => paidS[r] >= 0

=============================================================================
