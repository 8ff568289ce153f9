--------------------------- MODULE BillingProofs ---------------------------
(***************************************************************************)
(* Proofs about BillingSession for any finite set of requests, any         *)
(* amounts, any account balances and any faults: type correctness, the     *)
(* agreement of the sessions with the rows (Balanced) and what follows     *)
(* from it about charges, refunds, overdrafts and subscription usage.      *)
(***************************************************************************)
EXTENDS BillingSession, FiniteSums, TLAPS

(* The type invariant is inductive: every step of the billing session      *)
(* keeps each field of the stores and of the sessions in its type.         *)
LEMMA TypeStep == TypeOK /\ [Next]_vars => TypeOK'
<1> SUFFICES ASSUME TypeOK, [Next]_vars PROVE TypeOK'
  OBVIOUS
<1> USE BillingAssumption DEF TypeOK, TypeStore, TypeSession, TypeLocal, TypeControl, TypeGhost,
        storeVars, localVars, ghostVars, sessVars, Goto, NewSession, Min2, Max2
<1>1. ASSUME NEW r \in Requests, Start(r) PROVE TypeOK'
  <2> USE <1>1 DEF Start
  <2>1. TypeStore'
    BY DEF TrySubscription, TryWallet, NoAccess
  <2>2. TypeSession'
    BY DEF TrySubscription, TryWallet, NoAccess, Fundings, Phases
  <2>3. TypeLocal'
    BY DEF TrySubscription, TryWallet, NoAccess
  <2>4. TypeControl'
    <3>1. req' \in [Requests -> Request]
      BY DEF Request, Flags
    <3>2. pc' \in [Requests -> Labels]
      BY DEF TrySubscription, TryWallet, Labels
    <3>3. QED
      BY <3>1, <3>2
  <2>5. TypeGhost'
    BY DEF TrySubscription, TryWallet, NoAccess
  <2>6. QED
    BY <2>1, <2>2, <2>3, <2>4, <2>5
<1>2. ASSUME NEW r \in Requests, HasActiveUserSubscription(r) PROVE TypeOK'
  <2> USE <1>2 DEF HasActiveUserSubscription
  <2> req[r].estimate \in Nat
    BY DEF Request
  <2>1. TypeStore'
    BY DEF TrySubscription, TryWallet, NoAccess, StoreFails, Refuse
  <2>2. TypeSession'
    BY DEF TrySubscription, TryWallet, NoAccess, StoreFails, Refuse,
       Fundings, Phases
  <2>3. TypeLocal'
    BY DEF TrySubscription, TryWallet, NoAccess, StoreFails, Refuse
  <2>4. TypeControl'
    BY DEF TrySubscription, TryWallet, NoAccess, StoreFails, Refuse, Labels
  <2>5. TypeGhost'
    BY DEF TrySubscription, TryWallet, NoAccess, StoreFails, Refuse
  <2>6. QED
    BY <2>1, <2>2, <2>3, <2>4, <2>5
<1>3. ASSUME NEW r \in Requests, WalletCheck(r) PROVE TypeOK'
  <2> USE <1>3 DEF WalletCheck
  <2> req[r].estimate \in Nat
    BY DEF Request
  <2>1. TypeStore'
    BY DEF Fallback, TrySubscription, TryWallet, Refuse, NoAccess,
       StoreFails, ShouldTrust
  <2>2. TypeSession'
    BY DEF Fallback, TrySubscription, TryWallet, Refuse, NoAccess,
       StoreFails, ShouldTrust, Fundings, Phases
  <2>3. TypeLocal'
    BY DEF Fallback, TrySubscription, TryWallet, Refuse, NoAccess,
       StoreFails, ShouldTrust
  <2>4. TypeControl'
    BY DEF Fallback, TrySubscription, TryWallet, Refuse, NoAccess,
       StoreFails, ShouldTrust, Labels
  <2>5. TypeGhost'
    BY DEF Fallback, TrySubscription, TryWallet, Refuse, NoAccess,
       StoreFails, ShouldTrust
  <2>6. QED
    BY <2>1, <2>2, <2>3, <2>4, <2>5
<1>4. ASSUME NEW r \in Requests, TokenCheck(r) PROVE TypeOK'
  <2> USE <1>4 DEF TokenCheck
  <2>1. TypeStore'
    BY DEF NoAccess, StoreFails, Refuse, TokenEnough
  <2>2. TypeSession'
    BY DEF NoAccess, StoreFails, Refuse, TokenEnough, Fundings, Phases
  <2>3. TypeLocal'
    BY DEF NoAccess, StoreFails, Refuse, TokenEnough
  <2>4. TypeControl'
    BY DEF NoAccess, StoreFails, Refuse, TokenEnough, Labels
  <2>5. TypeGhost'
    BY DEF NoAccess, StoreFails, Refuse, TokenEnough
  <2>6. QED
    BY <2>1, <2>2, <2>3, <2>4, <2>5
<1>5. ASSUME NEW r \in Requests, TokenDec(r) PROVE TypeOK'
  <2> USE <1>5 DEF TokenDec
  <2>1. TypeStore'
    BY DEF DecreaseTokenQuota, OnlyToken, StoreFails, Refuse
  <2>2. TypeSession'
    BY DEF DecreaseTokenQuota, OnlyToken, StoreFails, Refuse, Fundings,
       Phases
  <2>3. TypeLocal'
    BY DEF DecreaseTokenQuota, OnlyToken, StoreFails, Refuse
  <2>4. TypeControl'
    BY DEF DecreaseTokenQuota, OnlyToken, StoreFails, Refuse, Labels
  <2>5. TypeGhost'
    BY DEF DecreaseTokenQuota, OnlyToken, StoreFails, Refuse
  <2>6. QED
    BY <2>1, <2>2, <2>3, <2>4, <2>5
<1>6. ASSUME NEW r \in Requests, FundWallet(r) PROVE TypeOK'
  <2> USE <1>6 DEF FundWallet
  <2>1. TypeStore'
    BY DEF DecreaseUserQuota, OnlyWallet, StoreFails, FailWith
  <2>2. TypeSession'
    BY DEF DecreaseUserQuota, OnlyWallet, StoreFails, FailWith, Fundings,
       Phases
  <2>3. TypeLocal'
    BY DEF DecreaseUserQuota, OnlyWallet, StoreFails, FailWith
  <2>4. TypeControl'
    BY DEF DecreaseUserQuota, OnlyWallet, StoreFails, FailWith, Labels
  <2>5. TypeGhost'
    BY DEF DecreaseUserQuota, OnlyWallet, StoreFails, FailWith
  <2>6. QED
    BY <2>1, <2>2, <2>3, <2>4, <2>5
<1>7. ASSUME NEW r \in Requests, FundSubscription(r) PROVE TypeOK'
  <2> USE <1>7 DEF FundSubscription, FundErrors
  <2>1. TypeStore'
    BY DEF PreConsumeUserSubscription, UsageAfterReset, Available,
       OnlySubscription, FailWith, NoAccess, StoreFails
  <2>2. TypeSession'
    BY DEF PreConsumeUserSubscription, UsageAfterReset, Available,
       OnlySubscription, FailWith, NoAccess, StoreFails, Fundings, Phases
  <2>3. TypeLocal'
    BY DEF PreConsumeUserSubscription, UsageAfterReset, Available,
       OnlySubscription, FailWith, NoAccess, StoreFails
  <2>4. TypeControl'
    BY DEF PreConsumeUserSubscription, UsageAfterReset, Available,
       OnlySubscription, FailWith, NoAccess, StoreFails, Labels
  <2>5. TypeGhost'
    BY DEF PreConsumeUserSubscription, UsageAfterReset, Available,
       OnlySubscription, FailWith, NoAccess, StoreFails
  <2>6. QED
    BY <2>1, <2>2, <2>3, <2>4, <2>5
<1>8. ASSUME NEW r \in Requests, FundSplit(r) PROVE TypeOK'
  <2> USE <1>8 DEF FundSplit, FundErrors
  <2>1. TypeStore'
    BY DEF PreConsumeUserSubscription, UsageAfterReset, Available,
       OnlySubscription, FailWith, NoAccess, StoreFails
  <2>2. TypeSession'
    BY DEF PreConsumeUserSubscription, UsageAfterReset, Available,
       OnlySubscription, FailWith, NoAccess, StoreFails, Fundings, Phases
  <2>3. TypeLocal'
    BY DEF PreConsumeUserSubscription, UsageAfterReset, Available,
       OnlySubscription, FailWith, NoAccess, StoreFails
  <2>4. TypeControl'
    BY DEF PreConsumeUserSubscription, UsageAfterReset, Available,
       OnlySubscription, FailWith, NoAccess, StoreFails, Labels
  <2>5. TypeGhost'
    BY DEF PreConsumeUserSubscription, UsageAfterReset, Available,
       OnlySubscription, FailWith, NoAccess, StoreFails
  <2>6. QED
    BY <2>1, <2>2, <2>3, <2>4, <2>5
<1>9. ASSUME NEW r \in Requests, SplitCheck(r) PROVE TypeOK'
  <2> USE <1>9 DEF SplitCheck
  <2>1. TypeStore'
    BY DEF NoAccess, StoreFails, FailWith
  <2>2. TypeSession'
    BY DEF NoAccess, StoreFails, FailWith, Fundings, Phases
  <2>3. TypeLocal'
    BY DEF NoAccess, StoreFails, FailWith
  <2>4. TypeControl'
    BY DEF NoAccess, StoreFails, FailWith, Labels
  <2>5. TypeGhost'
    BY DEF NoAccess, StoreFails, FailWith
  <2>6. QED
    BY <2>1, <2>2, <2>3, <2>4, <2>5
<1>10. ASSUME NEW r \in Requests, SplitDec(r) PROVE TypeOK'
  <2> USE <1>10 DEF SplitDec
  <2>1. TypeStore'
    BY DEF DecreaseUserQuota, OnlyWallet, StoreFails, FailWith
  <2>2. TypeSession'
    BY DEF DecreaseUserQuota, OnlyWallet, StoreFails, FailWith, Fundings,
       Phases
  <2>3. TypeLocal'
    BY DEF DecreaseUserQuota, OnlyWallet, StoreFails, FailWith
  <2>4. TypeControl'
    BY DEF DecreaseUserQuota, OnlyWallet, StoreFails, FailWith, Labels
  <2>5. TypeGhost'
    BY DEF DecreaseUserQuota, OnlyWallet, StoreFails, FailWith
  <2>6. QED
    BY <2>1, <2>2, <2>3, <2>4, <2>5
<1>11. ASSUME NEW r \in Requests, SubRefund(r) PROVE TypeOK'
  <2> USE <1>11 DEF SubRefund
  <2>1. TypeStore'
    BY DEF PostConsumeUserSubscriptionDelta, OnlyUsage, StoreFails,
       RetryOrGiveUp, AfterSubRefund, MaxTries
  <2>2. TypeSession'
    BY DEF PostConsumeUserSubscriptionDelta, OnlyUsage, StoreFails,
       RetryOrGiveUp, AfterSubRefund, MaxTries, Fundings, Phases
  <2>3. TypeLocal'
    BY DEF PostConsumeUserSubscriptionDelta, OnlyUsage, StoreFails,
       RetryOrGiveUp, AfterSubRefund, MaxTries
  <2>4. TypeControl'
    BY DEF PostConsumeUserSubscriptionDelta, OnlyUsage, StoreFails,
       RetryOrGiveUp, AfterSubRefund, MaxTries, Labels
  <2>5. TypeGhost'
    BY DEF PostConsumeUserSubscriptionDelta, OnlyUsage, StoreFails,
       RetryOrGiveUp, AfterSubRefund, MaxTries
  <2>6. QED
    BY <2>1, <2>2, <2>3, <2>4, <2>5
<1>12. ASSUME NEW r \in Requests, SubRefundMark(r) PROVE TypeOK'
  <2> USE <1>12 DEF SubRefundMark
  <2>1. TypeStore'
    BY DEF RetryOrGiveUp, AfterSubRefund, MaxTries
  <2>2. TypeSession'
    BY DEF RetryOrGiveUp, AfterSubRefund, MaxTries, Fundings, Phases
  <2>3. TypeLocal'
    BY DEF RetryOrGiveUp, AfterSubRefund, MaxTries
  <2>4. TypeControl'
    BY DEF RetryOrGiveUp, AfterSubRefund, MaxTries, Labels
  <2>5. TypeGhost'
    BY DEF RetryOrGiveUp, AfterSubRefund, MaxTries
  <2>6. QED
    BY <2>1, <2>2, <2>3, <2>4, <2>5
<1>13. ASSUME NEW r \in Requests, TokRollback(r) PROVE TypeOK'
  <2> USE <1>13 DEF TokRollback
  <2> req[r].estimate \in Nat
    BY DEF Request
  <2>1. TypeStore'
    BY DEF NoAccess, DecreaseTokenQuota, OnlyToken, StoreFails, Fallback,
       Refuse, TrySubscription, TryWallet
  <2>2. TypeSession'
    BY DEF NoAccess, DecreaseTokenQuota, OnlyToken, StoreFails, Fallback,
       Refuse, TrySubscription, TryWallet, Fundings, Phases
  <2>3. TypeLocal'
    BY DEF NoAccess, DecreaseTokenQuota, OnlyToken, StoreFails, Fallback,
       Refuse, TrySubscription, TryWallet
  <2>4. TypeControl'
    BY DEF NoAccess, DecreaseTokenQuota, OnlyToken, StoreFails, Fallback,
       Refuse, TrySubscription, TryWallet, Labels
  <2>5. TypeGhost'
    BY DEF NoAccess, DecreaseTokenQuota, OnlyToken, StoreFails, Fallback,
       Refuse, TrySubscription, TryWallet
  <2>6. QED
    BY <2>1, <2>2, <2>3, <2>4, <2>5
<1>14. ASSUME NEW r \in Requests, AdjustWalletFunding(r) PROVE TypeOK'
  <2> USE <1>14 DEF AdjustWalletFunding
  <2>1. TypeStore'
    BY DEF DecreaseUserQuota, OnlyWallet, AdjustOk, AdjustError, StoreFails
  <2>2. TypeSession'
    BY DEF DecreaseUserQuota, OnlyWallet, AdjustOk, AdjustError, StoreFails,
       Fundings, Phases
  <2>3. TypeLocal'
    BY DEF DecreaseUserQuota, OnlyWallet, AdjustOk, AdjustError, StoreFails
  <2>4. TypeControl'
    BY DEF DecreaseUserQuota, OnlyWallet, AdjustOk, AdjustError, StoreFails,
       Labels
  <2>5. TypeGhost'
    BY DEF DecreaseUserQuota, OnlyWallet, AdjustOk, AdjustError, StoreFails
  <2>6. QED
    BY <2>1, <2>2, <2>3, <2>4, <2>5
<1>15. ASSUME NEW r \in Requests, AdjustSubscriptionFunding(r) PROVE TypeOK'
  <2> USE <1>15 DEF AdjustSubscriptionFunding
  <2>1. TypeStore'
    BY DEF PostConsumeUserSubscriptionDelta, OnlyUsage, AdjustOk,
       AdjustError, StoreFails, NoAccess
  <2>2. TypeSession'
    BY DEF PostConsumeUserSubscriptionDelta, OnlyUsage, AdjustOk,
       AdjustError, StoreFails, NoAccess, Fundings, Phases
  <2>3. TypeLocal'
    BY DEF PostConsumeUserSubscriptionDelta, OnlyUsage, AdjustOk,
       AdjustError, StoreFails, NoAccess
  <2>4. TypeControl'
    BY DEF PostConsumeUserSubscriptionDelta, OnlyUsage, AdjustOk,
       AdjustError, StoreFails, NoAccess, Labels
  <2>5. TypeGhost'
    BY DEF PostConsumeUserSubscriptionDelta, OnlyUsage, AdjustOk,
       AdjustError, StoreFails, NoAccess
  <2>6. QED
    BY <2>1, <2>2, <2>3, <2>4, <2>5
<1>16. ASSUME NEW r \in Requests, AdjustSplitMore(r) PROVE TypeOK'
  <2> USE <1>16 DEF AdjustSplitMore
  <2>1. TypeStore'
    BY DEF Available, OnlyUsage, AdjustOk, AdjustError, StoreFails
  <2>2. TypeSession'
    <3>1. subPost' \in [Requests -> Int]
      BY DEF Available
    <3>2. phase' \in [Requests -> Phases]
      BY DEF AdjustOk, Phases
    <3>3. QED
      BY <3>1, <3>2
  <2>3. TypeLocal'
    BY DEF Available, OnlyUsage, AdjustOk, AdjustError, StoreFails
  <2>4. TypeControl'
    BY DEF Available, OnlyUsage, AdjustOk, AdjustError, StoreFails, Labels
  <2>5. TypeGhost'
    BY DEF Available, OnlyUsage, AdjustOk, AdjustError, StoreFails
  <2>6. QED
    BY <2>1, <2>2, <2>3, <2>4, <2>5
<1>17. ASSUME NEW r \in Requests, AdjustWallet(r) PROVE TypeOK'
  <2> USE <1>17 DEF AdjustWallet
  <2>1. TypeStore'
    BY DEF DecreaseUserQuota, OnlyWallet, AdjustOk, AdjustError, StoreFails
  <2>2. TypeSession'
    BY DEF DecreaseUserQuota, OnlyWallet, AdjustOk, AdjustError, StoreFails,
       Fundings, Phases
  <2>3. TypeLocal'
    BY DEF DecreaseUserQuota, OnlyWallet, AdjustOk, AdjustError, StoreFails
  <2>4. TypeControl'
    BY DEF DecreaseUserQuota, OnlyWallet, AdjustOk, AdjustError, StoreFails,
       Labels
  <2>5. TypeGhost'
    BY DEF DecreaseUserQuota, OnlyWallet, AdjustOk, AdjustError, StoreFails
  <2>6. QED
    BY <2>1, <2>2, <2>3, <2>4, <2>5
<1>18. ASSUME NEW r \in Requests, AdjustSubUndo(r) PROVE TypeOK'
  <2> USE <1>18 DEF AdjustSubUndo
  <2>1. TypeStore'
    BY DEF PostConsumeUserSubscriptionDelta, OnlyUsage, AdjustError,
       StoreFails
  <2>2. TypeSession'
    BY DEF PostConsumeUserSubscriptionDelta, OnlyUsage, AdjustError,
       StoreFails, Fundings, Phases
  <2>3. TypeLocal'
    BY DEF PostConsumeUserSubscriptionDelta, OnlyUsage, AdjustError,
       StoreFails
  <2>4. TypeControl'
    BY DEF PostConsumeUserSubscriptionDelta, OnlyUsage, AdjustError,
       StoreFails, Labels
  <2>5. TypeGhost'
    BY DEF PostConsumeUserSubscriptionDelta, OnlyUsage, AdjustError,
       StoreFails
  <2>6. QED
    BY <2>1, <2>2, <2>3, <2>4, <2>5
<1>19. ASSUME NEW r \in Requests, AdjustSplitLess(r) PROVE TypeOK'
  <2> USE <1>19 DEF AdjustSplitLess
  <2>1. TypeStore'
    BY DEF DecreaseUserQuota, OnlyWallet, AdjustOk, AdjustError, StoreFails,
       NoAccess
  <2>2. TypeSession'
    BY DEF DecreaseUserQuota, OnlyWallet, AdjustOk, AdjustError, StoreFails,
       NoAccess, Fundings, Phases
  <2>3. TypeLocal'
    BY DEF DecreaseUserQuota, OnlyWallet, AdjustOk, AdjustError, StoreFails,
       NoAccess
  <2>4. TypeControl'
    BY DEF DecreaseUserQuota, OnlyWallet, AdjustOk, AdjustError, StoreFails,
       NoAccess, Labels
  <2>5. TypeGhost'
    BY DEF DecreaseUserQuota, OnlyWallet, AdjustOk, AdjustError, StoreFails,
       NoAccess
  <2>6. QED
    BY <2>1, <2>2, <2>3, <2>4, <2>5
<1>20. ASSUME NEW r \in Requests, AdjustSub(r) PROVE TypeOK'
  <2> USE <1>20 DEF AdjustSub
  <2>1. TypeStore'
    BY DEF PostConsumeUserSubscriptionDelta, OnlyUsage, AdjustOk,
       AdjustError, StoreFails
  <2>2. TypeSession'
    BY DEF PostConsumeUserSubscriptionDelta, OnlyUsage, AdjustOk,
       AdjustError, StoreFails, Fundings, Phases
  <2>3. TypeLocal'
    BY DEF PostConsumeUserSubscriptionDelta, OnlyUsage, AdjustOk,
       AdjustError, StoreFails
  <2>4. TypeControl'
    BY DEF PostConsumeUserSubscriptionDelta, OnlyUsage, AdjustOk,
       AdjustError, StoreFails, Labels
  <2>5. TypeGhost'
    BY DEF PostConsumeUserSubscriptionDelta, OnlyUsage, AdjustOk,
       AdjustError, StoreFails
  <2>6. QED
    BY <2>1, <2>2, <2>3, <2>4, <2>5
<1>21. ASSUME NEW r \in Requests, Attempt(r) PROVE TypeOK'
  <2> USE <1>21 DEF Attempt
  <2>1. TypeStore'
    BY DEF NoAccess
  <2>2. TypeSession'
    BY DEF NoAccess, Fundings, Phases
  <2>3. TypeLocal'
    BY DEF NoAccess
  <2>4. TypeControl'
    BY DEF NoAccess, Labels
  <2>5. TypeGhost'
    BY DEF NoAccess
  <2>6. QED
    BY <2>1, <2>2, <2>3, <2>4, <2>5
<1>22. ASSUME NEW r \in Requests, ReserveTokenCheck(r) PROVE TypeOK'
  <2> USE <1>22 DEF ReserveTokenCheck
  <2>1. TypeStore'
    BY DEF Reserved, Undo, NoAccess, TokenEnough, StoreFails
  <2>2. TypeSession'
    BY DEF Reserved, Undo, NoAccess, TokenEnough, StoreFails, Fundings,
       Phases
  <2>3. TypeLocal'
    BY DEF Reserved, Undo, NoAccess, TokenEnough, StoreFails
  <2>4. TypeControl'
    BY DEF Reserved, Undo, NoAccess, TokenEnough, StoreFails, Labels
  <2>5. TypeGhost'
    BY DEF Reserved, Undo, NoAccess, TokenEnough, StoreFails
  <2>6. QED
    BY <2>1, <2>2, <2>3, <2>4, <2>5
<1>23. ASSUME NEW r \in Requests, ReserveTokenDec(r) PROVE TypeOK'
  <2> USE <1>23 DEF ReserveTokenDec
  <2>1. TypeStore'
    BY DEF DecreaseTokenQuota, OnlyToken, Reserved, Undo, StoreFails
  <2>2. TypeSession'
    BY DEF DecreaseTokenQuota, OnlyToken, Reserved, Undo, StoreFails,
       Fundings, Phases
  <2>3. TypeLocal'
    BY DEF DecreaseTokenQuota, OnlyToken, Reserved, Undo, StoreFails
  <2>4. TypeControl'
    BY DEF DecreaseTokenQuota, OnlyToken, Reserved, Undo, StoreFails, Labels
  <2>5. TypeGhost'
    BY DEF DecreaseTokenQuota, OnlyToken, Reserved, Undo, StoreFails
  <2>6. QED
    BY <2>1, <2>2, <2>3, <2>4, <2>5
<1>24. ASSUME NEW r \in Requests, Settle(r) PROVE TypeOK'
  <2> USE <1>24 DEF Settle
  <2>1. TypeStore'
    BY DEF NoAccess
  <2>2. TypeSession'
    BY DEF NoAccess, Fundings, Phases
  <2>3. TypeLocal'
    BY DEF NoAccess
  <2>4. TypeControl'
    BY DEF NoAccess, Labels
  <2>5. TypeGhost'
    BY DEF NoAccess
  <2>6. QED
    BY <2>1, <2>2, <2>3, <2>4, <2>5
<1>25. ASSUME NEW r \in Requests, SettleToken(r) PROVE TypeOK'
  BY <1>25 DEF SettleToken, NoAccess, DecreaseTokenQuota, OnlyToken,
     StoreFails, Phases, Fundings, Labels
<1>26. ASSUME NEW r \in Requests, UpstreamError(r) PROVE TypeOK'
  BY <1>26 DEF UpstreamError, NoAccess, Phases, Fundings, Labels
<1>27. ASSUME NEW r \in Requests, Answered(r) PROVE TypeOK'
  BY <1>27 DEF Answered, NoAccess, Phases, Fundings, Labels
<1>28. ASSUME NEW r \in Requests, Retry(r) PROVE TypeOK'
  BY <1>28 DEF Retry, NoAccess, Phases, Fundings, Labels
<1>29. ASSUME NEW r \in Requests, Refund(r) PROVE TypeOK'
  <2> USE <1>29 DEF Refund
  <2>1. TypeStore'
    BY DEF NeedsRefund, NoAccess
  <2>2. TypeSession'
    BY DEF NeedsRefund, NoAccess, Fundings, Phases
  <2>3. TypeLocal'
    BY DEF NeedsRefund, NoAccess
  <2>4. TypeControl'
    BY DEF NeedsRefund, NoAccess, Labels
  <2>5. TypeGhost'
    BY DEF NeedsRefund, NoAccess
  <2>6. QED
    BY <2>1, <2>2, <2>3, <2>4, <2>5
<1>30. ASSUME NEW r \in Requests, RefundExtra(r) PROVE TypeOK'
  <2> USE <1>30 DEF RefundExtra
  <2>1. TypeStore'
    BY DEF PostConsumeUserSubscriptionDelta, OnlyUsage, StoreFails, NoAccess
  <2>2. TypeSession'
    BY DEF PostConsumeUserSubscriptionDelta, OnlyUsage, StoreFails,
       NoAccess, Fundings, Phases
  <2>3. TypeLocal'
    BY DEF PostConsumeUserSubscriptionDelta, OnlyUsage, StoreFails, NoAccess
  <2>4. TypeControl'
    BY DEF PostConsumeUserSubscriptionDelta, OnlyUsage, StoreFails,
       NoAccess, Labels
  <2>5. TypeGhost'
    BY DEF PostConsumeUserSubscriptionDelta, OnlyUsage, StoreFails, NoAccess
  <2>6. QED
    BY <2>1, <2>2, <2>3, <2>4, <2>5
<1>31. ASSUME NEW r \in Requests, RefundWallet(r) PROVE TypeOK'
  BY <1>31 DEF RefundWallet, DecreaseUserQuota, OnlyWallet, StoreFails,
     NoAccess, Phases, Fundings, Labels
<1>32. ASSUME NEW r \in Requests, RefundToken(r) PROVE TypeOK'
  BY <1>32 DEF RefundToken, DecreaseTokenQuota, OnlyToken, StoreFails,
     NoAccess, Phases, Fundings, Labels
<1>33. CASE SubscriptionEnds
  BY <1>33 DEF SubscriptionEnds, Labels
<1>34. CASE PeriodEnds
  BY <1>34 DEF PeriodEnds, Labels
<1>35. CASE ResetDueSubscriptions
  BY <1>35 DEF ResetDueSubscriptions, Labels
<1>36. CASE Crash
  BY <1>36 DEF Crash, Terminal, Labels
<1>37. CASE Finished
  BY <1>37 DEF Finished, vars, Labels
<1>38. CASE UNCHANGED vars
  BY <1>38 DEF vars
<1>39. QED
  BY <1>1, <1>2, <1>3, <1>4, <1>5, <1>6, <1>7, <1>8, <1>9, <1>10, <1>11,
     <1>12, <1>13, <1>14, <1>15, <1>16, <1>17, <1>18, <1>19, <1>20, <1>21,
     <1>22, <1>23, <1>24, <1>25, <1>26, <1>27, <1>28, <1>29, <1>30, <1>31,
     <1>32, <1>33, <1>34, <1>35, <1>36, <1>37, <1>38 DEF Next, Step

(* The rows and sessions start in their types. *)
LEMMA TypeInit == Init => TypeOK
BY BillingAssumption DEF Init, TypeOK, TypeStore, TypeSession, TypeLocal, TypeControl, TypeGhost,
   Request, Flags, Phases, Fundings, Labels, AllPreferences

(* Type correctness of the billing session. *)
THEOREM TypeCorrect == Spec => []TypeOK
BY TypeInit, TypeStep, PTL DEF Spec

-----------------------------------------------------------------------------
(* What holds of one request at every step, the parts of the inductive     *)
(* invariant.                                                              *)

Fresh == {"idle", "hasSub", "walletCheck", "tokenCheck", "tokenDec"}
Running == {"attempt", "upstream", "answered", "attemptFailed", "giveUp", "adjust",
            "adjustWallet", "adjustSubUndo", "adjustSub", "resTokenCheck", "resTokenDec",
            "setToken"}

(* Which phase and which funding go with which place. *)
PlaceFits(r) ==
  /\ phase[r] = "settled" =>
       pc[r] \in {"attempt", "upstream", "answered", "attemptFailed", "done", "failed", "crashed"}
  /\ phase[r] = "fundingSettled" => pc[r] \in {"setToken", "crashed"}
  /\ phase[r] = "refunded" =>
       pc[r] \in {"subRefund", "subRefundMark", "rfExtra", "rfWallet", "rfToken", "failed",
                  "crashed"}
  /\ pc[r] = "setToken" => phase[r] = "fundingSettled"
  /\ pc[r] \in {"rfExtra", "rfWallet", "rfToken"} => phase[r] = "refunded"
  /\ pc[r] \in {"idle", "hasSub"} => funding[r] = "none"
  /\ pc[r] = "walletCheck" => funding[r] = "wallet"
  /\ pc[r] \in Running \cup {"tokenCheck", "tokenDec", "fund", "done"} => funding[r] # "none"
  /\ pc[r] \in {"splitCheck", "splitDec", "adjustWallet", "adjustSubUndo", "adjustSub"}
       => funding[r] = "split"
  /\ pc[r] \in {"subRefund", "subRefundMark"} =>
       funding[r] = "split" \/ (funding[r] = "subscription" /\ phase[r] = "refunded")
  /\ pc[r] = "rfExtra" => funding[r] \in {"subscription", "split"}
  /\ pc[r] = "rfWallet" => funding[r] \in {"wallet", "split"}

(* The operation in progress. *)
OpFits(r) ==
  /\ pc[r] \in {"adjust", "adjustWallet", "adjustSubUndo", "adjustSub"} =>
       \/ op[r] = "reserve" /\ amount[r] > 0
       \/ op[r] = "undo" /\ amount[r] < 0
       \/ op[r] = "settle" /\ amount[r] = actual[r] - preConsumed[r] /\ amount[r] # 0
  /\ pc[r] \in {"resTokenCheck", "resTokenDec"} => op[r] = "reserve" /\ amount[r] > 0
  /\ pc[r] = "setToken" => op[r] = "settle" /\ amount[r] = actual[r] - preConsumed[r]
  /\ pc[r] \in {"adjustWallet", "adjustSubUndo"} => 0 < rest[r] /\ rest[r] <= amount[r]
  /\ pc[r] = "adjustSub" => 0 < rest[r] /\ rest[r] <= -amount[r] /\ walletConsumed[r] = 0

(* The fields of a session that is being set up, and of one that runs. *)
FieldsFit(r) ==
  /\ pc[r] \in Fresh \cup {"fund", "splitCheck", "splitDec"} =>
       /\ subPost[r] = 0 /\ extraReserved[r] = 0 /\ preConsumed[r] = 0
       /\ pc[r] \in Fresh \cup {"fund"} => subPre[r] = 0
       /\ pc[r] \in Fresh => tokenConsumed[r] = 0
       /\ phase[r] = "open"
  /\ pc[r] \in {"tokenCheck", "tokenDec", "fund", "splitCheck", "splitDec"} =>
       /\ amount[r] > 0
       /\ funding[r] \in {"subscription", "split"} => amount[r] = Max2(req[r].estimate, 1)
  /\ pc[r] \in {"fund", "splitCheck", "splitDec"} /\ ~TokenFree(r) => tokenConsumed[r] = amount[r]
  /\ pc[r] \in {"splitCheck", "splitDec"} =>
       subPre[r] > 0 /\ rest[r] > 0 /\ subPre[r] + rest[r] = amount[r]
  /\ pc[r] \in Running \cup {"done"} =>
       /\ preConsumed[r] >= 0
       /\ ~TokenFree(r) => tokenConsumed[r] = preConsumed[r]
       /\ funding[r] = "wallet" => subPre[r] = 0
       /\ funding[r] \in {"subscription", "split"} => subPre[r] > 0 /\ subPre[r] <= preConsumed[r]
       /\ funding[r] = "subscription" => subPre[r] + extraReserved[r] = preConsumed[r]
  /\ pc[r] \in {"tokenDec", "resTokenDec"} => ~TokenFree(r)
  /\ tokenConsumed[r] >= 0
  /\ TokenFree(r) => tokenConsumed[r] = 0
  /\ subPre[r] >= 0 /\ extraReserved[r] >= 0

(* By how much the funding is ahead of what is recorded as pre-consumed. *)
Ahead(r) ==
  CASE pc[r] \in {"resTokenCheck", "resTokenDec", "setToken"} -> amount[r]
    [] pc[r] = "adjust" /\ op[r] = "undo" -> -amount[r]
    [] pc[r] \in {"adjustWallet", "adjustSubUndo"} -> amount[r] - rest[r]
    [] pc[r] = "adjustSub" -> (IF op[r] = "undo" THEN 0 ELSE amount[r]) + rest[r]
    [] OTHER -> 0

(* What the session says it took from the wallet is what it took, faults   *)
(* or not, until it is given back.                                         *)
WalletLedger(r) ==
  /\ paidW[r] >= 0
  /\ pc[r] \notin {"rfToken", "failed", "crashed"} => paidW[r] = walletConsumed[r]
  /\ pc[r] \in Fresh \cup {"fund", "splitCheck", "splitDec", "tokRollback"} => walletConsumed[r] = 0
  /\ pc[r] \in {"subRefund", "subRefundMark"} /\ phase[r] = "open" => walletConsumed[r] = 0
  /\ funding[r] = "subscription" => walletConsumed[r] = 0
  /\ pc[r] \in Running \ {"giveUp"} /\ funding[r] = "wallet" /\ phase[r] # "settled"
       => walletConsumed[r] = preConsumed[r] + Ahead(r)

(* The token was charged at least what the session says, and exactly that  *)
(* when no store access failed.                                            *)
TokenLedger(r) ==
  /\ paidT[r] >= 0
  /\ TokenFree(r) \/ pc[r] = "idle" => paidT[r] = 0
  /\ phase[r] # "settled" /\ pc[r] \notin {"failed", "crashed"} =>
       paidT[r] >= tokenConsumed[r] /\ (r \notin faulty => paidT[r] = tokenConsumed[r])
  /\ r \notin faulty /\ phase[r] = "settled" => paidT[r] = TokenShare(r, actual[r])

(* What was reserved from the subscription on top of its record. *)
Extra(r) == IF funding[r] = "split" THEN subPost[r] ELSE extraReserved[r]

(* The charge of a request whose store accesses all succeeded. *)
Books(r) ==
  /\ paidS[r] >= 0
  /\ pc[r] \in Fresh \cup {"fund", "tokRollback"} => paidS[r] = 0
  /\ pc[r] \in {"splitCheck", "splitDec"} => paidS[r] = subPre[r]
  /\ pc[r] = "subRefund" /\ phase[r] = "open" => paidS[r] = subPre[r]
  /\ pc[r] = "subRefundMark" /\ phase[r] = "open" => paidS[r] = 0
  /\ pc[r] # "adjustSubUndo"
  /\ pc[r] \in Running \cup {"done"} /\ phase[r] # "settled" =>
       /\ Charge(r) = preConsumed[r] + Ahead(r)
       /\ funding[r] = "wallet" => paidS[r] = 0
       /\ funding[r] = "split" /\ phase[r] = "open" =>
            paidS[r] = subPre[r] + subPost[r] /\ subPost[r] >= 0
  /\ pc[r] \in {"answered", "done"} /\ phase[r] # "settled" =>
       funding[r] = "subscription" /\ preConsumed[r] < actual[r]
  /\ phase[r] = "settled" => Charge(r) = actual[r]
  /\ phase[r] = "refunded" =>
       /\ funding[r] \in {"subscription", "split"} => Extra(r) >= 0
       /\ pc[r] = "subRefund" => paidS[r] = subPre[r] + Extra(r)
       /\ pc[r] \in {"subRefundMark", "rfExtra"} => paidS[r] = Extra(r)
       /\ pc[r] \in {"rfWallet", "rfToken"} => paidS[r] = 0
       /\ pc[r] = "rfToken" => paidW[r] = 0
  /\ pc[r] = "failed" /\ phase[r] # "settled" =>
       /\ paidT[r] = 0
       /\ \/ Charge(r) = 0
          \/ funding[r] = "wallet" /\ TokenFree(r) /\ Charge(r) = preConsumed[r]

(* What is charged to the wallet, or is about to be, was compared with a   *)
(* wallet that held at most what it held at first.                         *)
CheckFits(r) ==
  \/ paidW[r] > 0
  \/ funding[r] = "wallet" /\ pc[r] \notin {"walletCheck", "crashed"}
  \/ funding[r] = "split" /\ pc[r] \in Running \cup {"splitDec"}
  => CheckedPart(r) <= InitWallet

SessionFits(r) ==
  /\ PlaceFits(r) /\ OpFits(r) /\ FieldsFit(r) /\ WalletLedger(r) /\ TokenLedger(r)
  /\ r \notin faulty => Books(r)

(* The usage of a limited subscription stays within its total. *)
UsageFits == SubTotal # 0 => subUsed <= SubTotal

(* What has left the wallet is what the requests took. *)
WalletAdds == wallet = InitWallet - SumOf(paidW, Requests)

(* The inductive invariant. *)
Balanced ==
  /\ TypeOK /\ UsageFits /\ WalletAdds
  /\ \A r \in Requests : SessionFits(r) /\ CheckFits(r)

(* A step that does not concern request q. *)
Untouched(q) ==
  /\ req'[q] = req[q] /\ funding'[q] = funding[q] /\ phase'[q] = phase[q] /\ pc'[q] = pc[q]
  /\ preConsumed'[q] = preConsumed[q] /\ tokenConsumed'[q] = tokenConsumed[q]
  /\ extraReserved'[q] = extraReserved[q] /\ walletConsumed'[q] = walletConsumed[q]
  /\ subPre'[q] = subPre[q] /\ subPost'[q] = subPost[q]
  /\ op'[q] = op[q] /\ amount'[q] = amount[q] /\ rest'[q] = rest[q] /\ actual'[q] = actual[q]
  /\ paidW'[q] = paidW[q] /\ paidS'[q] = paidS[q] /\ paidT'[q] = paidT[q]
  /\ q \in faulty' <=> q \in faulty

-----------------------------------------------------------------------------
(* A step of one request keeps each part for that request. *)

(* Places, phases and fundings keep fitting. *)
LEMMA PlaceStep ==
  ASSUME TypeOK, NEW r \in Requests, Start(r) \/ Step(r),
         PlaceFits(r)
  PROVE  PlaceFits(r)'
<1> USE BillingAssumption DEF TypeOK, TypeStore, TypeSession, TypeLocal, TypeControl, TypeGhost,
        storeVars, localVars, ghostVars, sessVars, Goto, NewSession, Min2, Max2,
        PlaceFits, Running, Phases, Fundings, Labels
<1>1. CASE Start(r)
  BY <1>1 DEF Start, TrySubscription, TryWallet, NoAccess
<1>2. CASE HasActiveUserSubscription(r)
  BY <1>2 DEF HasActiveUserSubscription, TrySubscription, TryWallet, Refuse, NoAccess,
     StoreFails
<1>3. CASE WalletCheck(r)
  BY <1>3 DEF WalletCheck, Fallback, TrySubscription, TryWallet, Refuse, NoAccess,
     StoreFails
<1>4. CASE TokenCheck(r)
  BY <1>4 DEF TokenCheck, NoAccess, StoreFails, Refuse
<1>5. CASE TokenDec(r)
  BY <1>5 DEF TokenDec, DecreaseTokenQuota, OnlyToken, StoreFails, Refuse
<1>6. CASE FundWallet(r)
  BY <1>6 DEF FundWallet, DecreaseUserQuota, OnlyWallet, StoreFails, FailWith
<1>7. CASE FundSubscription(r)
  BY <1>7 DEF FundSubscription, FundErrors, PreConsumeUserSubscription, OnlySubscription, FailWith,
     NoAccess, StoreFails
<1>8. CASE FundSplit(r)
  BY <1>8 DEF FundSplit, FundErrors, PreConsumeUserSubscription, Available, OnlySubscription,
     FailWith, NoAccess, StoreFails
<1>9. CASE SplitCheck(r)
  BY <1>9 DEF SplitCheck, NoAccess, StoreFails, FailWith
<1>10. CASE SplitDec(r)
  BY <1>10 DEF SplitDec, DecreaseUserQuota, OnlyWallet, StoreFails, FailWith
<1>11. CASE SubRefund(r)
  BY <1>11 DEF SubRefund, PostConsumeUserSubscriptionDelta, OnlyUsage, StoreFails,
     RetryOrGiveUp, AfterSubRefund
<1>12. CASE SubRefundMark(r)
  BY <1>12 DEF SubRefundMark, RetryOrGiveUp, AfterSubRefund
<1>13. CASE TokRollback(r)
  BY <1>13 DEF TokRollback, NoAccess, DecreaseTokenQuota, OnlyToken, StoreFails,
     Fallback, Refuse, TrySubscription, TryWallet
<1>14. CASE AdjustWalletFunding(r)
  BY <1>14 DEF AdjustWalletFunding, DecreaseUserQuota, OnlyWallet, AdjustOk,
     AdjustError, StoreFails
<1>15. CASE AdjustSubscriptionFunding(r)
  BY <1>15 DEF AdjustSubscriptionFunding, PostConsumeUserSubscriptionDelta, OnlyUsage,
     AdjustOk, AdjustError, StoreFails, NoAccess
<1>16. CASE AdjustSplitMore(r)
  BY <1>16 DEF AdjustSplitMore, Available, OnlyUsage, AdjustOk, AdjustError, StoreFails
<1>17. CASE AdjustWallet(r)
  BY <1>17 DEF AdjustWallet, DecreaseUserQuota, OnlyWallet, AdjustOk, AdjustError,
     StoreFails
<1>18. CASE AdjustSubUndo(r)
  BY <1>18 DEF AdjustSubUndo, PostConsumeUserSubscriptionDelta, OnlyUsage, AdjustError,
     StoreFails
<1>19. CASE AdjustSplitLess(r)
  BY <1>19 DEF AdjustSplitLess, DecreaseUserQuota, OnlyWallet, AdjustOk, AdjustError,
     StoreFails, NoAccess
<1>20. CASE AdjustSub(r)
  BY <1>20 DEF AdjustSub, PostConsumeUserSubscriptionDelta, OnlyUsage, AdjustOk,
     AdjustError, StoreFails
<1>21. CASE Attempt(r)
  BY <1>21 DEF Attempt, NoAccess
<1>22. CASE ReserveTokenCheck(r)
  BY <1>22 DEF ReserveTokenCheck, Reserved, Undo, NoAccess, StoreFails
<1>23. CASE ReserveTokenDec(r)
  BY <1>23 DEF ReserveTokenDec, DecreaseTokenQuota, OnlyToken, Reserved, Undo,
     StoreFails
<1>24. CASE Settle(r)
  BY <1>24 DEF Settle, NoAccess
<1>25. CASE SettleToken(r)
  BY <1>25 DEF SettleToken, NoAccess, DecreaseTokenQuota, OnlyToken, StoreFails
<1>26. CASE UpstreamError(r)
  BY <1>26 DEF UpstreamError, NoAccess
<1>27. CASE Answered(r)
  BY <1>27 DEF Answered, NoAccess
<1>28. CASE Retry(r)
  BY <1>28 DEF Retry, NoAccess
<1>29. CASE Refund(r)
  BY <1>29 DEF Refund, NeedsRefund, NoAccess
<1>30. CASE RefundExtra(r)
  BY <1>30 DEF RefundExtra, PostConsumeUserSubscriptionDelta, OnlyUsage, StoreFails,
     NoAccess
<1>31. CASE RefundWallet(r)
  BY <1>31 DEF RefundWallet, DecreaseUserQuota, OnlyWallet, StoreFails, NoAccess
<1>32. CASE RefundToken(r)
  BY <1>32 DEF RefundToken, DecreaseTokenQuota, OnlyToken, StoreFails, NoAccess
<1>33. QED
  BY <1>1, <1>2, <1>3, <1>4, <1>5, <1>6, <1>7, <1>8, <1>9, <1>10, <1>11, <1>12, <1>13,
     <1>14, <1>15, <1>16, <1>17, <1>18, <1>19, <1>20, <1>21, <1>22, <1>23, <1>24, <1>25,
     <1>26, <1>27, <1>28, <1>29, <1>30, <1>31, <1>32 DEF Step

(* The operation in progress keeps its amount. *)
LEMMA OpStep ==
  ASSUME TypeOK, NEW r \in Requests, Start(r) \/ Step(r),
         PlaceFits(r), OpFits(r), FieldsFit(r), WalletLedger(r)
  PROVE  OpFits(r)'
<1> USE BillingAssumption DEF TypeOK, TypeStore, TypeSession, TypeLocal, TypeControl, TypeGhost,
        storeVars, localVars, ghostVars, sessVars, Goto, NewSession, Min2, Max2,
        PlaceFits, OpFits, FieldsFit, WalletLedger, Running, Fresh, TokenFree
<1>1. CASE Start(r)
  BY <1>1 DEF Start, TrySubscription, TryWallet, NoAccess
<1>2. CASE HasActiveUserSubscription(r)
  BY <1>2 DEF HasActiveUserSubscription, TrySubscription, TryWallet, Refuse, NoAccess,
     StoreFails
<1>3. CASE WalletCheck(r)
  BY <1>3 DEF WalletCheck, Fallback, TrySubscription, TryWallet, Refuse, NoAccess,
     StoreFails
<1>4. CASE TokenCheck(r)
  BY <1>4 DEF TokenCheck, NoAccess, StoreFails, Refuse
<1>5. CASE TokenDec(r)
  BY <1>5 DEF TokenDec, DecreaseTokenQuota, OnlyToken, StoreFails, Refuse
<1>6. CASE FundWallet(r)
  BY <1>6 DEF FundWallet, DecreaseUserQuota, OnlyWallet, StoreFails, FailWith
<1>7. CASE FundSubscription(r)
  BY <1>7 DEF FundSubscription, FundErrors, PreConsumeUserSubscription, OnlySubscription, FailWith,
     NoAccess, StoreFails
<1>8. CASE FundSplit(r)
  BY <1>8 DEF FundSplit, FundErrors, PreConsumeUserSubscription, Available, OnlySubscription,
     FailWith, NoAccess, StoreFails
<1>9. CASE SplitCheck(r)
  BY <1>9 DEF SplitCheck, NoAccess, StoreFails, FailWith
<1>10. CASE SplitDec(r)
  BY <1>10 DEF SplitDec, DecreaseUserQuota, OnlyWallet, StoreFails, FailWith
<1>11. CASE SubRefund(r)
  BY <1>11 DEF SubRefund, PostConsumeUserSubscriptionDelta, OnlyUsage, StoreFails,
     RetryOrGiveUp, AfterSubRefund
<1>12. CASE SubRefundMark(r)
  BY <1>12 DEF SubRefundMark, RetryOrGiveUp, AfterSubRefund
<1>13. CASE TokRollback(r)
  BY <1>13 DEF TokRollback, NoAccess, DecreaseTokenQuota, OnlyToken, StoreFails,
     Fallback, Refuse, TrySubscription, TryWallet
<1>14. CASE AdjustWalletFunding(r)
  BY <1>14 DEF AdjustWalletFunding, DecreaseUserQuota, OnlyWallet, AdjustOk,
     AdjustError, StoreFails
<1>15. CASE AdjustSubscriptionFunding(r)
  BY <1>15 DEF AdjustSubscriptionFunding, PostConsumeUserSubscriptionDelta, OnlyUsage,
     AdjustOk, AdjustError, StoreFails, NoAccess
<1>16. CASE AdjustSplitMore(r)
  BY <1>16 DEF AdjustSplitMore, Available, OnlyUsage, AdjustOk, AdjustError, StoreFails
<1>17. CASE AdjustWallet(r)
  BY <1>17 DEF AdjustWallet, DecreaseUserQuota, OnlyWallet, AdjustOk, AdjustError,
     StoreFails
<1>18. CASE AdjustSubUndo(r)
  BY <1>18 DEF AdjustSubUndo, PostConsumeUserSubscriptionDelta, OnlyUsage, AdjustError,
     StoreFails
<1>19. CASE AdjustSplitLess(r)
  BY <1>19 DEF AdjustSplitLess, DecreaseUserQuota, OnlyWallet, AdjustOk, AdjustError,
     StoreFails, NoAccess
<1>20. CASE AdjustSub(r)
  BY <1>20 DEF AdjustSub, PostConsumeUserSubscriptionDelta, OnlyUsage, AdjustOk,
     AdjustError, StoreFails
<1>21. CASE Attempt(r)
  BY <1>21 DEF Attempt, NoAccess
<1>22. CASE ReserveTokenCheck(r)
  BY <1>22 DEF ReserveTokenCheck, Reserved, Undo, NoAccess, StoreFails
<1>23. CASE ReserveTokenDec(r)
  BY <1>23 DEF ReserveTokenDec, DecreaseTokenQuota, OnlyToken, Reserved, Undo,
     StoreFails
<1>24. CASE Settle(r)
  BY <1>24 DEF Settle, NoAccess
<1>25. CASE SettleToken(r)
  BY <1>25 DEF SettleToken, NoAccess, DecreaseTokenQuota, OnlyToken, StoreFails
<1>26. CASE UpstreamError(r)
  BY <1>26 DEF UpstreamError, NoAccess
<1>27. CASE Answered(r)
  BY <1>27 DEF Answered, NoAccess
<1>28. CASE Retry(r)
  BY <1>28 DEF Retry, NoAccess
<1>29. CASE Refund(r)
  BY <1>29 DEF Refund, NeedsRefund, NoAccess
<1>30. CASE RefundExtra(r)
  BY <1>30 DEF RefundExtra, PostConsumeUserSubscriptionDelta, OnlyUsage, StoreFails,
     NoAccess
<1>31. CASE RefundWallet(r)
  BY <1>31 DEF RefundWallet, DecreaseUserQuota, OnlyWallet, StoreFails, NoAccess
<1>32. CASE RefundToken(r)
  BY <1>32 DEF RefundToken, DecreaseTokenQuota, OnlyToken, StoreFails, NoAccess
<1>33. QED
  BY <1>1, <1>2, <1>3, <1>4, <1>5, <1>6, <1>7, <1>8, <1>9, <1>10, <1>11, <1>12, <1>13,
     <1>14, <1>15, <1>16, <1>17, <1>18, <1>19, <1>20, <1>21, <1>22, <1>23, <1>24, <1>25,
     <1>26, <1>27, <1>28, <1>29, <1>30, <1>31, <1>32 DEF Step

(* The fields of a session keep fitting. *)
LEMMA FieldsStep ==
  ASSUME TypeOK, NEW r \in Requests, Start(r) \/ Step(r),
         PlaceFits(r), OpFits(r), FieldsFit(r)
  PROVE  FieldsFit(r)'
<1> USE BillingAssumption DEF TypeOK, TypeStore, TypeSession, TypeLocal, TypeControl, TypeGhost,
        storeVars, localVars, ghostVars, sessVars, Goto, NewSession, Min2, Max2,
        PlaceFits, OpFits, FieldsFit, Running, Fresh, TokenFree
<1> req[r].estimate \in Nat
  BY DEF Request
<1>1. CASE Start(r)
  BY <1>1 DEF Start, TrySubscription, TryWallet, NoAccess
<1>2. CASE HasActiveUserSubscription(r)
  BY <1>2 DEF HasActiveUserSubscription, TrySubscription, TryWallet, Refuse, NoAccess,
     StoreFails
<1>3. CASE WalletCheck(r)
  BY <1>3 DEF WalletCheck, Fallback, TrySubscription, TryWallet, Refuse, NoAccess,
     StoreFails
<1>4. CASE TokenCheck(r)
  BY <1>4 DEF TokenCheck, NoAccess, StoreFails, Refuse
<1>5. CASE TokenDec(r)
  BY <1>5 DEF TokenDec, DecreaseTokenQuota, OnlyToken, StoreFails, Refuse
<1>6. CASE FundWallet(r)
  BY <1>6 DEF FundWallet, DecreaseUserQuota, OnlyWallet, StoreFails, FailWith
<1>7. CASE FundSubscription(r)
  BY <1>7 DEF FundSubscription, FundErrors, PreConsumeUserSubscription, OnlySubscription, FailWith,
     NoAccess, StoreFails
<1>8. CASE FundSplit(r)
  <2> UsageAfterReset \in Nat
    BY DEF UsageAfterReset
  <2> QED
    BY <1>8 DEF FundSplit, FundErrors, PreConsumeUserSubscription, Available, OnlySubscription,
       FailWith, NoAccess, StoreFails
<1>9. CASE SplitCheck(r)
  BY <1>9 DEF SplitCheck, NoAccess, StoreFails, FailWith
<1>10. CASE SplitDec(r)
  BY <1>10 DEF SplitDec, DecreaseUserQuota, OnlyWallet, StoreFails, FailWith
<1>11. CASE SubRefund(r)
  BY <1>11 DEF SubRefund, PostConsumeUserSubscriptionDelta, OnlyUsage, StoreFails,
     RetryOrGiveUp, AfterSubRefund
<1>12. CASE SubRefundMark(r)
  BY <1>12 DEF SubRefundMark, RetryOrGiveUp, AfterSubRefund
<1>13. CASE TokRollback(r)
  BY <1>13 DEF TokRollback, NoAccess, DecreaseTokenQuota, OnlyToken, StoreFails,
     Fallback, Refuse, TrySubscription, TryWallet
<1>14. CASE AdjustWalletFunding(r)
  BY <1>14 DEF AdjustWalletFunding, DecreaseUserQuota, OnlyWallet, AdjustOk,
     AdjustError, StoreFails
<1>15. CASE AdjustSubscriptionFunding(r)
  BY <1>15 DEF AdjustSubscriptionFunding, PostConsumeUserSubscriptionDelta, OnlyUsage,
     AdjustOk, AdjustError, StoreFails, NoAccess
<1>16. CASE AdjustSplitMore(r)
  BY <1>16 DEF AdjustSplitMore, Available, OnlyUsage, AdjustOk, AdjustError, StoreFails
<1>17. CASE AdjustWallet(r)
  BY <1>17 DEF AdjustWallet, DecreaseUserQuota, OnlyWallet, AdjustOk, AdjustError,
     StoreFails
<1>18. CASE AdjustSubUndo(r)
  BY <1>18 DEF AdjustSubUndo, PostConsumeUserSubscriptionDelta, OnlyUsage, AdjustError,
     StoreFails
<1>19. CASE AdjustSplitLess(r)
  BY <1>19 DEF AdjustSplitLess, DecreaseUserQuota, OnlyWallet, AdjustOk, AdjustError,
     StoreFails, NoAccess
<1>20. CASE AdjustSub(r)
  BY <1>20 DEF AdjustSub, PostConsumeUserSubscriptionDelta, OnlyUsage, AdjustOk,
     AdjustError, StoreFails
<1>21. CASE Attempt(r)
  BY <1>21 DEF Attempt, NoAccess
<1>22. CASE ReserveTokenCheck(r)
  BY <1>22 DEF ReserveTokenCheck, Reserved, Undo, NoAccess, StoreFails
<1>23. CASE ReserveTokenDec(r)
  BY <1>23 DEF ReserveTokenDec, DecreaseTokenQuota, OnlyToken, Reserved, Undo,
     StoreFails
<1>24. CASE Settle(r)
  BY <1>24 DEF Settle, NoAccess
<1>25. CASE SettleToken(r)
  BY <1>25 DEF SettleToken, NoAccess, DecreaseTokenQuota, OnlyToken, StoreFails
<1>26. CASE UpstreamError(r)
  BY <1>26 DEF UpstreamError, NoAccess
<1>27. CASE Answered(r)
  BY <1>27 DEF Answered, NoAccess
<1>28. CASE Retry(r)
  BY <1>28 DEF Retry, NoAccess
<1>29. CASE Refund(r)
  BY <1>29 DEF Refund, NeedsRefund, NoAccess
<1>30. CASE RefundExtra(r)
  BY <1>30 DEF RefundExtra, PostConsumeUserSubscriptionDelta, OnlyUsage, StoreFails,
     NoAccess
<1>31. CASE RefundWallet(r)
  BY <1>31 DEF RefundWallet, DecreaseUserQuota, OnlyWallet, StoreFails, NoAccess
<1>32. CASE RefundToken(r)
  BY <1>32 DEF RefundToken, DecreaseTokenQuota, OnlyToken, StoreFails, NoAccess
<1>33. QED
  BY <1>1, <1>2, <1>3, <1>4, <1>5, <1>6, <1>7, <1>8, <1>9, <1>10, <1>11, <1>12, <1>13,
     <1>14, <1>15, <1>16, <1>17, <1>18, <1>19, <1>20, <1>21, <1>22, <1>23, <1>24, <1>25,
     <1>26, <1>27, <1>28, <1>29, <1>30, <1>31, <1>32 DEF Step

(* The wallet ledger of a request keeps up with its charges. *)
LEMMA WalletStep ==
  ASSUME TypeOK, NEW r \in Requests, Start(r) \/ Step(r),
         PlaceFits(r), OpFits(r), FieldsFit(r), WalletLedger(r)
  PROVE  WalletLedger(r)'
<1> USE BillingAssumption DEF TypeOK, TypeStore, TypeSession, TypeLocal, TypeControl, TypeGhost,
        storeVars, localVars, ghostVars, sessVars, Goto, NewSession, Min2, Max2,
        PlaceFits, OpFits, FieldsFit, WalletLedger, Ahead, Running, Fresh, Phases
<1>1. CASE Start(r)
  BY <1>1 DEF Start, TrySubscription, TryWallet, NoAccess
<1>2. CASE HasActiveUserSubscription(r)
  BY <1>2 DEF HasActiveUserSubscription, TrySubscription, TryWallet, Refuse, NoAccess,
     StoreFails
<1>3. CASE WalletCheck(r)
  BY <1>3 DEF WalletCheck, Fallback, TrySubscription, TryWallet, Refuse, NoAccess,
     StoreFails
<1>4. CASE TokenCheck(r)
  BY <1>4 DEF TokenCheck, NoAccess, StoreFails, Refuse
<1>5. CASE TokenDec(r)
  BY <1>5 DEF TokenDec, DecreaseTokenQuota, OnlyToken, StoreFails, Refuse
<1>6. CASE FundWallet(r)
  BY <1>6 DEF FundWallet, DecreaseUserQuota, OnlyWallet, StoreFails, FailWith
<1>7. CASE FundSubscription(r)
  BY <1>7 DEF FundSubscription, FundErrors, PreConsumeUserSubscription, OnlySubscription, FailWith,
     NoAccess, StoreFails
<1>8. CASE FundSplit(r)
  BY <1>8 DEF FundSplit, FundErrors, PreConsumeUserSubscription, Available, OnlySubscription,
     FailWith, NoAccess, StoreFails
<1>9. CASE SplitCheck(r)
  BY <1>9 DEF SplitCheck, NoAccess, StoreFails, FailWith
<1>10. CASE SplitDec(r)
  BY <1>10 DEF SplitDec, DecreaseUserQuota, OnlyWallet, StoreFails, FailWith
<1>11. CASE SubRefund(r)
  BY <1>11 DEF SubRefund, PostConsumeUserSubscriptionDelta, OnlyUsage, StoreFails,
     RetryOrGiveUp, AfterSubRefund
<1>12. CASE SubRefundMark(r)
  BY <1>12 DEF SubRefundMark, RetryOrGiveUp, AfterSubRefund
<1>13. CASE TokRollback(r)
  BY <1>13 DEF TokRollback, NoAccess, DecreaseTokenQuota, OnlyToken, StoreFails,
     Fallback, Refuse, TrySubscription, TryWallet
<1>14. CASE AdjustWalletFunding(r)
  BY <1>14 DEF AdjustWalletFunding, DecreaseUserQuota, OnlyWallet, AdjustOk,
     AdjustError, StoreFails
<1>15. CASE AdjustSubscriptionFunding(r)
  BY <1>15 DEF AdjustSubscriptionFunding, PostConsumeUserSubscriptionDelta, OnlyUsage,
     AdjustOk, AdjustError, StoreFails, NoAccess
<1>16. CASE AdjustSplitMore(r)
  BY <1>16 DEF AdjustSplitMore, Available, OnlyUsage, AdjustOk, AdjustError, StoreFails
<1>17. CASE AdjustWallet(r)
  BY <1>17 DEF AdjustWallet, DecreaseUserQuota, OnlyWallet, AdjustOk, AdjustError,
     StoreFails
<1>18. CASE AdjustSubUndo(r)
  BY <1>18 DEF AdjustSubUndo, PostConsumeUserSubscriptionDelta, OnlyUsage, AdjustError,
     StoreFails
<1>19. CASE AdjustSplitLess(r)
  BY <1>19 DEF AdjustSplitLess, DecreaseUserQuota, OnlyWallet, AdjustOk, AdjustError,
     StoreFails, NoAccess
<1>20. CASE AdjustSub(r)
  BY <1>20 DEF AdjustSub, PostConsumeUserSubscriptionDelta, OnlyUsage, AdjustOk,
     AdjustError, StoreFails
<1>21. CASE Attempt(r)
  BY <1>21 DEF Attempt, NoAccess
<1>22. CASE ReserveTokenCheck(r)
  BY <1>22 DEF ReserveTokenCheck, Reserved, Undo, NoAccess, StoreFails
<1>23. CASE ReserveTokenDec(r)
  BY <1>23 DEF ReserveTokenDec, DecreaseTokenQuota, OnlyToken, Reserved, Undo,
     StoreFails
<1>24. CASE Settle(r)
  BY <1>24 DEF Settle, NoAccess
<1>25. CASE SettleToken(r)
  BY <1>25 DEF SettleToken, NoAccess, DecreaseTokenQuota, OnlyToken, StoreFails
<1>26. CASE UpstreamError(r)
  BY <1>26 DEF UpstreamError, NoAccess
<1>27. CASE Answered(r)
  BY <1>27 DEF Answered, NoAccess
<1>28. CASE Retry(r)
  BY <1>28 DEF Retry, NoAccess
<1>29. CASE Refund(r)
  BY <1>29 DEF Refund, NeedsRefund, NoAccess
<1>30. CASE RefundExtra(r)
  BY <1>30 DEF RefundExtra, PostConsumeUserSubscriptionDelta, OnlyUsage, StoreFails,
     NoAccess
<1>31. CASE RefundWallet(r)
  BY <1>31 DEF RefundWallet, DecreaseUserQuota, OnlyWallet, StoreFails, NoAccess
<1>32. CASE RefundToken(r)
  BY <1>32 DEF RefundToken, DecreaseTokenQuota, OnlyToken, StoreFails, NoAccess
<1>33. QED
  BY <1>1, <1>2, <1>3, <1>4, <1>5, <1>6, <1>7, <1>8, <1>9, <1>10, <1>11, <1>12, <1>13,
     <1>14, <1>15, <1>16, <1>17, <1>18, <1>19, <1>20, <1>21, <1>22, <1>23, <1>24, <1>25,
     <1>26, <1>27, <1>28, <1>29, <1>30, <1>31, <1>32 DEF Step

(* The token ledger of a request keeps up with its charges. *)
LEMMA TokenStep ==
  ASSUME TypeOK, NEW r \in Requests, Start(r) \/ Step(r),
         PlaceFits(r), OpFits(r), FieldsFit(r), TokenLedger(r)
  PROVE  TokenLedger(r)'
<1> USE BillingAssumption DEF TypeOK, TypeStore, TypeSession, TypeLocal, TypeControl, TypeGhost,
        storeVars, localVars, ghostVars, sessVars, Goto, NewSession, Min2, Max2,
        PlaceFits, OpFits, FieldsFit, TokenLedger, TokenShare, TokenFree, Running, Fresh
<1>1. CASE Start(r)
  BY <1>1 DEF Start, TrySubscription, TryWallet, NoAccess
<1>2. CASE HasActiveUserSubscription(r)
  BY <1>2 DEF HasActiveUserSubscription, TrySubscription, TryWallet, Refuse, NoAccess,
     StoreFails
<1>3. CASE WalletCheck(r)
  BY <1>3 DEF WalletCheck, Fallback, TrySubscription, TryWallet, Refuse, NoAccess,
     StoreFails
<1>4. CASE TokenCheck(r)
  BY <1>4 DEF TokenCheck, NoAccess, StoreFails, Refuse
<1>5. CASE TokenDec(r)
  BY <1>5 DEF TokenDec, DecreaseTokenQuota, OnlyToken, StoreFails, Refuse
<1>6. CASE FundWallet(r)
  BY <1>6 DEF FundWallet, DecreaseUserQuota, OnlyWallet, StoreFails, FailWith
<1>7. CASE FundSubscription(r)
  BY <1>7 DEF FundSubscription, FundErrors, PreConsumeUserSubscription, OnlySubscription, FailWith,
     NoAccess, StoreFails
<1>8. CASE FundSplit(r)
  BY <1>8 DEF FundSplit, FundErrors, PreConsumeUserSubscription, Available, OnlySubscription,
     FailWith, NoAccess, StoreFails
<1>9. CASE SplitCheck(r)
  BY <1>9 DEF SplitCheck, NoAccess, StoreFails, FailWith
<1>10. CASE SplitDec(r)
  BY <1>10 DEF SplitDec, DecreaseUserQuota, OnlyWallet, StoreFails, FailWith
<1>11. CASE SubRefund(r)
  BY <1>11 DEF SubRefund, PostConsumeUserSubscriptionDelta, OnlyUsage, StoreFails,
     RetryOrGiveUp, AfterSubRefund
<1>12. CASE SubRefundMark(r)
  BY <1>12 DEF SubRefundMark, RetryOrGiveUp, AfterSubRefund
<1>13. CASE TokRollback(r)
  BY <1>13 DEF TokRollback, NoAccess, DecreaseTokenQuota, OnlyToken, StoreFails,
     Fallback, Refuse, TrySubscription, TryWallet
<1>14. CASE AdjustWalletFunding(r)
  BY <1>14 DEF AdjustWalletFunding, DecreaseUserQuota, OnlyWallet, AdjustOk,
     AdjustError, StoreFails
<1>15. CASE AdjustSubscriptionFunding(r)
  BY <1>15 DEF AdjustSubscriptionFunding, PostConsumeUserSubscriptionDelta, OnlyUsage,
     AdjustOk, AdjustError, StoreFails, NoAccess
<1>16. CASE AdjustSplitMore(r)
  BY <1>16 DEF AdjustSplitMore, Available, OnlyUsage, AdjustOk, AdjustError, StoreFails
<1>17. CASE AdjustWallet(r)
  BY <1>17 DEF AdjustWallet, DecreaseUserQuota, OnlyWallet, AdjustOk, AdjustError,
     StoreFails
<1>18. CASE AdjustSubUndo(r)
  BY <1>18 DEF AdjustSubUndo, PostConsumeUserSubscriptionDelta, OnlyUsage, AdjustError,
     StoreFails
<1>19. CASE AdjustSplitLess(r)
  BY <1>19 DEF AdjustSplitLess, DecreaseUserQuota, OnlyWallet, AdjustOk, AdjustError,
     StoreFails, NoAccess
<1>20. CASE AdjustSub(r)
  BY <1>20 DEF AdjustSub, PostConsumeUserSubscriptionDelta, OnlyUsage, AdjustOk,
     AdjustError, StoreFails
<1>21. CASE Attempt(r)
  BY <1>21 DEF Attempt, NoAccess
<1>22. CASE ReserveTokenCheck(r)
  BY <1>22 DEF ReserveTokenCheck, Reserved, Undo, NoAccess, StoreFails
<1>23. CASE ReserveTokenDec(r)
  BY <1>23 DEF ReserveTokenDec, DecreaseTokenQuota, OnlyToken, Reserved, Undo,
     StoreFails
<1>24. CASE Settle(r)
  BY <1>24 DEF Settle, NoAccess
<1>25. CASE SettleToken(r)
  BY <1>25 DEF SettleToken, NoAccess, DecreaseTokenQuota, OnlyToken, StoreFails
<1>26. CASE UpstreamError(r)
  BY <1>26 DEF UpstreamError, NoAccess
<1>27. CASE Answered(r)
  BY <1>27 DEF Answered, NoAccess
<1>28. CASE Retry(r)
  BY <1>28 DEF Retry, NoAccess
<1>29. CASE Refund(r)
  BY <1>29 DEF Refund, NeedsRefund, NoAccess
<1>30. CASE RefundExtra(r)
  BY <1>30 DEF RefundExtra, PostConsumeUserSubscriptionDelta, OnlyUsage, StoreFails,
     NoAccess
<1>31. CASE RefundWallet(r)
  BY <1>31 DEF RefundWallet, DecreaseUserQuota, OnlyWallet, StoreFails, NoAccess
<1>32. CASE RefundToken(r)
  BY <1>32 DEF RefundToken, DecreaseTokenQuota, OnlyToken, StoreFails, NoAccess
<1>33. QED
  BY <1>1, <1>2, <1>3, <1>4, <1>5, <1>6, <1>7, <1>8, <1>9, <1>10, <1>11, <1>12, <1>13,
     <1>14, <1>15, <1>16, <1>17, <1>18, <1>19, <1>20, <1>21, <1>22, <1>23, <1>24, <1>25,
     <1>26, <1>27, <1>28, <1>29, <1>30, <1>31, <1>32 DEF Step

(* The books of a request balance at every step that succeeds. *)
LEMMA BooksStep ==
  ASSUME TypeOK, NEW r \in Requests, Start(r) \/ Step(r),
         PlaceFits(r), OpFits(r), FieldsFit(r), WalletLedger(r), TokenLedger(r),
         UsageFits, r \notin faulty => Books(r), r \notin faulty'
  PROVE  Books(r)'
<1> USE BillingAssumption DEF TypeOK, TypeStore, TypeSession, TypeLocal, TypeControl, TypeGhost,
        storeVars, localVars, ghostVars, sessVars, Goto, NewSession, Min2, Max2,
        PlaceFits, OpFits, FieldsFit, WalletLedger, TokenLedger, Books, Ahead,
        Charge, Extra, TokenShare, TokenFree, UsageFits, Running, Fresh, Phases, Fundings
<1>1. CASE Start(r)
  BY <1>1 DEF Start, TrySubscription, TryWallet, NoAccess
<1>2. CASE HasActiveUserSubscription(r)
  BY <1>2 DEF HasActiveUserSubscription, TrySubscription, TryWallet, Refuse, NoAccess,
     StoreFails
<1>3. CASE WalletCheck(r)
  BY <1>3 DEF WalletCheck, Fallback, TrySubscription, TryWallet, Refuse, NoAccess,
     StoreFails
<1>4. CASE TokenCheck(r)
  BY <1>4 DEF TokenCheck, NoAccess, StoreFails, Refuse
<1>5. CASE TokenDec(r)
  BY <1>5 DEF TokenDec, DecreaseTokenQuota, OnlyToken, StoreFails, Refuse
<1>6. CASE FundWallet(r)
  BY <1>6 DEF FundWallet, DecreaseUserQuota, OnlyWallet, StoreFails, FailWith
<1>7. CASE FundSubscription(r)
  BY <1>7 DEF FundSubscription, FundErrors, PreConsumeUserSubscription, OnlySubscription, FailWith,
     NoAccess, StoreFails
<1>8. CASE FundSplit(r)
  <2> UsageAfterReset \in Nat
    BY DEF UsageAfterReset
  <2>1. PICK part \in Nat :
          /\ part <= amount[r]
          /\ \/ /\ paidS'[r] = paidS[r] + part /\ subPre'[r] = part /\ part > 0
                /\ rest'[r] = amount[r] - part
                /\ preConsumed'[r] = IF part = amount[r] THEN part ELSE 0
                /\ pc'[r] = IF part = amount[r] THEN "attempt" ELSE "splitCheck"
             \/ paidS'[r] = paidS[r] /\ pc'[r] = "tokRollback"
    <3> DEFINE part == Available(UsageAfterReset, amount[r])
    <3>1. part \in Nat /\ part <= amount[r]
      BY <1>8 DEF FundSplit, FundErrors, Available
    <3>2. \/ /\ paidS'[r] = paidS[r] + part /\ subPre'[r] = part /\ part > 0
             /\ rest'[r] = amount[r] - part
             /\ preConsumed'[r] = IF part = amount[r] THEN part ELSE 0
             /\ pc'[r] = IF part = amount[r] THEN "attempt" ELSE "splitCheck"
          \/ paidS'[r] = paidS[r] /\ pc'[r] = "tokRollback"
      BY <1>8 DEF FundSplit, FundErrors, PreConsumeUserSubscription, NoAccess, StoreFails
    <3> HIDE DEF part
    <3> QED BY <3>1, <3>2
  <2>2. /\ pc[r] = "fund" /\ funding[r] = "split" /\ r \notin faulty
        /\ paidW'[r] = paidW[r] /\ funding'[r] = funding[r] /\ phase'[r] = phase[r]
        /\ subPost'[r] = subPost[r] /\ amount'[r] = amount[r]
    BY <1>8 DEF FundSplit, FundErrors, PreConsumeUserSubscription, OnlySubscription, NoAccess, StoreFails
  <2> QED
    BY <2>1, <2>2
<1>9. CASE SplitCheck(r)
  BY <1>9 DEF SplitCheck, NoAccess, StoreFails, FailWith
<1>10. CASE SplitDec(r)
  BY <1>10 DEF SplitDec, DecreaseUserQuota, OnlyWallet, StoreFails, FailWith
<1>11. CASE SubRefund(r)
  BY <1>11 DEF SubRefund, PostConsumeUserSubscriptionDelta, OnlyUsage, StoreFails,
     RetryOrGiveUp, AfterSubRefund
<1>12. CASE SubRefundMark(r)
  BY <1>12 DEF SubRefundMark, RetryOrGiveUp, AfterSubRefund
<1>13. CASE TokRollback(r)
  BY <1>13 DEF TokRollback, NoAccess, DecreaseTokenQuota, OnlyToken, StoreFails,
     Fallback, Refuse, TrySubscription, TryWallet
<1>14. CASE AdjustWalletFunding(r)
  BY <1>14 DEF AdjustWalletFunding, DecreaseUserQuota, OnlyWallet, AdjustOk,
     AdjustError, StoreFails
<1>15. CASE AdjustSubscriptionFunding(r)
  <2> ~DeltaFits(amount[r]) => amount[r] > 0
    BY DEF DeltaFits
  <2> QED
    BY <1>15, SMTT(40) DEF AdjustSubscriptionFunding, PostConsumeUserSubscriptionDelta,
     OnlyUsage, AdjustOk, AdjustError, StoreFails, NoAccess
<1>16. CASE AdjustSplitMore(r)
  <2>1. PICK part \in Nat :
          /\ part <= amount[r]
          /\ paidS'[r] = paidS[r] + part /\ subPost'[r] = subPost[r] + part
          /\ rest'[r] = amount[r] - part
          /\ part # amount[r] => pc'[r] = "adjustWallet" /\ phase'[r] = phase[r]
          /\ part = amount[r] =>
               /\ phase'[r] = IF op[r] = "settle" THEN "fundingSettled" ELSE phase[r]
               /\ pc'[r] = IF op[r] = "reserve" THEN "resTokenCheck"
                           ELSE IF op[r] = "settle" THEN "setToken" ELSE "giveUp"
    <3> DEFINE part == Available(subUsed, amount[r])
    <3>1. part \in Nat /\ part <= amount[r]
      BY <1>16 DEF AdjustSplitMore, Available
    <3>2. /\ paidS'[r] = paidS[r] + part /\ subPost'[r] = subPost[r] + part
          /\ rest'[r] = amount[r] - part
          /\ part # amount[r] => pc'[r] = "adjustWallet" /\ phase'[r] = phase[r]
          /\ part = amount[r] =>
               /\ phase'[r] = IF op[r] = "settle" THEN "fundingSettled" ELSE phase[r]
               /\ pc'[r] = IF op[r] = "reserve" THEN "resTokenCheck"
                           ELSE IF op[r] = "settle" THEN "setToken" ELSE "giveUp"
      BY <1>16 DEF AdjustSplitMore, AdjustOk, StoreFails
    <3> HIDE DEF part
    <3> QED BY <3>1, <3>2
  <2>2. /\ pc[r] = "adjust" /\ funding[r] = "split" /\ r \notin faulty /\ amount[r] > 0
        /\ paidW'[r] = paidW[r] /\ funding'[r] = funding[r] /\ subPre'[r] = subPre[r]
        /\ amount'[r] = amount[r] /\ op'[r] = op[r] /\ preConsumed'[r] = preConsumed[r]
    BY <1>16 DEF AdjustSplitMore, OnlyUsage, StoreFails
  <2>3. /\ phase[r] = "open" /\ Charge(r) = preConsumed[r] + Ahead(r)
        /\ paidS[r] = subPre[r] + subPost[r] /\ subPost[r] >= 0 /\ paidS[r] >= 0
    BY <2>2
  <2>4. /\ Ahead(r) = IF op[r] = "undo" THEN - amount[r] ELSE 0
        /\ op[r] = "undo" => amount[r] < 0
        /\ op[r] = "reserve" => amount[r] > 0
        /\ op[r] \in {"undo", "reserve", "settle"}
    BY <2>2
  <2>5. /\ paidW[r] \in Int /\ paidS[r] \in Int /\ subPre[r] \in Int /\ subPost[r] \in Int
        /\ amount[r] \in Int /\ preConsumed[r] \in Int
    OBVIOUS
  <2> HIDE DEF TypeOK, PlaceFits, OpFits, FieldsFit, WalletLedger, TokenLedger
  <2>6. Charge(r)' = preConsumed'[r] + Ahead(r)'
    BY <2>1, <2>2, <2>3, <2>4, <2>5
  <2> QED
    BY <2>1, <2>2, <2>3, <2>4, <2>5, <2>6
<1>17. CASE AdjustWallet(r)
  <2>1. /\ pc[r] = "adjustWallet" /\ r \notin faulty
        /\ paidW'[r] = paidW[r] + rest[r] /\ paidS'[r] = paidS[r]
        /\ funding'[r] = funding[r] /\ subPre'[r] = subPre[r] /\ subPost'[r] = subPost[r]
        /\ rest'[r] = rest[r] /\ amount'[r] = amount[r] /\ op'[r] = op[r]
        /\ preConsumed'[r] = preConsumed[r]
        /\ phase'[r] = IF op[r] = "settle" THEN "fundingSettled" ELSE phase[r]
        /\ pc'[r] = IF op[r] = "reserve" THEN "resTokenCheck"
                    ELSE IF op[r] = "settle" THEN "setToken" ELSE "giveUp"
    BY <1>17 DEF AdjustWallet, DecreaseUserQuota, OnlyWallet, AdjustOk, StoreFails
  <2>2. /\ phase[r] = "open" /\ funding[r] = "split"
        /\ Charge(r) = preConsumed[r] + amount[r] - rest[r]
        /\ paidS[r] = subPre[r] + subPost[r] /\ subPost[r] >= 0 /\ paidS[r] >= 0
        /\ amount[r] > 0 /\ op[r] \in {"reserve", "settle"}
    BY <2>1
  <2>3. /\ paidW[r] \in Int /\ paidS[r] \in Int /\ subPre[r] \in Int /\ subPost[r] \in Int
        /\ amount[r] \in Int /\ preConsumed[r] \in Int /\ rest[r] \in Int
    OBVIOUS
  <2> HIDE DEF TypeOK, PlaceFits, OpFits, FieldsFit, WalletLedger, TokenLedger
  <2>4. Charge(r)' = preConsumed'[r] + Ahead(r)'
    BY <2>1, <2>2, <2>3
  <2> QED
    BY <2>1, <2>2, <2>3, <2>4
<1>18. CASE AdjustSubUndo(r)
  BY <1>18, SMTT(40) DEF AdjustSubUndo, PostConsumeUserSubscriptionDelta, OnlyUsage,
     AdjustError, StoreFails
<1>19. CASE AdjustSplitLess(r)
  <2>1. PICK back \in Nat :
          /\ back <= - amount[r] /\ back <= walletConsumed[r]
          /\ paidW'[r] = paidW[r] - back /\ rest'[r] = - amount[r] - back
          /\ back # - amount[r] => pc'[r] = "adjustSub" /\ phase'[r] = phase[r]
          /\ back = - amount[r] =>
               /\ phase'[r] = IF op[r] = "settle" THEN "fundingSettled" ELSE phase[r]
               /\ pc'[r] = IF op[r] = "reserve" THEN "resTokenCheck"
                           ELSE IF op[r] = "settle" THEN "setToken" ELSE "giveUp"
    <3> DEFINE back == Min2(- amount[r], Max2(0, walletConsumed[r]))
    <3>1. back \in Nat /\ back <= - amount[r] /\ back <= walletConsumed[r]
      BY <1>19 DEF AdjustSplitLess
    <3>2. /\ paidW'[r] = paidW[r] - back /\ rest'[r] = - amount[r] - back
          /\ back # - amount[r] => pc'[r] = "adjustSub" /\ phase'[r] = phase[r]
          /\ back = - amount[r] =>
               /\ phase'[r] = IF op[r] = "settle" THEN "fundingSettled" ELSE phase[r]
               /\ pc'[r] = IF op[r] = "reserve" THEN "resTokenCheck"
                           ELSE IF op[r] = "settle" THEN "setToken" ELSE "giveUp"
      BY <1>19 DEF AdjustSplitLess, DecreaseUserQuota, AdjustOk, NoAccess, StoreFails
    <3> HIDE DEF back
    <3> QED BY <3>1, <3>2
  <2>2. /\ pc[r] = "adjust" /\ funding[r] = "split" /\ r \notin faulty /\ amount[r] < 0
        /\ paidS'[r] = paidS[r] /\ funding'[r] = funding[r] /\ subPre'[r] = subPre[r]
        /\ subPost'[r] = subPost[r]
        /\ amount'[r] = amount[r] /\ op'[r] = op[r] /\ preConsumed'[r] = preConsumed[r]
    BY <1>19 DEF AdjustSplitLess, OnlyWallet, NoAccess, StoreFails
  <2>3. /\ phase[r] = "open" /\ Charge(r) = preConsumed[r] + Ahead(r)
        /\ paidS[r] = subPre[r] + subPost[r] /\ subPost[r] >= 0 /\ paidS[r] >= 0
    BY <2>2
  <2>4. /\ Ahead(r) = IF op[r] = "undo" THEN - amount[r] ELSE 0
        /\ op[r] = "undo" => amount[r] < 0
        /\ op[r] = "reserve" => amount[r] > 0
        /\ op[r] \in {"undo", "reserve", "settle"}
    BY <2>2
  <2>5. /\ paidW[r] \in Int /\ paidS[r] \in Int /\ subPre[r] \in Int /\ subPost[r] \in Int
        /\ amount[r] \in Int /\ preConsumed[r] \in Int
    OBVIOUS
  <2> HIDE DEF TypeOK, PlaceFits, OpFits, FieldsFit, WalletLedger, TokenLedger
  <2>6. Charge(r)' = preConsumed'[r] + Ahead(r)'
    BY <2>1, <2>2, <2>3, <2>4, <2>5
  <2> QED
    BY <2>1, <2>2, <2>3, <2>4, <2>5, <2>6
<1>20. CASE AdjustSub(r)
  BY <1>20 DEF AdjustSub, PostConsumeUserSubscriptionDelta, OnlyUsage, AdjustOk,
     AdjustError, StoreFails
<1>21. CASE Attempt(r)
  BY <1>21 DEF Attempt, NoAccess
<1>22. CASE ReserveTokenCheck(r)
  <2>1. /\ pc[r] = "resTokenCheck" /\ r \notin faulty
        /\ paidW'[r] = paidW[r] /\ paidS'[r] = paidS[r]
        /\ funding'[r] = funding[r] /\ subPre'[r] = subPre[r] /\ subPost'[r] = subPost[r]
        /\ phase'[r] = phase[r]
        /\ \/ pc'[r] = "upstream" /\ preConsumed'[r] = preConsumed[r] + amount[r]
           \/ /\ pc'[r] = "resTokenDec" /\ preConsumed'[r] = preConsumed[r]
              /\ amount'[r] = amount[r]
           \/ /\ pc'[r] = "adjust" /\ preConsumed'[r] = preConsumed[r]
              /\ amount'[r] = - amount[r] /\ op'[r] = "undo"
    BY <1>22 DEF ReserveTokenCheck, Reserved, Undo, NoAccess, StoreFails
  <2>2. /\ phase[r] = "open" /\ Charge(r) = preConsumed[r] + amount[r] /\ paidS[r] >= 0
        /\ funding[r] = "wallet" => paidS[r] = 0
        /\ funding[r] = "split" => paidS[r] = subPre[r] + subPost[r] /\ subPost[r] >= 0
    BY <2>1
  <2>3. /\ paidW[r] \in Int /\ paidS[r] \in Int /\ subPre[r] \in Int /\ subPost[r] \in Int
        /\ amount[r] \in Int /\ preConsumed[r] \in Int
    OBVIOUS
  <2> HIDE DEF TypeOK, PlaceFits, OpFits, FieldsFit, WalletLedger, TokenLedger
  <2>4. Charge(r)' = preConsumed'[r] + Ahead(r)'
    BY <2>1, <2>2, <2>3
  <2> QED
    BY <2>1, <2>2, <2>3, <2>4
<1>23. CASE ReserveTokenDec(r)
  BY <1>23 DEF ReserveTokenDec, DecreaseTokenQuota, OnlyToken, Reserved, Undo,
     StoreFails
<1>24. CASE Settle(r)
  BY <1>24, SMTT(40) DEF Settle, NoAccess
<1>25. CASE SettleToken(r)
  BY <1>25 DEF SettleToken, NoAccess, DecreaseTokenQuota, OnlyToken, StoreFails
<1>26. CASE UpstreamError(r)
  BY <1>26 DEF UpstreamError, NoAccess
<1>27. CASE Answered(r)
  BY <1>27 DEF Answered, NoAccess
<1>28. CASE Retry(r)
  BY <1>28 DEF Retry, NoAccess
<1>29. CASE Refund(r)
  <2>1. /\ pc[r] \in {"attemptFailed", "giveUp"} /\ r \notin faulty
        /\ paidW'[r] = paidW[r] /\ paidS'[r] = paidS[r] /\ paidT'[r] = paidT[r]
        /\ funding'[r] = funding[r] /\ subPre'[r] = subPre[r] /\ subPost'[r] = subPost[r]
        /\ extraReserved'[r] = extraReserved[r] /\ preConsumed'[r] = preConsumed[r]
        /\ req'[r] = req[r] /\ actual'[r] = actual[r]
        /\ \/ /\ phase[r] = "open" /\ phase'[r] = "refunded"
              /\ pc'[r] = IF funding[r] = "wallet" THEN "rfWallet" ELSE "subRefund"
           \/ ~NeedsRefund(r) /\ phase'[r] = phase[r] /\ pc'[r] = "failed"
    BY <1>29 DEF Refund, NeedsRefund, NoAccess
  <2>2. CASE phase[r] = "settled"
    BY <2>1, <2>2 DEF NeedsRefund
  <2>3. CASE phase[r] # "settled"
    <3>1. /\ phase[r] = "open" /\ funding[r] \in {"wallet", "subscription", "split"}
          /\ Charge(r) = preConsumed[r] /\ paidT[r] = tokenConsumed[r] /\ paidS[r] >= 0
      BY <2>1, <2>3
    <3>2. /\ funding[r] = "wallet" => paidS[r] = 0
          /\ funding[r] = "split" => paidS[r] = subPre[r] + subPost[r] /\ subPost[r] >= 0
          /\ funding[r] = "subscription" =>
               paidW[r] = 0 /\ subPre[r] + extraReserved[r] = preConsumed[r] /\ extraReserved[r] >= 0
      BY <2>1, <2>3
    <3>3. ~NeedsRefund(r) => funding[r] = "wallet" /\ tokenConsumed[r] = 0
      BY <2>1, <3>1 DEF NeedsRefund
    <3>4. ~NeedsRefund(r) =>
            funding[r] = "wallet" /\ paidT[r] = 0 /\ (Charge(r) = 0 \/ TokenFree(r))
      BY <2>1, <3>1, <3>3
    <3>5. /\ paidW[r] \in Int /\ paidS[r] \in Int /\ subPre[r] \in Int /\ subPost[r] \in Int
          /\ extraReserved[r] \in Int /\ preConsumed[r] \in Int
      OBVIOUS
    <3> HIDE DEF TypeOK, PlaceFits, OpFits, FieldsFit, WalletLedger, TokenLedger
    <3>6. CASE NeedsRefund(r) /\ phase'[r] = "refunded"
      BY <2>1, <3>1, <3>2, <3>5, <3>6
    <3>7. CASE phase'[r] # "refunded"
      BY <2>1, <3>1, <3>2, <3>4, <3>5, <3>7
    <3> QED BY <2>1, <3>6, <3>7, <3>1, <3>2, <3>5
  <2> QED
    BY <2>2, <2>3
<1>30. CASE RefundExtra(r)
  BY <1>30 DEF RefundExtra, PostConsumeUserSubscriptionDelta, OnlyUsage, StoreFails,
     NoAccess
<1>31. CASE RefundWallet(r)
  BY <1>31 DEF RefundWallet, DecreaseUserQuota, OnlyWallet, StoreFails, NoAccess
<1>32. CASE RefundToken(r)
  BY <1>32 DEF RefundToken, DecreaseTokenQuota, OnlyToken, StoreFails, NoAccess
<1>33. QED
  BY <1>1, <1>2, <1>3, <1>4, <1>5, <1>6, <1>7, <1>8, <1>9, <1>10, <1>11, <1>12, <1>13,
     <1>14, <1>15, <1>16, <1>17, <1>18, <1>19, <1>20, <1>21, <1>22, <1>23, <1>24, <1>25,
     <1>26, <1>27, <1>28, <1>29, <1>30, <1>31, <1>32 DEF Step

(* No step takes the usage beyond the total. *)
LEMMA UsageStep ==
  ASSUME TypeOK, NEW r \in Requests, Start(r) \/ Step(r),
         UsageFits
  PROVE  UsageFits'
<1> USE BillingAssumption DEF TypeOK, TypeStore, TypeSession, TypeLocal, TypeControl, TypeGhost,
        storeVars, localVars, ghostVars, sessVars, Goto, NewSession, Min2, Max2,
        UsageFits, UsageAfterReset, Available, DeltaFits
<1>1. CASE Start(r)
  BY <1>1 DEF Start, TrySubscription, TryWallet, NoAccess
<1>2. CASE HasActiveUserSubscription(r)
  BY <1>2 DEF HasActiveUserSubscription, TrySubscription, TryWallet, Refuse, NoAccess,
     StoreFails
<1>3. CASE WalletCheck(r)
  BY <1>3 DEF WalletCheck, Fallback, TrySubscription, TryWallet, Refuse, NoAccess,
     StoreFails
<1>4. CASE TokenCheck(r)
  BY <1>4 DEF TokenCheck, NoAccess, StoreFails, Refuse
<1>5. CASE TokenDec(r)
  BY <1>5 DEF TokenDec, DecreaseTokenQuota, OnlyToken, StoreFails, Refuse
<1>6. CASE FundWallet(r)
  BY <1>6 DEF FundWallet, DecreaseUserQuota, OnlyWallet, StoreFails, FailWith
<1>7. CASE FundSubscription(r)
  BY <1>7 DEF FundSubscription, FundErrors, PreConsumeUserSubscription, OnlySubscription, FailWith,
     NoAccess, StoreFails
<1>8. CASE FundSplit(r)
  BY <1>8 DEF FundSplit, FundErrors, PreConsumeUserSubscription, Available, OnlySubscription,
     FailWith, NoAccess, StoreFails
<1>9. CASE SplitCheck(r)
  BY <1>9 DEF SplitCheck, NoAccess, StoreFails, FailWith
<1>10. CASE SplitDec(r)
  BY <1>10 DEF SplitDec, DecreaseUserQuota, OnlyWallet, StoreFails, FailWith
<1>11. CASE SubRefund(r)
  BY <1>11 DEF SubRefund, PostConsumeUserSubscriptionDelta, OnlyUsage, StoreFails,
     RetryOrGiveUp, AfterSubRefund
<1>12. CASE SubRefundMark(r)
  BY <1>12 DEF SubRefundMark, RetryOrGiveUp, AfterSubRefund
<1>13. CASE TokRollback(r)
  BY <1>13 DEF TokRollback, NoAccess, DecreaseTokenQuota, OnlyToken, StoreFails,
     Fallback, Refuse, TrySubscription, TryWallet
<1>14. CASE AdjustWalletFunding(r)
  BY <1>14 DEF AdjustWalletFunding, DecreaseUserQuota, OnlyWallet, AdjustOk,
     AdjustError, StoreFails
<1>15. CASE AdjustSubscriptionFunding(r)
  BY <1>15 DEF AdjustSubscriptionFunding, PostConsumeUserSubscriptionDelta, OnlyUsage,
     AdjustOk, AdjustError, StoreFails, NoAccess
<1>16. CASE AdjustSplitMore(r)
  BY <1>16 DEF AdjustSplitMore, Available, OnlyUsage, AdjustOk, AdjustError, StoreFails
<1>17. CASE AdjustWallet(r)
  BY <1>17 DEF AdjustWallet, DecreaseUserQuota, OnlyWallet, AdjustOk, AdjustError,
     StoreFails
<1>18. CASE AdjustSubUndo(r)
  BY <1>18 DEF AdjustSubUndo, PostConsumeUserSubscriptionDelta, OnlyUsage, AdjustError,
     StoreFails
<1>19. CASE AdjustSplitLess(r)
  BY <1>19 DEF AdjustSplitLess, DecreaseUserQuota, OnlyWallet, AdjustOk, AdjustError,
     StoreFails, NoAccess
<1>20. CASE AdjustSub(r)
  BY <1>20 DEF AdjustSub, PostConsumeUserSubscriptionDelta, OnlyUsage, AdjustOk,
     AdjustError, StoreFails
<1>21. CASE Attempt(r)
  BY <1>21 DEF Attempt, NoAccess
<1>22. CASE ReserveTokenCheck(r)
  BY <1>22 DEF ReserveTokenCheck, Reserved, Undo, NoAccess, StoreFails
<1>23. CASE ReserveTokenDec(r)
  BY <1>23 DEF ReserveTokenDec, DecreaseTokenQuota, OnlyToken, Reserved, Undo,
     StoreFails
<1>24. CASE Settle(r)
  BY <1>24 DEF Settle, NoAccess
<1>25. CASE SettleToken(r)
  BY <1>25 DEF SettleToken, NoAccess, DecreaseTokenQuota, OnlyToken, StoreFails
<1>26. CASE UpstreamError(r)
  BY <1>26 DEF UpstreamError, NoAccess
<1>27. CASE Answered(r)
  BY <1>27 DEF Answered, NoAccess
<1>28. CASE Retry(r)
  BY <1>28 DEF Retry, NoAccess
<1>29. CASE Refund(r)
  BY <1>29 DEF Refund, NeedsRefund, NoAccess
<1>30. CASE RefundExtra(r)
  BY <1>30 DEF RefundExtra, PostConsumeUserSubscriptionDelta, OnlyUsage, StoreFails,
     NoAccess
<1>31. CASE RefundWallet(r)
  BY <1>31 DEF RefundWallet, DecreaseUserQuota, OnlyWallet, StoreFails, NoAccess
<1>32. CASE RefundToken(r)
  BY <1>32 DEF RefundToken, DecreaseTokenQuota, OnlyToken, StoreFails, NoAccess
<1>33. QED
  BY <1>1, <1>2, <1>3, <1>4, <1>5, <1>6, <1>7, <1>8, <1>9, <1>10, <1>11, <1>12, <1>13,
     <1>14, <1>15, <1>16, <1>17, <1>18, <1>19, <1>20, <1>21, <1>22, <1>23, <1>24, <1>25,
     <1>26, <1>27, <1>28, <1>29, <1>30, <1>31, <1>32 DEF Step

(* A charge to the wallet is checked before it is taken. *)
LEMMA CheckStep ==
  ASSUME TypeOK, NEW r \in Requests, Start(r) \/ Step(r),
         PlaceFits(r), FieldsFit(r), WalletLedger(r), CheckFits(r), wallet <= InitWallet
  PROVE  CheckFits(r)'
<1> USE BillingAssumption DEF TypeOK, TypeStore, TypeSession, TypeLocal, TypeControl, TypeGhost,
        storeVars, localVars, ghostVars, sessVars, Goto, NewSession, Min2, Max2,
        PlaceFits, FieldsFit, WalletLedger, CheckFits, CheckedPart, WalletEnough, Running,
        Fresh, Phases
<1> req[r].estimate \in Nat
  BY DEF Request
<1>1. CASE Start(r)
  BY <1>1 DEF Start, TrySubscription, TryWallet, NoAccess
<1>2. CASE HasActiveUserSubscription(r)
  BY <1>2 DEF HasActiveUserSubscription, TrySubscription, TryWallet, Refuse, NoAccess,
     StoreFails
<1>3. CASE WalletCheck(r)
  BY <1>3 DEF WalletCheck, Fallback, TrySubscription, TryWallet, Refuse, NoAccess,
     StoreFails
<1>4. CASE TokenCheck(r)
  BY <1>4 DEF TokenCheck, NoAccess, StoreFails, Refuse
<1>5. CASE TokenDec(r)
  BY <1>5 DEF TokenDec, DecreaseTokenQuota, OnlyToken, StoreFails, Refuse
<1>6. CASE FundWallet(r)
  BY <1>6 DEF FundWallet, DecreaseUserQuota, OnlyWallet, StoreFails, FailWith
<1>7. CASE FundSubscription(r)
  BY <1>7 DEF FundSubscription, FundErrors, PreConsumeUserSubscription, OnlySubscription, FailWith,
     NoAccess, StoreFails
<1>8. CASE FundSplit(r)
  BY <1>8 DEF FundSplit, FundErrors, PreConsumeUserSubscription, Available, OnlySubscription,
     FailWith, NoAccess, StoreFails
<1>9. CASE SplitCheck(r)
  BY <1>9 DEF SplitCheck, NoAccess, StoreFails, FailWith
<1>10. CASE SplitDec(r)
  BY <1>10 DEF SplitDec, DecreaseUserQuota, OnlyWallet, StoreFails, FailWith
<1>11. CASE SubRefund(r)
  BY <1>11 DEF SubRefund, PostConsumeUserSubscriptionDelta, OnlyUsage, StoreFails,
     RetryOrGiveUp, AfterSubRefund
<1>12. CASE SubRefundMark(r)
  BY <1>12 DEF SubRefundMark, RetryOrGiveUp, AfterSubRefund
<1>13. CASE TokRollback(r)
  BY <1>13 DEF TokRollback, NoAccess, DecreaseTokenQuota, OnlyToken, StoreFails,
     Fallback, Refuse, TrySubscription, TryWallet
<1>14. CASE AdjustWalletFunding(r)
  BY <1>14 DEF AdjustWalletFunding, DecreaseUserQuota, OnlyWallet, AdjustOk,
     AdjustError, StoreFails
<1>15. CASE AdjustSubscriptionFunding(r)
  BY <1>15 DEF AdjustSubscriptionFunding, PostConsumeUserSubscriptionDelta, OnlyUsage,
     AdjustOk, AdjustError, StoreFails, NoAccess
<1>16. CASE AdjustSplitMore(r)
  BY <1>16 DEF AdjustSplitMore, Available, OnlyUsage, AdjustOk, AdjustError, StoreFails
<1>17. CASE AdjustWallet(r)
  BY <1>17 DEF AdjustWallet, DecreaseUserQuota, OnlyWallet, AdjustOk, AdjustError,
     StoreFails
<1>18. CASE AdjustSubUndo(r)
  BY <1>18 DEF AdjustSubUndo, PostConsumeUserSubscriptionDelta, OnlyUsage, AdjustError,
     StoreFails
<1>19. CASE AdjustSplitLess(r)
  BY <1>19 DEF AdjustSplitLess, DecreaseUserQuota, OnlyWallet, AdjustOk, AdjustError,
     StoreFails, NoAccess
<1>20. CASE AdjustSub(r)
  BY <1>20 DEF AdjustSub, PostConsumeUserSubscriptionDelta, OnlyUsage, AdjustOk,
     AdjustError, StoreFails
<1>21. CASE Attempt(r)
  BY <1>21 DEF Attempt, NoAccess
<1>22. CASE ReserveTokenCheck(r)
  BY <1>22 DEF ReserveTokenCheck, Reserved, Undo, NoAccess, StoreFails
<1>23. CASE ReserveTokenDec(r)
  BY <1>23 DEF ReserveTokenDec, DecreaseTokenQuota, OnlyToken, Reserved, Undo,
     StoreFails
<1>24. CASE Settle(r)
  BY <1>24 DEF Settle, NoAccess
<1>25. CASE SettleToken(r)
  BY <1>25 DEF SettleToken, NoAccess, DecreaseTokenQuota, OnlyToken, StoreFails
<1>26. CASE UpstreamError(r)
  BY <1>26 DEF UpstreamError, NoAccess
<1>27. CASE Answered(r)
  BY <1>27 DEF Answered, NoAccess
<1>28. CASE Retry(r)
  BY <1>28 DEF Retry, NoAccess
<1>29. CASE Refund(r)
  BY <1>29 DEF Refund, NeedsRefund, NoAccess
<1>30. CASE RefundExtra(r)
  BY <1>30 DEF RefundExtra, PostConsumeUserSubscriptionDelta, OnlyUsage, StoreFails,
     NoAccess
<1>31. CASE RefundWallet(r)
  BY <1>31 DEF RefundWallet, DecreaseUserQuota, OnlyWallet, StoreFails, NoAccess
<1>32. CASE RefundToken(r)
  BY <1>32 DEF RefundToken, DecreaseTokenQuota, OnlyToken, StoreFails, NoAccess
<1>33. QED
  BY <1>1, <1>2, <1>3, <1>4, <1>5, <1>6, <1>7, <1>8, <1>9, <1>10, <1>11, <1>12, <1>13,
     <1>14, <1>15, <1>16, <1>17, <1>18, <1>19, <1>20, <1>21, <1>22, <1>23, <1>24, <1>25,
     <1>26, <1>27, <1>28, <1>29, <1>30, <1>31, <1>32 DEF Step

(* A step of one request leaves the others alone. *)
LEMMA OthersStep ==
  ASSUME TypeOK, NEW r \in Requests, Start(r) \/ Step(r),
         NEW q \in Requests, q # r
  PROVE  Untouched(q)
<1> USE BillingAssumption DEF TypeOK, TypeStore, TypeSession, TypeLocal, TypeControl, TypeGhost,
        storeVars, localVars, ghostVars, sessVars, Goto, NewSession, Min2, Max2,
        Untouched
<1>1. CASE Start(r)
  BY <1>1 DEF Start, TrySubscription, TryWallet, NoAccess
<1>2. CASE HasActiveUserSubscription(r)
  BY <1>2 DEF HasActiveUserSubscription, TrySubscription, TryWallet, Refuse, NoAccess,
     StoreFails
<1>3. CASE WalletCheck(r)
  BY <1>3 DEF WalletCheck, Fallback, TrySubscription, TryWallet, Refuse, NoAccess,
     StoreFails
<1>4. CASE TokenCheck(r)
  BY <1>4 DEF TokenCheck, NoAccess, StoreFails, Refuse
<1>5. CASE TokenDec(r)
  BY <1>5 DEF TokenDec, DecreaseTokenQuota, OnlyToken, StoreFails, Refuse
<1>6. CASE FundWallet(r)
  BY <1>6 DEF FundWallet, DecreaseUserQuota, OnlyWallet, StoreFails, FailWith
<1>7. CASE FundSubscription(r)
  BY <1>7 DEF FundSubscription, FundErrors, PreConsumeUserSubscription, OnlySubscription, FailWith,
     NoAccess, StoreFails
<1>8. CASE FundSplit(r)
  BY <1>8 DEF FundSplit, FundErrors, PreConsumeUserSubscription, Available, OnlySubscription,
     FailWith, NoAccess, StoreFails
<1>9. CASE SplitCheck(r)
  BY <1>9 DEF SplitCheck, NoAccess, StoreFails, FailWith
<1>10. CASE SplitDec(r)
  BY <1>10 DEF SplitDec, DecreaseUserQuota, OnlyWallet, StoreFails, FailWith
<1>11. CASE SubRefund(r)
  BY <1>11 DEF SubRefund, PostConsumeUserSubscriptionDelta, OnlyUsage, StoreFails,
     RetryOrGiveUp, AfterSubRefund
<1>12. CASE SubRefundMark(r)
  BY <1>12 DEF SubRefundMark, RetryOrGiveUp, AfterSubRefund
<1>13. CASE TokRollback(r)
  BY <1>13 DEF TokRollback, NoAccess, DecreaseTokenQuota, OnlyToken, StoreFails,
     Fallback, Refuse, TrySubscription, TryWallet
<1>14. CASE AdjustWalletFunding(r)
  BY <1>14 DEF AdjustWalletFunding, DecreaseUserQuota, OnlyWallet, AdjustOk,
     AdjustError, StoreFails
<1>15. CASE AdjustSubscriptionFunding(r)
  BY <1>15 DEF AdjustSubscriptionFunding, PostConsumeUserSubscriptionDelta, OnlyUsage,
     AdjustOk, AdjustError, StoreFails, NoAccess
<1>16. CASE AdjustSplitMore(r)
  BY <1>16 DEF AdjustSplitMore, Available, OnlyUsage, AdjustOk, AdjustError, StoreFails
<1>17. CASE AdjustWallet(r)
  BY <1>17 DEF AdjustWallet, DecreaseUserQuota, OnlyWallet, AdjustOk, AdjustError,
     StoreFails
<1>18. CASE AdjustSubUndo(r)
  BY <1>18 DEF AdjustSubUndo, PostConsumeUserSubscriptionDelta, OnlyUsage, AdjustError,
     StoreFails
<1>19. CASE AdjustSplitLess(r)
  BY <1>19 DEF AdjustSplitLess, DecreaseUserQuota, OnlyWallet, AdjustOk, AdjustError,
     StoreFails, NoAccess
<1>20. CASE AdjustSub(r)
  BY <1>20 DEF AdjustSub, PostConsumeUserSubscriptionDelta, OnlyUsage, AdjustOk,
     AdjustError, StoreFails
<1>21. CASE Attempt(r)
  BY <1>21 DEF Attempt, NoAccess
<1>22. CASE ReserveTokenCheck(r)
  BY <1>22 DEF ReserveTokenCheck, Reserved, Undo, NoAccess, StoreFails
<1>23. CASE ReserveTokenDec(r)
  BY <1>23 DEF ReserveTokenDec, DecreaseTokenQuota, OnlyToken, Reserved, Undo,
     StoreFails
<1>24. CASE Settle(r)
  BY <1>24 DEF Settle, NoAccess
<1>25. CASE SettleToken(r)
  BY <1>25 DEF SettleToken, NoAccess, DecreaseTokenQuota, OnlyToken, StoreFails
<1>26. CASE UpstreamError(r)
  BY <1>26 DEF UpstreamError, NoAccess
<1>27. CASE Answered(r)
  BY <1>27 DEF Answered, NoAccess
<1>28. CASE Retry(r)
  BY <1>28 DEF Retry, NoAccess
<1>29. CASE Refund(r)
  BY <1>29 DEF Refund, NeedsRefund, NoAccess
<1>30. CASE RefundExtra(r)
  BY <1>30 DEF RefundExtra, PostConsumeUserSubscriptionDelta, OnlyUsage, StoreFails,
     NoAccess
<1>31. CASE RefundWallet(r)
  BY <1>31 DEF RefundWallet, DecreaseUserQuota, OnlyWallet, StoreFails, NoAccess
<1>32. CASE RefundToken(r)
  BY <1>32 DEF RefundToken, DecreaseTokenQuota, OnlyToken, StoreFails, NoAccess
<1>33. QED
  BY <1>1, <1>2, <1>3, <1>4, <1>5, <1>6, <1>7, <1>8, <1>9, <1>10, <1>11, <1>12, <1>13,
     <1>14, <1>15, <1>16, <1>17, <1>18, <1>19, <1>20, <1>21, <1>22, <1>23, <1>24, <1>25,
     <1>26, <1>27, <1>28, <1>29, <1>30, <1>31, <1>32 DEF Step

(* A step of a request moves the wallet by what the request took. *)
LEMMA WalletMove ==
  ASSUME TypeOK, NEW r \in Requests, Start(r) \/ Step(r)
  PROVE  wallet' = wallet + paidW[r] - paidW'[r]
<1> USE BillingAssumption DEF TypeOK, TypeStore, TypeSession, TypeLocal, TypeControl, TypeGhost,
        storeVars, localVars, ghostVars, sessVars, Goto, NewSession, Min2, Max2
<1>1. CASE Start(r)
  BY <1>1 DEF Start, TrySubscription, TryWallet, NoAccess
<1>2. CASE HasActiveUserSubscription(r)
  BY <1>2 DEF HasActiveUserSubscription, TrySubscription, TryWallet, Refuse, NoAccess,
     StoreFails
<1>3. CASE WalletCheck(r)
  BY <1>3 DEF WalletCheck, Fallback, TrySubscription, TryWallet, Refuse, NoAccess,
     StoreFails
<1>4. CASE TokenCheck(r)
  BY <1>4 DEF TokenCheck, NoAccess, StoreFails, Refuse
<1>5. CASE TokenDec(r)
  BY <1>5 DEF TokenDec, DecreaseTokenQuota, OnlyToken, StoreFails, Refuse
<1>6. CASE FundWallet(r)
  BY <1>6 DEF FundWallet, DecreaseUserQuota, OnlyWallet, StoreFails, FailWith
<1>7. CASE FundSubscription(r)
  BY <1>7 DEF FundSubscription, FundErrors, PreConsumeUserSubscription, OnlySubscription, FailWith,
     NoAccess, StoreFails
<1>8. CASE FundSplit(r)
  BY <1>8 DEF FundSplit, FundErrors, PreConsumeUserSubscription, Available, OnlySubscription,
     FailWith, NoAccess, StoreFails
<1>9. CASE SplitCheck(r)
  BY <1>9 DEF SplitCheck, NoAccess, StoreFails, FailWith
<1>10. CASE SplitDec(r)
  BY <1>10 DEF SplitDec, DecreaseUserQuota, OnlyWallet, StoreFails, FailWith
<1>11. CASE SubRefund(r)
  BY <1>11 DEF SubRefund, PostConsumeUserSubscriptionDelta, OnlyUsage, StoreFails,
     RetryOrGiveUp, AfterSubRefund
<1>12. CASE SubRefundMark(r)
  BY <1>12 DEF SubRefundMark, RetryOrGiveUp, AfterSubRefund
<1>13. CASE TokRollback(r)
  BY <1>13 DEF TokRollback, NoAccess, DecreaseTokenQuota, OnlyToken, StoreFails,
     Fallback, Refuse, TrySubscription, TryWallet
<1>14. CASE AdjustWalletFunding(r)
  BY <1>14 DEF AdjustWalletFunding, DecreaseUserQuota, OnlyWallet, AdjustOk,
     AdjustError, StoreFails
<1>15. CASE AdjustSubscriptionFunding(r)
  BY <1>15 DEF AdjustSubscriptionFunding, PostConsumeUserSubscriptionDelta, OnlyUsage,
     AdjustOk, AdjustError, StoreFails, NoAccess
<1>16. CASE AdjustSplitMore(r)
  BY <1>16 DEF AdjustSplitMore, Available, OnlyUsage, AdjustOk, AdjustError, StoreFails
<1>17. CASE AdjustWallet(r)
  BY <1>17 DEF AdjustWallet, DecreaseUserQuota, OnlyWallet, AdjustOk, AdjustError,
     StoreFails
<1>18. CASE AdjustSubUndo(r)
  BY <1>18 DEF AdjustSubUndo, PostConsumeUserSubscriptionDelta, OnlyUsage, AdjustError,
     StoreFails
<1>19. CASE AdjustSplitLess(r)
  BY <1>19 DEF AdjustSplitLess, DecreaseUserQuota, OnlyWallet, AdjustOk, AdjustError,
     StoreFails, NoAccess
<1>20. CASE AdjustSub(r)
  BY <1>20 DEF AdjustSub, PostConsumeUserSubscriptionDelta, OnlyUsage, AdjustOk,
     AdjustError, StoreFails
<1>21. CASE Attempt(r)
  BY <1>21 DEF Attempt, NoAccess
<1>22. CASE ReserveTokenCheck(r)
  BY <1>22 DEF ReserveTokenCheck, Reserved, Undo, NoAccess, StoreFails
<1>23. CASE ReserveTokenDec(r)
  BY <1>23 DEF ReserveTokenDec, DecreaseTokenQuota, OnlyToken, Reserved, Undo,
     StoreFails
<1>24. CASE Settle(r)
  BY <1>24 DEF Settle, NoAccess
<1>25. CASE SettleToken(r)
  BY <1>25 DEF SettleToken, NoAccess, DecreaseTokenQuota, OnlyToken, StoreFails
<1>26. CASE UpstreamError(r)
  BY <1>26 DEF UpstreamError, NoAccess
<1>27. CASE Answered(r)
  BY <1>27 DEF Answered, NoAccess
<1>28. CASE Retry(r)
  BY <1>28 DEF Retry, NoAccess
<1>29. CASE Refund(r)
  BY <1>29 DEF Refund, NeedsRefund, NoAccess
<1>30. CASE RefundExtra(r)
  BY <1>30 DEF RefundExtra, PostConsumeUserSubscriptionDelta, OnlyUsage, StoreFails,
     NoAccess
<1>31. CASE RefundWallet(r)
  BY <1>31 DEF RefundWallet, DecreaseUserQuota, OnlyWallet, StoreFails, NoAccess
<1>32. CASE RefundToken(r)
  BY <1>32 DEF RefundToken, DecreaseTokenQuota, OnlyToken, StoreFails, NoAccess
<1>33. QED
  BY <1>1, <1>2, <1>3, <1>4, <1>5, <1>6, <1>7, <1>8, <1>9, <1>10, <1>11, <1>12, <1>13,
     <1>14, <1>15, <1>16, <1>17, <1>18, <1>19, <1>20, <1>21, <1>22, <1>23, <1>24, <1>25,
     <1>26, <1>27, <1>28, <1>29, <1>30, <1>31, <1>32 DEF Step

(* A step of a request moves the usage by what the request took, but for   *)
(* the clamp at zero and the reset of a period that ended.                 *)
LEMMA UsageMove ==
  ASSUME TypeOK, NEW r \in Requests, Start(r) \/ Step(r)
  PROVE  /\ period' = period
         /\ \/ subUsed' = subUsed /\ lastReset' = lastReset /\ paidS'[r] = paidS[r]
            \/ /\ subUsed' = Max2(0, subUsed + (paidS'[r] - paidS[r]))
               /\ lastReset' = lastReset
            \/ /\ subUsed' = UsageAfterReset + (paidS'[r] - paidS[r])
               /\ lastReset' = period
<1> USE BillingAssumption DEF TypeOK, TypeStore, TypeSession, TypeLocal, TypeControl, TypeGhost,
        storeVars, localVars, ghostVars, sessVars, Goto, NewSession, Min2, Max2
<1>1. CASE Start(r)
  BY <1>1 DEF Start, TrySubscription, TryWallet, NoAccess
<1>2. CASE HasActiveUserSubscription(r)
  BY <1>2 DEF HasActiveUserSubscription, TrySubscription, TryWallet, Refuse, NoAccess,
     StoreFails
<1>3. CASE WalletCheck(r)
  BY <1>3 DEF WalletCheck, Fallback, TrySubscription, TryWallet, Refuse, NoAccess,
     StoreFails
<1>4. CASE TokenCheck(r)
  BY <1>4 DEF TokenCheck, NoAccess, StoreFails, Refuse
<1>5. CASE TokenDec(r)
  BY <1>5 DEF TokenDec, DecreaseTokenQuota, OnlyToken, StoreFails, Refuse
<1>6. CASE FundWallet(r)
  BY <1>6 DEF FundWallet, DecreaseUserQuota, OnlyWallet, StoreFails, FailWith
<1>7. CASE FundSubscription(r)
  BY <1>7 DEF FundSubscription, FundErrors, PreConsumeUserSubscription, OnlySubscription, FailWith,
     NoAccess, StoreFails
<1>8. CASE FundSplit(r)
  <2> UsageAfterReset \in Nat
    BY DEF UsageAfterReset
  <2>1. Available(UsageAfterReset, amount[r]) \in Int
    BY DEF Available
  <2> QED
    BY <1>8, <2>1 DEF FundSplit, FundErrors, PreConsumeUserSubscription, OnlySubscription, NoAccess,
       StoreFails
<1>9. CASE SplitCheck(r)
  BY <1>9 DEF SplitCheck, NoAccess, StoreFails, FailWith
<1>10. CASE SplitDec(r)
  BY <1>10 DEF SplitDec, DecreaseUserQuota, OnlyWallet, StoreFails, FailWith
<1>11. CASE SubRefund(r)
  BY <1>11 DEF SubRefund, PostConsumeUserSubscriptionDelta, OnlyUsage, StoreFails,
     RetryOrGiveUp, AfterSubRefund
<1>12. CASE SubRefundMark(r)
  BY <1>12 DEF SubRefundMark, RetryOrGiveUp, AfterSubRefund
<1>13. CASE TokRollback(r)
  BY <1>13 DEF TokRollback, NoAccess, DecreaseTokenQuota, OnlyToken, StoreFails,
     Fallback, Refuse, TrySubscription, TryWallet
<1>14. CASE AdjustWalletFunding(r)
  BY <1>14 DEF AdjustWalletFunding, DecreaseUserQuota, OnlyWallet, AdjustOk,
     AdjustError, StoreFails
<1>15. CASE AdjustSubscriptionFunding(r)
  BY <1>15 DEF AdjustSubscriptionFunding, PostConsumeUserSubscriptionDelta, OnlyUsage,
     AdjustOk, AdjustError, StoreFails, NoAccess
<1>16. CASE AdjustSplitMore(r)
  BY <1>16 DEF AdjustSplitMore, Available, OnlyUsage, AdjustOk, AdjustError, StoreFails
<1>17. CASE AdjustWallet(r)
  BY <1>17 DEF AdjustWallet, DecreaseUserQuota, OnlyWallet, AdjustOk, AdjustError,
     StoreFails
<1>18. CASE AdjustSubUndo(r)
  BY <1>18 DEF AdjustSubUndo, PostConsumeUserSubscriptionDelta, OnlyUsage, AdjustError,
     StoreFails
<1>19. CASE AdjustSplitLess(r)
  BY <1>19 DEF AdjustSplitLess, DecreaseUserQuota, OnlyWallet, AdjustOk, AdjustError,
     StoreFails, NoAccess
<1>20. CASE AdjustSub(r)
  BY <1>20 DEF AdjustSub, PostConsumeUserSubscriptionDelta, OnlyUsage, AdjustOk,
     AdjustError, StoreFails
<1>21. CASE Attempt(r)
  BY <1>21 DEF Attempt, NoAccess
<1>22. CASE ReserveTokenCheck(r)
  BY <1>22 DEF ReserveTokenCheck, Reserved, Undo, NoAccess, StoreFails
<1>23. CASE ReserveTokenDec(r)
  BY <1>23 DEF ReserveTokenDec, DecreaseTokenQuota, OnlyToken, Reserved, Undo,
     StoreFails
<1>24. CASE Settle(r)
  BY <1>24 DEF Settle, NoAccess
<1>25. CASE SettleToken(r)
  BY <1>25 DEF SettleToken, NoAccess, DecreaseTokenQuota, OnlyToken, StoreFails
<1>26. CASE UpstreamError(r)
  BY <1>26 DEF UpstreamError, NoAccess
<1>27. CASE Answered(r)
  BY <1>27 DEF Answered, NoAccess
<1>28. CASE Retry(r)
  BY <1>28 DEF Retry, NoAccess
<1>29. CASE Refund(r)
  BY <1>29 DEF Refund, NeedsRefund, NoAccess
<1>30. CASE RefundExtra(r)
  BY <1>30 DEF RefundExtra, PostConsumeUserSubscriptionDelta, OnlyUsage, StoreFails,
     NoAccess
<1>31. CASE RefundWallet(r)
  BY <1>31 DEF RefundWallet, DecreaseUserQuota, OnlyWallet, StoreFails, NoAccess
<1>32. CASE RefundToken(r)
  BY <1>32 DEF RefundToken, DecreaseTokenQuota, OnlyToken, StoreFails, NoAccess
<1>33. QED
  BY <1>1, <1>2, <1>3, <1>4, <1>5, <1>6, <1>7, <1>8, <1>9, <1>10, <1>11, <1>12, <1>13,
     <1>14, <1>15, <1>16, <1>17, <1>18, <1>19, <1>20, <1>21, <1>22, <1>23, <1>24, <1>25,
     <1>26, <1>27, <1>28, <1>29, <1>30, <1>31, <1>32 DEF Step

(* No step of a settled request changes what it paid. *)
LEMMA SettledStep ==
  ASSUME TypeOK, NEW r \in Requests, Start(r) \/ Step(r),
         PlaceFits(r), phase[r] = "settled"
  PROVE  phase'[r] = "settled" /\ Charge(r)' = Charge(r) /\ paidT'[r] = paidT[r]
<1> USE BillingAssumption DEF TypeOK, TypeStore, TypeSession, TypeLocal, TypeControl, TypeGhost,
        storeVars, localVars, ghostVars, sessVars, Goto, NewSession, Min2, Max2,
        PlaceFits, Charge, NeedsRefund
<1>1. CASE Start(r)
  BY <1>1 DEF Start, TrySubscription, TryWallet, NoAccess
<1>2. CASE HasActiveUserSubscription(r)
  BY <1>2 DEF HasActiveUserSubscription, TrySubscription, TryWallet, Refuse, NoAccess,
     StoreFails
<1>3. CASE WalletCheck(r)
  BY <1>3 DEF WalletCheck, Fallback, TrySubscription, TryWallet, Refuse, NoAccess,
     StoreFails
<1>4. CASE TokenCheck(r)
  BY <1>4 DEF TokenCheck, NoAccess, StoreFails, Refuse
<1>5. CASE TokenDec(r)
  BY <1>5 DEF TokenDec, DecreaseTokenQuota, OnlyToken, StoreFails, Refuse
<1>6. CASE FundWallet(r)
  BY <1>6 DEF FundWallet, DecreaseUserQuota, OnlyWallet, StoreFails, FailWith
<1>7. CASE FundSubscription(r)
  BY <1>7 DEF FundSubscription, FundErrors, PreConsumeUserSubscription, OnlySubscription, FailWith,
     NoAccess, StoreFails
<1>8. CASE FundSplit(r)
  BY <1>8 DEF FundSplit, FundErrors, PreConsumeUserSubscription, Available, OnlySubscription,
     FailWith, NoAccess, StoreFails
<1>9. CASE SplitCheck(r)
  BY <1>9 DEF SplitCheck, NoAccess, StoreFails, FailWith
<1>10. CASE SplitDec(r)
  BY <1>10 DEF SplitDec, DecreaseUserQuota, OnlyWallet, StoreFails, FailWith
<1>11. CASE SubRefund(r)
  BY <1>11 DEF SubRefund, PostConsumeUserSubscriptionDelta, OnlyUsage, StoreFails,
     RetryOrGiveUp, AfterSubRefund
<1>12. CASE SubRefundMark(r)
  BY <1>12 DEF SubRefundMark, RetryOrGiveUp, AfterSubRefund
<1>13. CASE TokRollback(r)
  BY <1>13 DEF TokRollback, NoAccess, DecreaseTokenQuota, OnlyToken, StoreFails,
     Fallback, Refuse, TrySubscription, TryWallet
<1>14. CASE AdjustWalletFunding(r)
  BY <1>14 DEF AdjustWalletFunding, DecreaseUserQuota, OnlyWallet, AdjustOk,
     AdjustError, StoreFails
<1>15. CASE AdjustSubscriptionFunding(r)
  BY <1>15 DEF AdjustSubscriptionFunding, PostConsumeUserSubscriptionDelta, OnlyUsage,
     AdjustOk, AdjustError, StoreFails, NoAccess
<1>16. CASE AdjustSplitMore(r)
  BY <1>16 DEF AdjustSplitMore, Available, OnlyUsage, AdjustOk, AdjustError, StoreFails
<1>17. CASE AdjustWallet(r)
  BY <1>17 DEF AdjustWallet, DecreaseUserQuota, OnlyWallet, AdjustOk, AdjustError,
     StoreFails
<1>18. CASE AdjustSubUndo(r)
  BY <1>18 DEF AdjustSubUndo, PostConsumeUserSubscriptionDelta, OnlyUsage, AdjustError,
     StoreFails
<1>19. CASE AdjustSplitLess(r)
  BY <1>19 DEF AdjustSplitLess, DecreaseUserQuota, OnlyWallet, AdjustOk, AdjustError,
     StoreFails, NoAccess
<1>20. CASE AdjustSub(r)
  BY <1>20 DEF AdjustSub, PostConsumeUserSubscriptionDelta, OnlyUsage, AdjustOk,
     AdjustError, StoreFails
<1>21. CASE Attempt(r)
  BY <1>21 DEF Attempt, NoAccess
<1>22. CASE ReserveTokenCheck(r)
  BY <1>22 DEF ReserveTokenCheck, Reserved, Undo, NoAccess, StoreFails
<1>23. CASE ReserveTokenDec(r)
  BY <1>23 DEF ReserveTokenDec, DecreaseTokenQuota, OnlyToken, Reserved, Undo,
     StoreFails
<1>24. CASE Settle(r)
  BY <1>24 DEF Settle, NoAccess
<1>25. CASE SettleToken(r)
  BY <1>25 DEF SettleToken, NoAccess, DecreaseTokenQuota, OnlyToken, StoreFails
<1>26. CASE UpstreamError(r)
  BY <1>26 DEF UpstreamError, NoAccess
<1>27. CASE Answered(r)
  BY <1>27 DEF Answered, NoAccess
<1>28. CASE Retry(r)
  BY <1>28 DEF Retry, NoAccess
<1>29. CASE Refund(r)
  BY <1>29 DEF Refund, NeedsRefund, NoAccess
<1>30. CASE RefundExtra(r)
  BY <1>30 DEF RefundExtra, PostConsumeUserSubscriptionDelta, OnlyUsage, StoreFails,
     NoAccess
<1>31. CASE RefundWallet(r)
  BY <1>31 DEF RefundWallet, DecreaseUserQuota, OnlyWallet, StoreFails, NoAccess
<1>32. CASE RefundToken(r)
  BY <1>32 DEF RefundToken, DecreaseTokenQuota, OnlyToken, StoreFails, NoAccess
<1>33. QED
  BY <1>1, <1>2, <1>3, <1>4, <1>5, <1>6, <1>7, <1>8, <1>9, <1>10, <1>11, <1>12, <1>13,
     <1>14, <1>15, <1>16, <1>17, <1>18, <1>19, <1>20, <1>21, <1>22, <1>23, <1>24, <1>25,
     <1>26, <1>27, <1>28, <1>29, <1>30, <1>31, <1>32 DEF Step

(* A step of a request without store errors meets no fault. *)
LEMMA FaultyStep ==
  ASSUME TypeOK, NEW r \in Requests, Start(r) \/ Step(r),
         Faults \subseteq {"crash"}
  PROVE  faulty' = faulty
<1> USE BillingAssumption DEF TypeOK, TypeStore, TypeSession, TypeLocal, TypeControl, TypeGhost,
        storeVars, localVars, ghostVars, sessVars, Goto, NewSession, Min2, Max2
<1>1. CASE Start(r)
  BY <1>1 DEF Start, TrySubscription, TryWallet, NoAccess
<1>2. CASE HasActiveUserSubscription(r)
  BY <1>2 DEF HasActiveUserSubscription, TrySubscription, TryWallet, Refuse, NoAccess,
     StoreFails
<1>3. CASE WalletCheck(r)
  BY <1>3 DEF WalletCheck, Fallback, TrySubscription, TryWallet, Refuse, NoAccess,
     StoreFails
<1>4. CASE TokenCheck(r)
  BY <1>4 DEF TokenCheck, NoAccess, StoreFails, Refuse
<1>5. CASE TokenDec(r)
  BY <1>5 DEF TokenDec, DecreaseTokenQuota, OnlyToken, StoreFails, Refuse
<1>6. CASE FundWallet(r)
  BY <1>6 DEF FundWallet, DecreaseUserQuota, OnlyWallet, StoreFails, FailWith
<1>7. CASE FundSubscription(r)
  BY <1>7 DEF FundSubscription, FundErrors, PreConsumeUserSubscription, OnlySubscription, FailWith,
     NoAccess, StoreFails
<1>8. CASE FundSplit(r)
  BY <1>8 DEF FundSplit, FundErrors, PreConsumeUserSubscription, Available, OnlySubscription,
     FailWith, NoAccess, StoreFails
<1>9. CASE SplitCheck(r)
  BY <1>9 DEF SplitCheck, NoAccess, StoreFails, FailWith
<1>10. CASE SplitDec(r)
  BY <1>10 DEF SplitDec, DecreaseUserQuota, OnlyWallet, StoreFails, FailWith
<1>11. CASE SubRefund(r)
  BY <1>11 DEF SubRefund, PostConsumeUserSubscriptionDelta, OnlyUsage, StoreFails,
     RetryOrGiveUp, AfterSubRefund
<1>12. CASE SubRefundMark(r)
  BY <1>12 DEF SubRefundMark, RetryOrGiveUp, AfterSubRefund
<1>13. CASE TokRollback(r)
  BY <1>13 DEF TokRollback, NoAccess, DecreaseTokenQuota, OnlyToken, StoreFails,
     Fallback, Refuse, TrySubscription, TryWallet
<1>14. CASE AdjustWalletFunding(r)
  BY <1>14 DEF AdjustWalletFunding, DecreaseUserQuota, OnlyWallet, AdjustOk,
     AdjustError, StoreFails
<1>15. CASE AdjustSubscriptionFunding(r)
  BY <1>15 DEF AdjustSubscriptionFunding, PostConsumeUserSubscriptionDelta, OnlyUsage,
     AdjustOk, AdjustError, StoreFails, NoAccess
<1>16. CASE AdjustSplitMore(r)
  BY <1>16 DEF AdjustSplitMore, Available, OnlyUsage, AdjustOk, AdjustError, StoreFails
<1>17. CASE AdjustWallet(r)
  BY <1>17 DEF AdjustWallet, DecreaseUserQuota, OnlyWallet, AdjustOk, AdjustError,
     StoreFails
<1>18. CASE AdjustSubUndo(r)
  BY <1>18 DEF AdjustSubUndo, PostConsumeUserSubscriptionDelta, OnlyUsage, AdjustError,
     StoreFails
<1>19. CASE AdjustSplitLess(r)
  BY <1>19 DEF AdjustSplitLess, DecreaseUserQuota, OnlyWallet, AdjustOk, AdjustError,
     StoreFails, NoAccess
<1>20. CASE AdjustSub(r)
  BY <1>20 DEF AdjustSub, PostConsumeUserSubscriptionDelta, OnlyUsage, AdjustOk,
     AdjustError, StoreFails
<1>21. CASE Attempt(r)
  BY <1>21 DEF Attempt, NoAccess
<1>22. CASE ReserveTokenCheck(r)
  BY <1>22 DEF ReserveTokenCheck, Reserved, Undo, NoAccess, StoreFails
<1>23. CASE ReserveTokenDec(r)
  BY <1>23 DEF ReserveTokenDec, DecreaseTokenQuota, OnlyToken, Reserved, Undo,
     StoreFails
<1>24. CASE Settle(r)
  BY <1>24 DEF Settle, NoAccess
<1>25. CASE SettleToken(r)
  BY <1>25 DEF SettleToken, NoAccess, DecreaseTokenQuota, OnlyToken, StoreFails
<1>26. CASE UpstreamError(r)
  BY <1>26 DEF UpstreamError, NoAccess
<1>27. CASE Answered(r)
  BY <1>27 DEF Answered, NoAccess
<1>28. CASE Retry(r)
  BY <1>28 DEF Retry, NoAccess
<1>29. CASE Refund(r)
  BY <1>29 DEF Refund, NeedsRefund, NoAccess
<1>30. CASE RefundExtra(r)
  BY <1>30 DEF RefundExtra, PostConsumeUserSubscriptionDelta, OnlyUsage, StoreFails,
     NoAccess
<1>31. CASE RefundWallet(r)
  BY <1>31 DEF RefundWallet, DecreaseUserQuota, OnlyWallet, StoreFails, NoAccess
<1>32. CASE RefundToken(r)
  BY <1>32 DEF RefundToken, DecreaseTokenQuota, OnlyToken, StoreFails, NoAccess
<1>33. QED
  BY <1>1, <1>2, <1>3, <1>4, <1>5, <1>6, <1>7, <1>8, <1>9, <1>10, <1>11, <1>12, <1>13,
     <1>14, <1>15, <1>16, <1>17, <1>18, <1>19, <1>20, <1>21, <1>22, <1>23, <1>24, <1>25,
     <1>26, <1>27, <1>28, <1>29, <1>30, <1>31, <1>32 DEF Step

(* What holds of a request that a step does not concern keeps holding. *)
LEMMA UntouchedKeeps ==
  ASSUME TypeOK, NEW q \in Requests, SessionFits(q), CheckFits(q), Untouched(q)
  PROVE  SessionFits(q)' /\ CheckFits(q)'
<1> USE DEF Untouched, SessionFits, Fresh, Running, TokenFree
<1>1. PlaceFits(q)'
  BY DEF PlaceFits
<1>2. OpFits(q)'
  BY DEF OpFits
<1>3. FieldsFit(q)'
  BY DEF FieldsFit, Max2
<1>4. Ahead(q)' = Ahead(q) /\ Charge(q)' = Charge(q) /\ Extra(q)' = Extra(q)
  BY DEF Ahead, Charge, Extra
<1>5. WalletLedger(q)'
  BY <1>4 DEF WalletLedger
<1>6. TokenLedger(q)'
  BY DEF TokenLedger, TokenShare
<1>7. q \notin faulty' => Books(q)'
  BY <1>4 DEF Books
<1>8. CheckFits(q)'
  BY DEF CheckFits, CheckedPart, Max2
<1> QED
  BY <1>1, <1>2, <1>3, <1>5, <1>6, <1>7, <1>8

(* A crash ends every session where it is. *)
LEMMA CrashKeeps ==
  ASSUME TypeOK, Crash, NEW q \in Requests, SessionFits(q), CheckFits(q)
  PROVE  SessionFits(q)' /\ CheckFits(q)'
<1>1. CASE pc'[q] = pc[q]
  <2>1. Untouched(q)
    BY <1>1 DEF Crash, Untouched, storeVars, localVars, ghostVars, sessVars
  <2> QED
    BY <2>1, UntouchedKeeps
<1>2. CASE pc'[q] # pc[q]
  <2> USE DEF SessionFits, Fresh, Running, storeVars, localVars, ghostVars, sessVars, TokenFree
  <2>0. pc'[q] = "crashed" /\ pc[q] \notin {"done", "failed", "crashed", "idle"}
    BY <1>2 DEF Crash, TypeOK, TypeControl, Terminal
  <2>1. PlaceFits(q)'
    BY <2>0 DEF Crash, PlaceFits
  <2>2. OpFits(q)'
    BY <2>0 DEF Crash, OpFits
  <2>3. FieldsFit(q)'
    BY <2>0 DEF Crash, FieldsFit
  <2>4. WalletLedger(q)'
    BY <2>0 DEF Crash, WalletLedger
  <2>5. TokenLedger(q)'
    BY <2>0 DEF Crash, TokenLedger, TokenShare
  <2>6. q \notin faulty' => Books(q)'
    BY <2>0 DEF Crash, Books, Charge, Extra
  <2>7. CheckFits(q)'
    BY <2>0 DEF Crash, CheckFits, CheckedPart, Max2
  <2> QED
    BY <2>1, <2>2, <2>3, <2>4, <2>5, <2>6, <2>7
<1> QED
  BY <1>1, <1>2

(* The wallet never holds more than at first. *)
LEMMA WalletAtMost ==
  ASSUME Balanced
  PROVE  wallet <= InitWallet
<1>1. IsFiniteSet(Requests) /\ InitWallet \in Nat
  BY BillingAssumption
<1>2. \A r \in Requests : paidW[r] \in Int /\ paidW[r] >= 0
  BY DEF Balanced, TypeOK, TypeGhost, SessionFits, WalletLedger
<1>3. SumOf(paidW, Requests) \in Int /\ SumOf(paidW, Requests) >= 0
  BY <1>1, <1>2, SumOfInt, SumNotNegative
<1> QED
  BY <1>1, <1>3 DEF Balanced, WalletAdds

(* The invariant is inductive. *)
LEMMA BalancedStep == Balanced /\ [Next]_vars => Balanced'
<1> SUFFICES ASSUME Balanced, [Next]_vars PROVE Balanced'
  OBVIOUS
<1>0. TypeOK /\ TypeOK' /\ IsFiniteSet(Requests)
  BY TypeStep, BillingAssumption DEF Balanced
<1>1. ASSUME NEW r \in Requests, Start(r) \/ Step(r) PROVE Balanced'
  <2>0. /\ UsageFits /\ WalletAdds /\ wallet <= InitWallet
        /\ \A q \in Requests : SessionFits(q) /\ CheckFits(q)
    BY WalletAtMost DEF Balanced
  <2>1. UsageFits'
    BY <1>0, <1>1, <2>0, UsageStep
  <2>2. ASSUME NEW q \in Requests, q # r PROVE Untouched(q)
    BY <1>0, <1>1, <2>2, OthersStep
  <2>3. WalletAdds'
    <3>1. wallet' = wallet + paidW[r] - paidW'[r]
      BY <1>0, <1>1, WalletMove
    <3>2. SumOf(paidW', Requests) = SumOf(paidW, Requests) + paidW'[r] - paidW[r]
      <4>1. \A q \in Requests \ {r} : paidW[q] = paidW'[q]
        BY <2>2 DEF Untouched
      <4>2. \A q \in Requests : paidW[q] \in Int /\ paidW'[q] \in Int
        BY <1>0 DEF TypeOK, TypeGhost
      <4> QED
        BY <1>0, <4>1, <4>2, SumOfChange
    <3>3. SumOf(paidW, Requests) \in Int
      <4>1. \A q \in Requests : paidW[q] \in Int
        BY <1>0 DEF TypeOK, TypeGhost
      <4> QED
        BY <1>0, <4>1, SumOfInt
    <3>4. paidW[r] \in Int /\ paidW'[r] \in Int /\ InitWallet \in Int
      BY <1>0, BillingAssumption DEF TypeOK, TypeGhost
    <3> QED
      BY <2>0, <3>1, <3>2, <3>3, <3>4 DEF WalletAdds
  <2>4. SessionFits(r)' /\ CheckFits(r)'
    <3>0. /\ PlaceFits(r) /\ OpFits(r) /\ FieldsFit(r) /\ WalletLedger(r) /\ TokenLedger(r)
          /\ CheckFits(r) /\ (r \notin faulty => Books(r))
      BY <2>0 DEF SessionFits
    <3>1. PlaceFits(r)'
      BY <1>0, <1>1, <3>0, PlaceStep
    <3>2. OpFits(r)'
      BY <1>0, <1>1, <3>0, OpStep
    <3>3. FieldsFit(r)'
      BY <1>0, <1>1, <3>0, FieldsStep
    <3>4. WalletLedger(r)'
      BY <1>0, <1>1, <3>0, WalletStep
    <3>5. TokenLedger(r)'
      BY <1>0, <1>1, <3>0, TokenStep
    <3>6. r \notin faulty' => Books(r)'
      BY <1>0, <1>1, <2>0, <3>0, BooksStep
    <3>7. CheckFits(r)'
      BY <1>0, <1>1, <2>0, <3>0, CheckStep
    <3> QED
      BY <3>1, <3>2, <3>3, <3>4, <3>5, <3>6, <3>7 DEF SessionFits
  <2>5. ASSUME NEW q \in Requests PROVE SessionFits(q)' /\ CheckFits(q)'
    BY <1>0, <2>0, <2>2, <2>4, UntouchedKeeps
  <2> QED
    BY <1>0, <2>1, <2>3, <2>5 DEF Balanced
<1>2. CASE Crash
  <2>1. UsageFits' /\ WalletAdds'
    BY <1>2 DEF Crash, storeVars, ghostVars, Balanced, UsageFits, WalletAdds
  <2>2. ASSUME NEW q \in Requests PROVE SessionFits(q)' /\ CheckFits(q)'
    BY <1>0, <1>2, CrashKeeps DEF Balanced
  <2> QED
    BY <1>0, <2>1, <2>2 DEF Balanced
<1>3. CASE SubscriptionEnds \/ PeriodEnds \/ ResetDueSubscriptions \/ Finished \/ UNCHANGED vars
  <2> USE <1>3 DEF SubscriptionEnds, PeriodEnds, ResetDueSubscriptions, Finished, vars,
          storeVars, localVars, ghostVars, sessVars
  <2>1. UsageFits'
    BY BillingAssumption DEF Balanced, UsageFits
  <2>2. WalletAdds'
    BY DEF Balanced, WalletAdds
  <2>3. ASSUME NEW q \in Requests PROVE Untouched(q)
    BY DEF Untouched
  <2>4. ASSUME NEW q \in Requests PROVE SessionFits(q)' /\ CheckFits(q)'
    BY <1>0, <2>3, UntouchedKeeps DEF Balanced
  <2> QED
    BY <1>0, <2>1, <2>2, <2>4 DEF Balanced
<1> QED
  BY <1>1, <1>2, <1>3 DEF Next

(* The invariant holds of untouched rows and no sessions. *)
LEMMA BalancedInit == Init => Balanced
<1> SUFFICES ASSUME Init PROVE Balanced
  OBVIOUS
<1>1. TypeOK /\ IsFiniteSet(Requests) /\ InitWallet \in Nat
  BY TypeInit, BillingAssumption
<1>2. UsageFits
  BY BillingAssumption DEF Init, UsageFits
<1>3. WalletAdds
  <2>1. \A r \in Requests : paidW[r] = 0
    BY DEF Init
  <2>2. SumOf(paidW, Requests) = 0
    BY <1>1, <2>1, SumOfZero
  <2> QED
    BY <1>1, <2>2 DEF Init, WalletAdds
<1>4. ASSUME NEW r \in Requests PROVE SessionFits(r) /\ CheckFits(r)
  <2>1. /\ pc[r] = "idle" /\ phase[r] = "open" /\ funding[r] = "none"
        /\ preConsumed[r] = 0 /\ tokenConsumed[r] = 0 /\ extraReserved[r] = 0
        /\ walletConsumed[r] = 0 /\ subPre[r] = 0 /\ subPost[r] = 0
        /\ paidW[r] = 0 /\ paidS[r] = 0 /\ paidT[r] = 0
    BY DEF Init
  <2> USE <2>1 DEF Fresh, Running
  <2>2. PlaceFits(r) /\ OpFits(r)
    BY DEF PlaceFits, OpFits
  <2>3. FieldsFit(r) /\ WalletLedger(r)
    BY DEF FieldsFit, WalletLedger
  <2>4. TokenLedger(r) /\ Books(r)
    BY DEF TokenLedger, Books
  <2>5. CheckFits(r)
    BY DEF CheckFits
  <2> QED
    BY <2>2, <2>3, <2>4, <2>5 DEF SessionFits
<1> QED
  BY <1>1, <1>2, <1>3, <1>4 DEF Balanced

(* At every step of every request, for any requests, amounts, balances and *)
(* faults, what the session fields say agrees with what the rows lost.     *)
THEOREM BooksBalance == Spec => []Balanced
BY BalancedInit, BalancedStep, PTL DEF Spec

(* No request is ever given back more wallet or token quota than was taken *)
(* for it, whatever store access fails and wherever the process stops:     *)
(* Reserve, its rollback, Settle and the refund goroutine together.        *)
THEOREM BillingNeverOverRefunded == Spec => []NeverOverRefunded
<1>1. Balanced => NeverOverRefunded
  BY DEF Balanced, NeverOverRefunded, SessionFits, WalletLedger, TokenLedger
<1> QED
  BY <1>1, BooksBalance, PTL

(* A request that is over and met no store error has cost exactly what it  *)
(* settled, or nothing, but for the two outcomes ExactCharge names,        *)
(* however often it was retried, reserved more and fell back.              *)
THEOREM BillingExactCharge == Spec => []ExactCharge
<1>1. Balanced => ExactCharge
  <2> SUFFICES ASSUME Balanced, NEW r \in Requests, pc[r] \in {"done", "failed"}, r \notin faulty
               PROVE  \/ /\ phase[r] = "settled" /\ Charge(r) = actual[r]
                         /\ paidT[r] = TokenShare(r, actual[r])
                      \/ /\ pc[r] = "failed" /\ phase[r] # "settled" /\ Charge(r) = 0
                         /\ paidT[r] = 0
                      \/ /\ pc[r] = "done" /\ funding[r] = "subscription"
                         /\ Charge(r) = preConsumed[r] /\ Charge(r) < actual[r]
                         /\ paidT[r] = TokenShare(r, Charge(r))
                      \/ /\ pc[r] = "failed" /\ funding[r] = "wallet" /\ TokenFree(r)
                         /\ Charge(r) = preConsumed[r] /\ paidT[r] = 0
    BY DEF ExactCharge
  <2>1. FieldsFit(r) /\ TokenLedger(r) /\ Books(r)
    BY DEF Balanced, SessionFits
  <2>2. CASE phase[r] = "settled"
    BY <2>1, <2>2 DEF TokenLedger, Books
  <2>3. CASE phase[r] # "settled" /\ pc[r] = "failed"
    BY <2>1, <2>3 DEF Books
  <2>4. CASE phase[r] # "settled" /\ pc[r] = "done"
    <3>1. preConsumed[r] \in Int /\ paidT[r] = tokenConsumed[r] /\ Ahead(r) = 0
      BY <2>1, <2>4 DEF TokenLedger, Ahead, Balanced, TypeOK, TypeSession
    <3>2. Charge(r) = preConsumed[r]
      BY <2>1, <2>4, <3>1 DEF Books
    <3>3. paidT[r] = TokenShare(r, preConsumed[r])
      BY <2>1, <2>4, <3>1 DEF FieldsFit, TokenShare
    <3> QED
      BY <2>1, <2>4, <3>2, <3>3 DEF Books
  <2> QED
    BY <2>2, <2>3, <2>4
<1> QED
  BY <1>1, BooksBalance, PTL

(* A charge that Settle has settled is final: no retry, Reserve or Refund  *)
(* after it changes what the request paid.                                 *)
THEOREM BillingSettledIsFinal == Spec => SettledIsFinal
<1>1. Balanced /\ [Next]_vars =>
        [\A r \in Requests :
           phase[r] = "settled" =>
             phase'[r] = "settled" /\ Charge(r)' = Charge(r) /\ paidT'[r] = paidT[r]]_vars
  <2> SUFFICES ASSUME Balanced, [Next]_vars, NEW q \in Requests, phase[q] = "settled"
               PROVE  phase'[q] = "settled" /\ Charge(q)' = Charge(q) /\ paidT'[q] = paidT[q]
    OBVIOUS
  <2>0. TypeOK /\ PlaceFits(q)
    BY DEF Balanced, SessionFits
  <2>1. ASSUME Untouched(q)
        PROVE  phase'[q] = "settled" /\ Charge(q)' = Charge(q) /\ paidT'[q] = paidT[q]
    BY <2>1 DEF Untouched, Charge
  <2>2. ASSUME NEW r \in Requests, Start(r) \/ Step(r)
        PROVE  phase'[q] = "settled" /\ Charge(q)' = Charge(q) /\ paidT'[q] = paidT[q]
    <3>1. CASE q = r
      BY <2>0, <2>2, <3>1, SettledStep
    <3>2. CASE q # r
      BY <2>0, <2>1, <2>2, <3>2, OthersStep
    <3> QED
      BY <3>1, <3>2
  <2>3. CASE \/ SubscriptionEnds \/ PeriodEnds \/ ResetDueSubscriptions \/ Crash \/ Finished
             \/ UNCHANGED vars
    BY <2>3 DEF SubscriptionEnds, PeriodEnds, ResetDueSubscriptions, Crash, Finished, vars,
       storeVars, localVars, ghostVars, sessVars, Charge
  <2> QED
    BY <2>2, <2>3 DEF Next
<1> QED
  BY <1>1, BooksBalance, PTL DEF Spec, SettledIsFinal

(* The wallet is overdrawn only by two requests that passed their checks     *)
(* on the same quota, or by a charge beyond what was checked: what tryWallet *)
(* or SplitFunding.PreConsume compared with the quota is covered by it.      *)
THEOREM BillingOverdraftNeedsRace == Spec => []OverdraftNeedsRace
<1>1. Balanced => OverdraftNeedsRace
  <2> SUFFICES ASSUME Balanced, wallet < 0,
                      \A r, q \in Requests : r # q => ~(paidW[r] > 0 /\ paidW[q] > 0),
                      \A r \in Requests : ~(paidW[r] > CheckedPart(r))
               PROVE  FALSE
    BY DEF OverdraftNeedsRace
  <2>0. IsFiniteSet(Requests) /\ InitWallet \in Nat
    BY BillingAssumption
  <2>1. \A r \in Requests : paidW[r] \in Int /\ paidW[r] >= 0
    BY DEF Balanced, TypeOK, TypeGhost, SessionFits, WalletLedger
  <2>2. wallet = InitWallet - SumOf(paidW, Requests)
    BY DEF Balanced, WalletAdds
  <2>3. CASE \A r \in Requests : paidW[r] = 0
    <3>1. SumOf(paidW, Requests) = 0
      BY <2>0, <2>3, SumOfZero
    <3> QED
      BY <2>0, <2>2, <3>1
  <2>4. ASSUME NEW r \in Requests, paidW[r] # 0 PROVE FALSE
    <3>1. SumOf(paidW, Requests) = paidW[r] + SumOf(paidW, Requests \ {r})
      BY <2>0, <2>1, SumOfRemove
    <3>2. SumOf(paidW, Requests \ {r}) = 0
      <4>1. \A q \in Requests \ {r} : paidW[q] = 0
        BY <2>1, <2>4
      <4>2. IsFiniteSet(Requests \ {r})
        BY <2>0, FS_Subset
      <4> QED
        BY <4>1, <4>2, SumOfZero
    <3>3. CheckedPart(r) <= InitWallet
      BY <2>1, <2>4 DEF Balanced, CheckFits
    <3>4. CheckedPart(r) \in Int
      BY DEF CheckedPart, Max2, Balanced, TypeOK, TypeControl, TypeSession, Request
    <3> QED
      BY <2>0, <2>1, <2>2, <3>1, <3>2, <3>3, <3>4
  <2> QED
    BY <2>3, <2>4
<1> QED
  BY <1>1, BooksBalance, PTL

(* SubUsageBacked, with the sum as the lemmas of FiniteSums know it. *)
UsageSum == IF period = 0 THEN subUsed = SumOf(paidS, Requests)
                          ELSE subUsed <= SumOf(paidS, Requests)

(* The two forms of the sum agree. *)
LEMMA UsageSumBacks == UsageSum => SubUsageBacked
BY DEF UsageSum, SubUsageBacked, SumOf

(* The usage of the subscription, when every store access succeeds. *)
UsageAdds == faulty = {} /\ lastReset <= period /\ UsageSum

(* The usage follows what the requests take and give back. *)
LEMMA UsageAddsStep ==
  Faults \subseteq {"crash"} /\ Balanced /\ UsageAdds /\ [Next]_vars => UsageAdds'
<1> SUFFICES ASSUME Faults \subseteq {"crash"}, Balanced, UsageAdds, [Next]_vars PROVE UsageAdds'
  OBVIOUS
<1> DEFINE T == SumOf(paidS, Requests)
<1>0. TypeOK /\ TypeOK' /\ IsFiniteSet(Requests)
  BY TypeStep, BillingAssumption DEF Balanced
<1>1. /\ subUsed \in Nat /\ period \in Nat /\ lastReset \in Nat /\ lastReset <= period
      /\ \A r \in Requests : paidS[r] \in Int /\ paidS'[r] \in Int /\ paidS[r] >= 0
  BY <1>0 DEF TypeOK, TypeStore, TypeGhost, Balanced, SessionFits, Books, UsageAdds
<1>2. faulty' = {}
  <2>1. ASSUME NEW r \in Requests, Start(r) \/ Step(r) PROVE faulty' = {}
    BY <1>0, <2>1, FaultyStep DEF UsageAdds
  <2>2. CASE \/ SubscriptionEnds \/ PeriodEnds \/ ResetDueSubscriptions \/ Crash \/ Finished
             \/ UNCHANGED vars
    BY <2>2 DEF SubscriptionEnds, PeriodEnds, ResetDueSubscriptions, Crash, Finished, vars,
       ghostVars, UsageAdds
  <2> QED
    BY <2>1, <2>2 DEF Next
<1>3. T \in Int /\ (IF period = 0 THEN subUsed = T ELSE subUsed <= T)
  BY <1>0, <1>1, SumOfInt DEF UsageAdds, UsageSum
<1>4. ASSUME NEW r \in Requests, Start(r) \/ Step(r) PROVE UsageAdds'
  <2> DEFINE d == paidS'[r] - paidS[r]
  <2>1. T' = T + d
    <3>1. \A q \in Requests \ {r} : paidS[q] = paidS'[q]
      BY <1>0, <1>4, OthersStep DEF Untouched
    <3> QED
      BY <1>0, <1>1, <3>1, SumOfChange
  <2>2. T' >= 0
    <3>1. Balanced'
      BY BalancedStep
    <3>2. \A q \in Requests : paidS'[q] \in Int /\ paidS'[q] >= 0
      BY <1>1, <1>2, <3>1 DEF Balanced, SessionFits, Books
    <3> QED
      BY <1>0, <3>2, SumNotNegative
  <2>3. T >= 0 /\ d \in Int
    BY <1>0, <1>1, SumNotNegative
  <2>4. /\ period' = period
        /\ \/ subUsed' = subUsed /\ lastReset' = lastReset /\ d = 0
           \/ subUsed' = Max2(0, subUsed + d) /\ lastReset' = lastReset
           \/ subUsed' = UsageAfterReset + d /\ lastReset' = period
    BY <1>0, <1>1, <1>4, UsageMove
  <2> HIDE DEF T, d
  <2>5. lastReset' <= period'
    BY <1>1, <2>4
  <2>6. IF period' = 0 THEN subUsed' = T' ELSE subUsed' <= T'
    BY <1>1, <1>3, <2>1, <2>2, <2>3, <2>4 DEF UsageAfterReset, Max2
  <2>7. UsageSum'
    BY <2>6 DEF T, UsageSum
  <2> QED
    BY <1>2, <2>5, <2>7 DEF UsageAdds
<1>5. CASE \/ SubscriptionEnds \/ PeriodEnds \/ ResetDueSubscriptions \/ Crash \/ Finished
           \/ UNCHANGED vars
  <2>1. T' = T
    BY <1>5 DEF SubscriptionEnds, PeriodEnds, ResetDueSubscriptions, Crash, Finished, vars,
       storeVars, localVars, ghostVars, sessVars
  <2>2. T >= 0
    BY <1>0, <1>1, SumNotNegative
  <2>3. /\ lastReset' <= period'
        /\ IF period' = 0 THEN subUsed' = T ELSE subUsed' <= T
    <3> HIDE DEF T
    <3> QED
      BY <1>1, <1>3, <1>5, <2>2, BillingAssumption DEF SubscriptionEnds, PeriodEnds,
         ResetDueSubscriptions, Crash, Finished, vars, storeVars, localVars, ghostVars, sessVars
  <2>4. UsageSum'
    BY <2>1, <2>3 DEF UsageSum
  <2> QED
    BY <1>2, <2>3, <2>4 DEF UsageAdds
<1> QED
  BY <1>4, <1>5 DEF Next

(* When every store access succeeds, but the process may stop anywhere,    *)
(* the usage of the subscription is what the requests took, or less after  *)
(* a reset; the clamp of PostConsumeUserSubscriptionDelta never hides a    *)
(* refund that was not taken before.                                       *)
THEOREM BillingSubUsageBacked == Spec /\ Faults \subseteq {"crash"} => []SubUsageBacked
<1>1. Init => UsageAdds
  <2> SUFFICES ASSUME Init PROVE UsageAdds
    OBVIOUS
  <2>1. \A r \in Requests : paidS[r] = 0
    BY DEF Init
  <2>2. SumOf(paidS, Requests) = 0
    BY <2>1, BillingAssumption, SumOfZero
  <2> QED
    BY <2>2 DEF Init, UsageAdds, UsageSum
<1> DEFINE F == Faults \subseteq {"crash"}
<1>2. F /\ Balanced /\ UsageAdds /\ [Next]_vars => UsageAdds'
  BY UsageAddsStep
<1>3. UsageAdds => SubUsageBacked
  BY UsageSumBacks DEF UsageAdds
<1>4. F => F'
  OBVIOUS
<1> HIDE DEF F
<1>5. Spec /\ F => []SubUsageBacked
  BY <1>1, <1>2, <1>3, <1>4, BooksBalance, PTL DEF Spec
<1> QED
  BY <1>5 DEF F

=============================================================================
