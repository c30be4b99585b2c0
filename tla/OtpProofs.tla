------------------------------ MODULE OtpProofs ------------------------------
(***************************************************************************)
(* One-time codes for any number of codes, requests and attempts, and the  *)
(* budget of attempts in front of them for any number of hits.             *)
(***************************************************************************)
EXTENDS AccountCache, FiniteSetTheorems, FunctionTheorems, TLAPS

\* Only a stored code is found, and only a sent one has a record or a past.
OnlyStored ==
  /\ pointer # None => stage[pointer] = "stored"
  /\ \A r \in Requests : issuance[r] # None => stage[issuance[r]] = "stored"
  /\ \A i \in records \cup expired \cup lost : stage[i] # "new"

\* Where a request is says what it knows.
Placed ==
  \A r \in Requests :
    /\ at[r] \in {"start", "found", "counting", "raising"} => attempt[r] = 0
    /\ at[r] \in {"start", "found", "counting", "raising", "counted"} => r \notin compared
    /\ at[r] = "counted" => attempt[r] # 0
    /\ at[r] \notin {"start", "refused"} => issuance[r] # None
    /\ at[r] = "burning" => attempt[r] = MaxAttempts
    /\ at[r] = "accepted" => issuance[r] \notin records

\* After the cache is lost nothing can be compared with the codes of before.
LostClosed ==
  \A i \in lost :
    /\ i \notin records
    /\ \A r \in Requests :
         issuance[r] = i /\ at[r] \in {"counting", "raising", "counted"} => pointer # i

Fresh == Issuances \ (expired \cup lost)

\* Until its deadline the counter of a code hands out each number once.
CountedOnce ==
  \A i \in Fresh : \A r \in Requests : issuance[r] = i =>
    /\ attempt[r] <= tries[i]
    /\ at[r] = "raising" => tries[i] # 0
    /\ \A s \in Requests :
         issuance[s] = i /\ r # s /\ attempt[r] # 0 => attempt[r] # attempt[s]

\* The guesses compared with a code carry different numbers within the budget.
ComparedOnce ==
  \A r \in compared :
    /\ attempt[r] \in 1..MaxAttempts
    /\ issuance[r] # None
    /\ \A s \in compared : r # s /\ issuance[r] = issuance[s] => attempt[r] # attempt[s]

OtpInv ==
  /\ TypeOK /\ OnlyStored /\ Placed /\ LostClosed /\ CountedOnce /\ ComparedOnce
  /\ SingleUse /\ KeptUntilSpent

\* A request past its first read has found a code, so its counter is a number.
LEMMA TypeStep ==
  ASSUME TypeOK, Placed, [Next]_vars
  PROVE  TypeOK'
<1>1. ASSUME NEW i \in Issuances, StoreRecord(i) PROVE TypeOK'
  BY <1>1 DEF TypeOK, StoreRecord, requestVars
<1>2. ASSUME NEW i \in Issuances, StorePointer(i) PROVE TypeOK'
  BY <1>2 DEF TypeOK, StorePointer, requestVars
<1>3. ASSUME NEW r \in Requests, ReadPointer(r) PROVE TypeOK'
  BY <1>3 DEF TypeOK, ReadPointer, Goto, cacheVars, Places
<1>4. ASSUME NEW r \in Requests, ReadRecord(r) PROVE TypeOK'
  BY <1>4 DEF TypeOK, ReadRecord, Goto, cacheVars, Places
<1>5. ASSUME NEW r \in Requests, AddCounter(r) PROVE TypeOK'
  BY <1>5 DEF TypeOK, AddCounter, Goto, Places
<1>6. ASSUME NEW r \in Requests, RaiseCounter(r) PROVE TypeOK'
  BY <1>6, AttemptsAreCounted DEF TypeOK, Placed, RaiseCounter, Goto, Places
<1>7. ASSUME NEW r \in Requests, NEW right \in BOOLEAN, Compare(r, right) PROVE TypeOK'
  BY <1>7 DEF TypeOK, Compare, Goto, cacheVars, Places
<1>8. ASSUME NEW r \in Requests, Burn(r) PROVE TypeOK'
  BY <1>8 DEF TypeOK, Burn, Goto, Places
<1>9. ASSUME NEW r \in Requests, Spend(r) PROVE TypeOK'
  BY <1>9 DEF TypeOK, Spend, Goto, Places
<1>10. ASSUME NEW i \in Issuances, PassDeadline(i) PROVE TypeOK'
  BY <1>10 DEF TypeOK, PassDeadline, cacheVars, requestVars
<1>11. ASSUME NEW i \in Issuances, DropRecord(i) PROVE TypeOK'
  BY <1>11 DEF TypeOK, DropRecord, requestVars
<1>12. ASSUME NEW i \in Issuances, DropCounter(i) PROVE TypeOK'
  BY <1>12 DEF TypeOK, DropCounter, requestVars
<1>13. CASE DropPointer
  BY <1>13 DEF TypeOK, DropPointer, requestVars
<1>14. CASE LoseCache
  BY <1>14 DEF TypeOK, LoseCache, requestVars
<1>15. CASE UNCHANGED vars
  BY <1>15 DEF TypeOK, vars, cacheVars, requestVars
<1>16. QED
  BY <1>1, <1>2, <1>3, <1>4, <1>5, <1>6, <1>7, <1>8, <1>9, <1>10, <1>11, <1>12,
     <1>13, <1>14, <1>15 DEF Next, Send, Verify, Cache

\* A code's key is written last, after its record.
LEMMA OnlyStoredStep ==
  ASSUME TypeOK, OnlyStored, [Next]_vars
  PROVE  OnlyStored'
<1>1. ASSUME NEW i \in Issuances, StoreRecord(i) PROVE OnlyStored'
  BY <1>1 DEF TypeOK, OnlyStored, StoreRecord, cacheVars, requestVars
<1>2. ASSUME NEW i \in Issuances, StorePointer(i) PROVE OnlyStored'
  BY <1>2 DEF TypeOK, OnlyStored, StorePointer, cacheVars, requestVars
<1>3. ASSUME NEW r \in Requests, ReadPointer(r) PROVE OnlyStored'
  BY <1>3 DEF TypeOK, OnlyStored, ReadPointer, Goto, cacheVars, requestVars
<1>4. ASSUME NEW r \in Requests, ReadRecord(r) PROVE OnlyStored'
  BY <1>4 DEF TypeOK, OnlyStored, ReadRecord, Goto, cacheVars, requestVars
<1>5. ASSUME NEW r \in Requests, AddCounter(r) PROVE OnlyStored'
  BY <1>5 DEF TypeOK, OnlyStored, AddCounter, Goto, cacheVars, requestVars
<1>6. ASSUME NEW r \in Requests, RaiseCounter(r) PROVE OnlyStored'
  BY <1>6 DEF TypeOK, OnlyStored, RaiseCounter, Goto, cacheVars, requestVars
<1>7. ASSUME NEW r \in Requests, NEW right \in BOOLEAN, Compare(r, right) PROVE OnlyStored'
  BY <1>7 DEF TypeOK, OnlyStored, Compare, Goto, cacheVars, requestVars
<1>8. ASSUME NEW r \in Requests, Burn(r) PROVE OnlyStored'
  BY <1>8 DEF TypeOK, OnlyStored, Burn, Goto, cacheVars, requestVars
<1>9. ASSUME NEW r \in Requests, Spend(r) PROVE OnlyStored'
  BY <1>9 DEF OnlyStored, Spend
<1>10. ASSUME NEW i \in Issuances, PassDeadline(i) PROVE OnlyStored'
  BY <1>10 DEF TypeOK, OnlyStored, PassDeadline, cacheVars, requestVars
<1>11. ASSUME NEW i \in Issuances, DropRecord(i) PROVE OnlyStored'
  BY <1>11 DEF TypeOK, OnlyStored, DropRecord, cacheVars, requestVars
<1>12. ASSUME NEW i \in Issuances, DropCounter(i) PROVE OnlyStored'
  BY <1>12 DEF TypeOK, OnlyStored, DropCounter, cacheVars, requestVars
<1>13. CASE DropPointer
  BY <1>13 DEF TypeOK, OnlyStored, DropPointer, cacheVars, requestVars
<1>14. CASE LoseCache
  BY <1>14 DEF TypeOK, OnlyStored, LoseCache, cacheVars, requestVars
<1>15. CASE UNCHANGED vars
  BY <1>15 DEF TypeOK, OnlyStored, vars, cacheVars, requestVars
<1>16. QED
  BY <1>1, <1>2, <1>3, <1>4, <1>5, <1>6, <1>7, <1>8, <1>9, <1>10, <1>11, <1>12,
     <1>13, <1>14, <1>15 DEF Next, Send, Verify, Cache

\* A step moves one request, or none.
LEMMA PlacedStep ==
  ASSUME TypeOK, OnlyStored, Placed, [Next]_vars
  PROVE  Placed'
<1>1. ASSUME NEW i \in Issuances, StoreRecord(i) PROVE Placed'
  BY <1>1, NoneIsNoIssuance DEF TypeOK, OnlyStored, Placed, StoreRecord, requestVars
<1>2. ASSUME NEW i \in Issuances, StorePointer(i) PROVE Placed'
  BY <1>2 DEF Placed, StorePointer, requestVars
<1>3. ASSUME NEW r \in Requests, ReadPointer(r) PROVE Placed'
  BY <1>3 DEF TypeOK, Placed, ReadPointer, Goto, cacheVars
<1>4. ASSUME NEW r \in Requests, ReadRecord(r) PROVE Placed'
  BY <1>4 DEF Placed, ReadRecord, Goto, cacheVars
<1>5. ASSUME NEW r \in Requests, AddCounter(r) PROVE Placed'
  BY <1>5 DEF TypeOK, Placed, AddCounter, Goto
<1>6. ASSUME NEW r \in Requests, RaiseCounter(r) PROVE Placed'
  BY <1>6, AttemptsAreCounted DEF TypeOK, Placed, RaiseCounter, Goto
<1>7. ASSUME NEW r \in Requests, NEW right \in BOOLEAN, Compare(r, right) PROVE Placed'
  BY <1>7 DEF TypeOK, Placed, Compare, LastTry, Goto, cacheVars
<1>8. ASSUME NEW r \in Requests, Burn(r) PROVE Placed'
  BY <1>8 DEF Placed, Burn, Goto
<1>9. ASSUME NEW r \in Requests, Spend(r) PROVE Placed'
  BY <1>9 DEF Placed, Spend, Goto
<1>10. ASSUME NEW i \in Issuances, PassDeadline(i) PROVE Placed'
  BY <1>10 DEF Placed, PassDeadline, cacheVars, requestVars
<1>11. ASSUME NEW i \in Issuances, DropRecord(i) PROVE Placed'
  BY <1>11 DEF Placed, DropRecord, requestVars
<1>12. ASSUME NEW i \in Issuances, DropCounter(i) PROVE Placed'
  BY <1>12 DEF Placed, DropCounter, requestVars
<1>13. CASE DropPointer
  BY <1>13 DEF Placed, DropPointer, requestVars
<1>14. CASE LoseCache
  BY <1>14 DEF Placed, LoseCache, requestVars
<1>15. CASE UNCHANGED vars
  BY <1>15 DEF Placed, vars, cacheVars, requestVars
<1>16. QED
  BY <1>1, <1>2, <1>3, <1>4, <1>5, <1>6, <1>7, <1>8, <1>9, <1>10, <1>11, <1>12,
     <1>13, <1>14, <1>15 DEF Next, Send, Verify, Cache

\* A key found before the loss of the cache is never written again.
LEMMA LostClosedStep ==
  ASSUME TypeOK, OnlyStored, LostClosed, [Next]_vars
  PROVE  LostClosed'
<1>1. ASSUME NEW i \in Issuances, StoreRecord(i) PROVE LostClosed'
  BY <1>1 DEF OnlyStored, LostClosed, StoreRecord, requestVars
<1>2. ASSUME NEW i \in Issuances, StorePointer(i) PROVE LostClosed'
  BY <1>2, NoneIsNoIssuance DEF TypeOK, OnlyStored, LostClosed, StorePointer, requestVars
<1>3. ASSUME NEW r \in Requests, ReadPointer(r) PROVE LostClosed'
  BY <1>3 DEF LostClosed, ReadPointer, Goto, cacheVars
<1>4. ASSUME NEW r \in Requests, ReadRecord(r) PROVE LostClosed'
  BY <1>4 DEF LostClosed, ReadRecord, Goto, cacheVars
<1>5. ASSUME NEW r \in Requests, AddCounter(r) PROVE LostClosed'
  BY <1>5 DEF TypeOK, LostClosed, AddCounter, Goto
<1>6. ASSUME NEW r \in Requests, RaiseCounter(r) PROVE LostClosed'
  BY <1>6 DEF LostClosed, RaiseCounter, Goto
<1>7. ASSUME NEW r \in Requests, NEW right \in BOOLEAN, Compare(r, right) PROVE LostClosed'
  BY <1>7 DEF LostClosed, Compare, Goto, cacheVars
<1>8. ASSUME NEW r \in Requests, Burn(r) PROVE LostClosed'
  BY <1>8 DEF LostClosed, Burn, Goto
<1>9. ASSUME NEW r \in Requests, Spend(r) PROVE LostClosed'
  BY <1>9 DEF LostClosed, Spend, Goto
<1>10. ASSUME NEW i \in Issuances, PassDeadline(i) PROVE LostClosed'
  BY <1>10 DEF OnlyStored, LostClosed, PassDeadline, cacheVars, requestVars
<1>11. ASSUME NEW i \in Issuances, DropRecord(i) PROVE LostClosed'
  BY <1>11 DEF LostClosed, DropRecord, requestVars
<1>12. ASSUME NEW i \in Issuances, DropCounter(i) PROVE LostClosed'
  BY <1>12 DEF LostClosed, DropCounter, requestVars
<1>13. CASE DropPointer
  BY <1>13, NoneIsNoIssuance DEF TypeOK, LostClosed, DropPointer
<1>14. CASE LoseCache
  BY <1>14, NoneIsNoIssuance DEF LostClosed, LoseCache
<1>15. CASE UNCHANGED vars
  BY <1>15 DEF LostClosed, vars, cacheVars, requestVars
<1>16. QED
  BY <1>1, <1>2, <1>3, <1>4, <1>5, <1>6, <1>7, <1>8, <1>9, <1>10, <1>11, <1>12,
     <1>13, <1>14, <1>15 DEF Next, Send, Verify, Cache

\* A counter that is not yet over only grows, and what it gives out is its new value.
LEMMA CountedOnceStep ==
  ASSUME TypeOK, OnlyStored, Placed, CountedOnce, [Next]_vars
  PROVE  CountedOnce'
<1>1. ASSUME NEW i \in Issuances, StoreRecord(i) PROVE CountedOnce'
  BY <1>1 DEF CountedOnce, Fresh, StoreRecord, requestVars
<1>2. ASSUME NEW i \in Issuances, StorePointer(i) PROVE CountedOnce'
  BY <1>2 DEF CountedOnce, Fresh, StorePointer, requestVars
<1>3. ASSUME NEW r \in Requests, ReadPointer(r) PROVE CountedOnce'
  BY <1>3 DEF TypeOK, Placed, CountedOnce, Fresh, ReadPointer, Goto, cacheVars
<1>4. ASSUME NEW r \in Requests, ReadRecord(r) PROVE CountedOnce'
  BY <1>4 DEF CountedOnce, Fresh, ReadRecord, Goto, cacheVars
<1>5. ASSUME NEW r \in Requests, AddCounter(r) PROVE CountedOnce'
  BY <1>5 DEF TypeOK, CountedOnce, Fresh, AddCounter, Goto
<1>6. ASSUME NEW r \in Requests, RaiseCounter(r) PROVE CountedOnce'
  BY <1>6 DEF TypeOK, CountedOnce, Fresh, RaiseCounter, Goto
<1>7. ASSUME NEW r \in Requests, NEW right \in BOOLEAN, Compare(r, right) PROVE CountedOnce'
  BY <1>7 DEF CountedOnce, Fresh, Compare, Goto, cacheVars
<1>8. ASSUME NEW r \in Requests, Burn(r) PROVE CountedOnce'
  BY <1>8 DEF CountedOnce, Fresh, Burn, Goto
<1>9. ASSUME NEW r \in Requests, Spend(r) PROVE CountedOnce'
  BY <1>9 DEF CountedOnce, Fresh, Spend, Goto
<1>10. ASSUME NEW i \in Issuances, PassDeadline(i) PROVE CountedOnce'
  BY <1>10 DEF CountedOnce, Fresh, PassDeadline, cacheVars, requestVars
<1>11. ASSUME NEW i \in Issuances, DropRecord(i) PROVE CountedOnce'
  BY <1>11 DEF CountedOnce, Fresh, DropRecord, requestVars
<1>12. ASSUME NEW i \in Issuances, DropCounter(i) PROVE CountedOnce'
  BY <1>12 DEF CountedOnce, Fresh, DropCounter, requestVars
<1>13. CASE DropPointer
  BY <1>13 DEF CountedOnce, Fresh, DropPointer, requestVars
<1>14. CASE LoseCache
  BY <1>14, NoneIsNoIssuance DEF TypeOK, OnlyStored, CountedOnce, Fresh, LoseCache,
     requestVars
<1>15. CASE UNCHANGED vars
  BY <1>15 DEF CountedOnce, Fresh, vars, cacheVars, requestVars
<1>16. QED
  BY <1>1, <1>2, <1>3, <1>4, <1>5, <1>6, <1>7, <1>8, <1>9, <1>10, <1>11, <1>12,
     <1>13, <1>14, <1>15 DEF Next, Send, Verify, Cache

\* Only Compare adds a request, and only under a key that is in force and in time:
\* its code is fresh, so its number is new.
LEMMA ComparedOnceStep ==
  ASSUME OtpInv, [Next]_vars
  PROVE  ComparedOnce'
<1>1. ASSUME NEW i \in Issuances, StoreRecord(i) PROVE ComparedOnce'
  BY <1>1 DEF OtpInv, ComparedOnce, StoreRecord, requestVars
<1>2. ASSUME NEW i \in Issuances, StorePointer(i) PROVE ComparedOnce'
  BY <1>2 DEF OtpInv, ComparedOnce, StorePointer, requestVars
<1>3. ASSUME NEW r \in Requests, ReadPointer(r) PROVE ComparedOnce'
  BY <1>3 DEF OtpInv, Placed, ComparedOnce, ReadPointer
<1>4. ASSUME NEW r \in Requests, ReadRecord(r) PROVE ComparedOnce'
  BY <1>4 DEF OtpInv, ComparedOnce, ReadRecord
<1>5. ASSUME NEW r \in Requests, AddCounter(r) PROVE ComparedOnce'
  BY <1>5 DEF OtpInv, TypeOK, Placed, ComparedOnce, AddCounter
<1>6. ASSUME NEW r \in Requests, RaiseCounter(r) PROVE ComparedOnce'
  BY <1>6 DEF OtpInv, TypeOK, Placed, ComparedOnce, RaiseCounter
<1>7. ASSUME NEW r \in Requests, NEW right \in BOOLEAN, Compare(r, right) PROVE ComparedOnce'
  BY <1>7 DEF OtpInv, TypeOK, Placed, LostClosed, CountedOnce, Fresh, ComparedOnce,
     Compare, WithinBudget
<1>8. ASSUME NEW r \in Requests, Burn(r) PROVE ComparedOnce'
  BY <1>8 DEF OtpInv, ComparedOnce, Burn
<1>9. ASSUME NEW r \in Requests, Spend(r) PROVE ComparedOnce'
  BY <1>9 DEF OtpInv, ComparedOnce, Spend
<1>10. ASSUME NEW i \in Issuances, PassDeadline(i) PROVE ComparedOnce'
  BY <1>10 DEF OtpInv, ComparedOnce, PassDeadline, requestVars
<1>11. ASSUME NEW i \in Issuances, DropRecord(i) PROVE ComparedOnce'
  BY <1>11 DEF OtpInv, ComparedOnce, DropRecord, requestVars
<1>12. ASSUME NEW i \in Issuances, DropCounter(i) PROVE ComparedOnce'
  BY <1>12 DEF OtpInv, ComparedOnce, DropCounter, requestVars
<1>13. CASE DropPointer
  BY <1>13 DEF OtpInv, ComparedOnce, DropPointer, requestVars
<1>14. CASE LoseCache
  BY <1>14 DEF OtpInv, ComparedOnce, LoseCache, requestVars
<1>15. CASE UNCHANGED vars
  BY <1>15 DEF OtpInv, ComparedOnce, vars, requestVars
<1>16. QED
  BY <1>1, <1>2, <1>3, <1>4, <1>5, <1>6, <1>7, <1>8, <1>9, <1>10, <1>11, <1>12,
     <1>13, <1>14, <1>15 DEF Next, Send, Verify, Cache

\* To be accepted is to delete the record, and a code gets its record once.
LEMMA SingleUseStep ==
  ASSUME TypeOK, OnlyStored, Placed, SingleUse, [Next]_vars
  PROVE  SingleUse'
<1>1. ASSUME NEW i \in Issuances, StoreRecord(i) PROVE SingleUse'
  BY <1>1 DEF SingleUse, StoreRecord, requestVars
<1>2. ASSUME NEW i \in Issuances, StorePointer(i) PROVE SingleUse'
  BY <1>2 DEF SingleUse, StorePointer, requestVars
<1>3. ASSUME NEW r \in Requests, ReadPointer(r) PROVE SingleUse'
  BY <1>3 DEF SingleUse, ReadPointer, Goto
<1>4. ASSUME NEW r \in Requests, ReadRecord(r) PROVE SingleUse'
  BY <1>4 DEF SingleUse, ReadRecord, Goto
<1>5. ASSUME NEW r \in Requests, AddCounter(r) PROVE SingleUse'
  BY <1>5 DEF TypeOK, SingleUse, AddCounter, Goto
<1>6. ASSUME NEW r \in Requests, RaiseCounter(r) PROVE SingleUse'
  BY <1>6 DEF SingleUse, RaiseCounter, Goto
<1>7. ASSUME NEW r \in Requests, NEW right \in BOOLEAN, Compare(r, right) PROVE SingleUse'
  BY <1>7 DEF SingleUse, Compare, Goto
<1>8. ASSUME NEW r \in Requests, Burn(r) PROVE SingleUse'
  BY <1>8 DEF SingleUse, Burn, Goto
<1>9. ASSUME NEW r \in Requests, Spend(r) PROVE SingleUse'
  BY <1>9 DEF Placed, SingleUse, Spend, Spent, Goto
<1>10. ASSUME NEW i \in Issuances, PassDeadline(i) PROVE SingleUse'
  BY <1>10 DEF SingleUse, PassDeadline, requestVars
<1>11. ASSUME NEW i \in Issuances, DropRecord(i) PROVE SingleUse'
  BY <1>11 DEF SingleUse, DropRecord, requestVars
<1>12. ASSUME NEW i \in Issuances, DropCounter(i) PROVE SingleUse'
  BY <1>12 DEF SingleUse, DropCounter, requestVars
<1>13. CASE DropPointer
  BY <1>13 DEF SingleUse, DropPointer, requestVars
<1>14. CASE LoseCache
  BY <1>14 DEF SingleUse, LoseCache, requestVars
<1>15. CASE UNCHANGED vars
  BY <1>15 DEF SingleUse, vars, requestVars
<1>16. QED
  BY <1>1, <1>2, <1>3, <1>4, <1>5, <1>6, <1>7, <1>8, <1>9, <1>10, <1>11, <1>12,
     <1>13, <1>14, <1>15 DEF Next, Send, Verify, Cache

\* A fresh code's record goes by Spend, or by Burn at the number that spends the budget.
LEMMA KeptStep ==
  ASSUME OtpInv, [Next]_vars
  PROVE  KeptUntilSpent'
<1>1. ASSUME NEW i \in Issuances, StoreRecord(i) PROVE KeptUntilSpent'
  BY <1>1 DEF OtpInv, KeptUntilSpent, StoreRecord, requestVars
<1>2. ASSUME NEW i \in Issuances, StorePointer(i) PROVE KeptUntilSpent'
  BY <1>2 DEF OtpInv, KeptUntilSpent, StorePointer, requestVars
<1>3. ASSUME NEW r \in Requests, ReadPointer(r) PROVE KeptUntilSpent'
  BY <1>3 DEF OtpInv, KeptUntilSpent, ReadPointer, Goto, cacheVars
<1>4. ASSUME NEW r \in Requests, ReadRecord(r) PROVE KeptUntilSpent'
  BY <1>4 DEF OtpInv, KeptUntilSpent, ReadRecord, Goto, cacheVars
<1>5. ASSUME NEW r \in Requests, AddCounter(r) PROVE KeptUntilSpent'
  BY <1>5, AttemptsAreCounted DEF OtpInv, TypeOK, KeptUntilSpent, AddCounter, Goto
<1>6. ASSUME NEW r \in Requests, RaiseCounter(r) PROVE KeptUntilSpent'
  BY <1>6, AttemptsAreCounted DEF OtpInv, TypeOK, KeptUntilSpent, RaiseCounter, Goto
<1>7. ASSUME NEW r \in Requests, NEW right \in BOOLEAN, Compare(r, right) PROVE KeptUntilSpent'
  BY <1>7 DEF OtpInv, KeptUntilSpent, Compare, Goto, cacheVars
<1>8. ASSUME NEW r \in Requests, Burn(r) PROVE KeptUntilSpent'
  BY <1>8 DEF OtpInv, Placed, CountedOnce, Fresh, KeptUntilSpent, Burn, Goto
<1>9. ASSUME NEW r \in Requests, Spend(r) PROVE KeptUntilSpent'
  BY <1>9 DEF OtpInv, TypeOK, KeptUntilSpent, Spend, Spent, Goto
<1>10. ASSUME NEW i \in Issuances, PassDeadline(i) PROVE KeptUntilSpent'
  BY <1>10 DEF OtpInv, KeptUntilSpent, PassDeadline, cacheVars, requestVars
<1>11. ASSUME NEW i \in Issuances, DropRecord(i) PROVE KeptUntilSpent'
  BY <1>11 DEF OtpInv, KeptUntilSpent, DropRecord, requestVars
<1>12. ASSUME NEW i \in Issuances, DropCounter(i) PROVE KeptUntilSpent'
  BY <1>12 DEF OtpInv, KeptUntilSpent, DropCounter, requestVars
<1>13. CASE DropPointer
  BY <1>13 DEF OtpInv, OnlyStored, KeptUntilSpent, DropPointer, requestVars
<1>14. CASE LoseCache
  BY <1>14, NoneIsNoIssuance, AttemptsAreCounted DEF OtpInv, TypeOK, OnlyStored, Placed,
     LostClosed, KeptUntilSpent, LoseCache, cacheVars, requestVars, Places
<1>15. CASE UNCHANGED vars
  BY <1>15 DEF OtpInv, KeptUntilSpent, vars, cacheVars, requestVars
<1>16. QED
  BY <1>1, <1>2, <1>3, <1>4, <1>5, <1>6, <1>7, <1>8, <1>9, <1>10, <1>11, <1>12,
     <1>13, <1>14, <1>15 DEF Next, Send, Verify, Cache

LEMMA OtpInit == Init => OtpInv
<1> SUFFICES ASSUME Init PROVE OtpInv
  OBVIOUS
<1>1. TypeOK
  BY DEF Init, TypeOK, Places
<1>2. OnlyStored /\ Placed /\ LostClosed
  BY DEF Init, OnlyStored, Placed, LostClosed
<1>3. CountedOnce /\ ComparedOnce
  BY DEF Init, CountedOnce, ComparedOnce, Fresh
<1>4. SingleUse /\ KeptUntilSpent
  BY DEF Init, SingleUse, KeptUntilSpent
<1>5. QED
  BY <1>1, <1>2, <1>3, <1>4 DEF OtpInv

LEMMA OtpStep ==
  ASSUME OtpInv, [Next]_vars
  PROVE  OtpInv'
<1>1. TypeOK' /\ OnlyStored' /\ Placed' /\ LostClosed'
  BY TypeStep, OnlyStoredStep, PlacedStep, LostClosedStep DEF OtpInv
<1>2. CountedOnce' /\ ComparedOnce'
  BY CountedOnceStep, ComparedOnceStep DEF OtpInv
<1>3. SingleUse' /\ KeptUntilSpent'
  BY SingleUseStep, KeptStep DEF OtpInv
<1>4. QED
  BY <1>1, <1>2, <1>3 DEF OtpInv

LEMMA OtpInvariant == Spec => []OtpInv
<1>1. Init => OtpInv
  BY OtpInit
<1>2. OtpInv /\ [Next]_vars => OtpInv'
  BY OtpStep
<1>3. QED
  BY <1>1, <1>2, PTL DEF Spec

\* Distinct numbers within the budget: no more requests than numbers.
LEMMA ComparedWithinBudget == TypeOK /\ ComparedOnce => GuessBudget
<1> SUFFICES ASSUME TypeOK, ComparedOnce, NEW i \in Issuances
             PROVE  Cardinality({r \in compared : issuance[r] = i}) <= MaxAttempts
  BY DEF GuessBudget
<1> DEFINE guesses == {r \in compared : issuance[r] = i}
           number == [r \in guesses |-> attempt[r]]
<1>1. number \in [guesses -> 1..MaxAttempts]
  BY DEF ComparedOnce
<1>2. \A r, s \in guesses : number[r] = number[s] => r = s
  BY DEF ComparedOnce
<1>3. number \in Injection(guesses, 1..MaxAttempts)
  <2> HIDE DEF guesses, number
  <2> QED
    BY <1>1, <1>2, Fun_IsInj
<1>4. /\ IsFiniteSet(1..MaxAttempts)
      /\ Cardinality(1..MaxAttempts) = MaxAttempts
  BY AttemptsAreCounted, FS_Interval
<1>5. QED
  BY <1>3, <1>4, FS_Injection

\* The cache, the counters and the requests stay what they are meant to be: a
\* number handed out by _count_attempt is always a natural number.
THEOREM OtpTypeCorrect == Spec => []TypeOK
<1>1. OtpInv => TypeOK
  BY DEF OtpInv
<1>2. QED
  BY <1>1, OtpInvariant, PTL

\* verify accepts a code once, for any number of codes and of requests that
\* carry it, whatever expires or is lost under them.
THEOREM CodeSignsInOnce == Spec => []SingleUse
<1>1. OtpInv => SingleUse
  BY DEF OtpInv
<1>2. QED
  BY <1>1, OtpInvariant, PTL

\* No interleaving of verify calls compares more than MaxAttempts guesses with
\* one code before its deadline, for any MaxAttempts.
THEOREM GuessesAreLimited == Spec => []GuessBudget
<1>1. OtpInv => GuessBudget
  BY ComparedWithinBudget DEF OtpInv
<1>2. QED
  BY <1>1, OtpInvariant, PTL

\* No late request and no second send deletes a code that is still good.
THEOREM CodeKeptUntilSpent == Spec => []KeptUntilSpent
<1>1. OtpInv => KeptUntilSpent
  BY DEF OtpInv
<1>2. QED
  BY <1>1, OtpInvariant, PTL

-----------------------------------------------------------------------------
(* The budget of attempts in front of the codes (RateLimit) *)

\* A window's hits are counted, and no more of them let through than that.
BudgetInv ==
  /\ count \in Nat
  /\ place \in [Hits -> {"start", "raising", "restarting", "incrementing", "touching",
                         "passed", "refused"}]
  /\ IsFiniteSet(passed)
  /\ Cardinality(passed) <= count /\ Cardinality(passed) <= Times
  /\ Budget!EveryWindowEnds

LEMMA BudgetInit ==
  ASSUME Budget!Init
  PROVE  BudgetInv
<1>1. Cardinality({}) = 0 /\ IsFiniteSet({})
  BY FS_EmptySet
<1>2. QED
  BY <1>1, BudgetIsPositive DEF Budget!Init, BudgetInv, Budget!EveryWindowEnds

LEMMA WindowBegun ==
  ASSUME BudgetInv, NEW h \in Hits, Budget!Begin(h)
  PROVE  BudgetInv'
<1>1. IsFiniteSet({h}) /\ Cardinality({h}) = 1
  BY FS_Singleton
<1>2. QED
  BY <1>1, BudgetIsPositive DEF Budget!Begin, Budget!Goto, BudgetInv, Budget!EveryWindowEnds

LEMMA HitCounted ==
  ASSUME BudgetInv, NEW h \in Hits, Budget!Increment(h)
  PROVE  BudgetInv'
<1> DEFINE n == count + 1
           through == Budget!WithinTimes(n)
           before == IF count = 0 THEN {} ELSE passed
<1>1. IsFiniteSet(before) /\ Cardinality(before) \in Nat
      /\ Cardinality(before) <= count /\ Cardinality(before) <= Times
  BY FS_EmptySet, FS_CardinalityType DEF BudgetInv
<1>2. IsFiniteSet(before \cup {h})
      /\ Cardinality(before \cup {h}) \in {Cardinality(before), Cardinality(before) + 1}
  BY <1>1, FS_AddElement
<1>3. /\ Budget!At(h, "incrementing") /\ count' = n /\ ends' = (ends /\ count # 0)
      /\ passed' = before \cup (IF through THEN {h} ELSE {})
      /\ place' = [place EXCEPT ![h] = IF Budget!Lasting(n) THEN "touching"
                                       ELSE IF through THEN "passed" ELSE "refused"]
  BY DEF Budget!Increment, Budget!Goto
<1>4. passed' = IF through THEN before \cup {h} ELSE before
  BY <1>3
<1>5. /\ IsFiniteSet(passed') /\ Cardinality(passed') <= count'
      /\ Cardinality(passed') <= Times
  BY <1>1, <1>2, <1>3, <1>4, BudgetIsPositive
  DEF BudgetInv, Budget!WithinTimes
<1>6. Budget!EveryWindowEnds'
  <2>1. CASE count = 0
    <3>1. place'[h] = "touching"
      BY <1>3, <2>1 DEF BudgetInv, Budget!Lasting
    <3>2. QED
      BY <3>1 DEF Budget!EveryWindowEnds
  <2>2. CASE count # 0
    <3>1. \A g \in Hits : place[g] = "touching" => place'[g] = "touching"
      BY <1>3 DEF BudgetInv, Budget!At
    <3>2. QED
      BY <1>3, <2>2, <3>1 DEF BudgetInv, Budget!EveryWindowEnds
  <2>3. QED
    BY <2>1, <2>2
<1>7. QED
  BY <1>3, <1>5, <1>6 DEF BudgetInv

LEMMA BudgetStep ==
  ASSUME BudgetInv, [Budget!Next]_budgetVars
  PROVE  BudgetInv'
<1>1. ASSUME NEW h \in Hits, Budget!Add(h) \/ Budget!Restart(h) PROVE BudgetInv'
  <2>1. CASE Budget!Begin(h)
    BY <2>1, WindowBegun
  <2>2. CASE ~Budget!Begin(h)
    <3>1. place' = [place EXCEPT ![h] = "raising"] /\ UNCHANGED <<count, ends, passed>>
          /\ place[h] = "start"
      BY <1>1, <2>2 DEF Budget!Add, Budget!Restart, Budget!Goto, Budget!At
    <3>2. QED
      BY <3>1 DEF BudgetInv, Budget!EveryWindowEnds
  <2>3. QED
    BY <2>1, <2>2
<1>2. ASSUME NEW h \in Hits, Budget!Exists(h) PROVE BudgetInv'
  BY <1>2 DEF Budget!Exists, Budget!Goto, Budget!At, BudgetInv, Budget!EveryWindowEnds
<1>3. ASSUME NEW h \in Hits, Budget!Touch(h) PROVE BudgetInv'
  BY <1>3 DEF Budget!Touch, Budget!Goto, BudgetInv, Budget!EveryWindowEnds
<1>4. ASSUME NEW h \in Hits, Budget!Die(h) PROVE BudgetInv'
  BY <1>4 DEF Budget!Die, BudgetInv, Budget!EveryWindowEnds
<1>5. ASSUME Budget!Gone PROVE BudgetInv'
  <2>1. Cardinality({}) = 0 /\ IsFiniteSet({})
    BY FS_EmptySet
  <2>2. QED
    BY <1>5, <2>1, BudgetIsPositive
    DEF Budget!Gone, BudgetInv, Budget!EveryWindowEnds
<1>6. CASE UNCHANGED budgetVars
  BY <1>6 DEF budgetVars, BudgetInv, Budget!EveryWindowEnds
<1>7. QED
  BY <1>1, <1>2, <1>3, <1>4, <1>5, <1>6, HitCounted
  DEF Budget!Next, Budget!Expire, Budget!LoseCache, Budget!Reset

LEMMA BudgetInvariant == CacheSpec => []BudgetInv
<1>1. CacheInit => BudgetInv
  BY BudgetInit DEF CacheInit
<1>2. BudgetInv /\ [CacheNext]_<<vars, budgetVars>> => BudgetInv'
  BY BudgetStep DEF CacheNext
<1>3. QED
  BY <1>1, <1>2, PTL DEF CacheSpec

\* A budget's window always gets its end, unless a worker dies (ratelimit.hit).
THEOREM WindowsEnd == CacheSpec => []EveryWindowEnds
<1>1. BudgetInv => EveryWindowEnds
  BY DEF BudgetInv, EveryWindowEnds
<1>2. QED
  BY <1>1, BudgetInvariant, PTL

\* One window lets no more hits through than the limit (ratelimit.hit).
THEOREM WindowsKeepBudget == CacheSpec => []WindowBudget
<1>1. Budget!Cardinality(passed) = Cardinality(passed)
  BY DEF Cardinality, Budget!Cardinality
<1>2. BudgetInv => WindowBudget
  BY <1>1 DEF BudgetInv, WindowBudget, Budget!WindowBudget
<1>3. QED
  BY <1>2, BudgetInvariant, PTL

=============================================================================
