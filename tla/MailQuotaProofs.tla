--------------------------- MODULE MailQuotaProofs ---------------------------
(* Proofs that the mail allowance holds for any number of overlapping sends,   *)
(* any limits, days and months.  The step that matters is Count: whoever       *)
(* counts last has inserted its row before, and so has everyone else who was   *)
(* let through.                                                                *)
EXTENDS MailQuota, FiniteSetTheorems, TLAPS

\* Sends let through by their count.
Passed == LetThrough \ unchecked

PassedToday == {s \in Passed : Today(created[s], now)}
PassedThisMonth == {s \in Passed : ThisMonth(created[s], now)}
OtherToday == {s \in LetThrough \ Protected : Today(created[s], now)}
OtherThisMonth == {s \in LetThrough \ Protected : ThisMonth(created[s], now)}

\* What a send's row says of it by where the send is.
RowsTell ==
  \A s \in Sends :
    /\ at[s] \in {"inserted", "blocking"} => row[s] = "in_flight"
    /\ at[s] = "sending" /\ s \notin unchecked => row[s] = "in_flight"
    /\ at[s] = "finishing" /\ s \notin unchecked => row[s] = "in_flight"
    /\ at[s] = "finishing" => outcome[s] \in Outcomes
    /\ at[s] \notin {"finishing", "done"} => outcome[s] = "none"
    /\ at[s] = "done" /\ s \notin unchecked /\ outcome[s] # "rejected" => row[s] \in Counted
    /\ s \in unchecked => at[s] \in {"sending", "finishing", "done"}
    /\ created[s] <= now

DayKept == Cardinality(PassedToday) <= DayLimit /\ Cardinality(OtherToday) <= DayOther
MonthKept ==
  Cardinality(PassedThisMonth) <= MonthLimit /\ Cardinality(OtherThisMonth) <= MonthOther

QuotaInv == TypeOK /\ RowsTell /\ DayKept /\ MonthKept

-----------------------------------------------------------------------------

LEMMA SubsetIsNoLarger ==
  ASSUME NEW S \in SUBSET Sends, NEW T \in SUBSET S
  PROVE  Cardinality(T) <= Cardinality(S) /\ Cardinality(S) \in Nat
BY SendsAreFinite, FS_Subset, FS_CardinalityType

LEMMA TypeStep ==
  ASSUME QuotaInv, [Next]_vars
  PROVE  TypeOK'
<1> USE DEF QuotaInv, TypeOK, Places, Goto
<1>1. ASSUME NEW s \in Sends, Begin(s) PROVE TypeOK'
  BY <1>1 DEF Begin
<1>2. ASSUME NEW s \in Sends, Insert(s) PROVE TypeOK'
  BY <1>2 DEF Insert
<1>3. ASSUME NEW s \in Sends, InsertFails(s) PROVE TypeOK'
  BY <1>3 DEF InsertFails, LetThroughUnchecked
<1>4. ASSUME NEW s \in Sends, Count(s) PROVE TypeOK'
  BY <1>4, SendsAreFinite DEF Outcomes, Count
<1>5. ASSUME NEW s \in Sends, CountFails(s) PROVE TypeOK'
  BY <1>5 DEF CountFails, LetThroughUnchecked
<1>6. ASSUME NEW s \in Sends, Block(s) PROVE TypeOK'
  BY <1>6 DEF Block
<1>7. ASSUME NEW s \in Sends, BlockFails(s) PROVE TypeOK'
  BY <1>7 DEF BlockFails, LetThroughUnchecked
<1>8. ASSUME NEW s \in Sends, Send(s) PROVE TypeOK'
  BY <1>8 DEF Send
<1>9. ASSUME NEW s \in Sends, Finish(s) PROVE TypeOK'
  BY <1>9 DEF Finish
<1>10. ASSUME NEW s \in Sends, FinishFails(s) PROVE TypeOK'
  BY <1>10 DEF FinishFails
<1>11. CASE Tick
  BY <1>11, TimesAreNat DEF Tick
<1>12. CASE UNCHANGED vars
  BY <1>12 DEF vars
<1>13. QED
  BY <1>1, <1>2, <1>3, <1>4, <1>5, <1>6, <1>7, <1>8, <1>9, <1>10, <1>11, <1>12 DEF Next,
     Step

LEMMA RowsStep ==
  ASSUME QuotaInv, [Next]_vars
  PROVE  RowsTell'
<1> USE DEF QuotaInv, TypeOK, Places, Goto
<1>1. ASSUME NEW s \in Sends, Begin(s) PROVE RowsTell'
  BY <1>1 DEF RowsTell, Counted, Begin
<1>2. ASSUME NEW s \in Sends, Insert(s) PROVE RowsTell'
  BY <1>2 DEF RowsTell, Counted, Insert
<1>3. ASSUME NEW s \in Sends, InsertFails(s) PROVE RowsTell'
  BY <1>3 DEF RowsTell, Counted, InsertFails, LetThroughUnchecked
<1>4. ASSUME NEW s \in Sends, Count(s) PROVE RowsTell'
  BY <1>4 DEF RowsTell, Outcomes, Counted, Count
<1>5. ASSUME NEW s \in Sends, CountFails(s) PROVE RowsTell'
  BY <1>5 DEF RowsTell, Counted, CountFails, LetThroughUnchecked
<1>6. ASSUME NEW s \in Sends, Block(s) PROVE RowsTell'
  BY <1>6 DEF RowsTell, Counted, Block
<1>7. ASSUME NEW s \in Sends, BlockFails(s) PROVE RowsTell'
  BY <1>7 DEF RowsTell, Counted, BlockFails, LetThroughUnchecked
<1>8. ASSUME NEW s \in Sends, Send(s) PROVE RowsTell'
  BY <1>8 DEF RowsTell, Counted, Send
<1>9. ASSUME NEW s \in Sends, Finish(s) PROVE RowsTell'
  BY <1>9 DEF RowsTell, Outcomes, Counted, Finish
<1>10. ASSUME NEW s \in Sends, FinishFails(s) PROVE RowsTell'
  BY <1>10 DEF RowsTell, Counted, FinishFails
<1>11. CASE Tick
  BY <1>11, TimesAreNat DEF RowsTell, Counted, Tick
<1>12. CASE UNCHANGED vars
  BY <1>12 DEF RowsTell, Counted, vars
<1>13. QED
  BY <1>1, <1>2, <1>3, <1>4, <1>5, <1>6, <1>7, <1>8, <1>9, <1>10, <1>11, <1>12 DEF Next,
     Step

\* A later moment's windows begin later.
LEMMA EarlierWindows ==
  ASSUME NEW t \in Int, NEW u \in Int, t <= u
  PROVE  \A c \in Int : (Today(c, u) => Today(c, t)) /\ (ThisMonth(c, u) => ThisMonth(c, t))
<1>1. \A c \in Int : Today(c, u) => Today(c, t)
  BY TimesAreNat DEF Today
<1>2. \A start \in MonthStarts : start <= t => start <= u
  BY TimesAreNat
<1>3. QED
  BY <1>1, <1>2 DEF ThisMonth

\* But for a count, no step lets another send through on an allowance, changes
\* when one began, or turns the clock back.
Quiet ==
  /\ Passed' \subseteq Passed
  /\ (LetThrough \ Protected)' \subseteq LetThrough \ Protected
  /\ \A s \in LetThrough' : created'[s] = created[s]
  /\ now <= now'

LEMMA OthersAreQuiet ==
  ASSUME QuotaInv, [Next]_vars, ~ \E s \in Sends : Count(s)
  PROVE  Quiet
<1> USE DEF QuotaInv, TypeOK, RowsTell, Places, Goto, Quiet, Passed, LetThrough
<1>1. ASSUME NEW s \in Sends, Begin(s) PROVE Quiet
  BY <1>1 DEF Begin
<1>2. ASSUME NEW s \in Sends, Insert(s) PROVE Quiet
  BY <1>2 DEF Insert
<1>3. ASSUME NEW s \in Sends, InsertFails(s) PROVE Quiet
  BY <1>3 DEF InsertFails, LetThroughUnchecked
<1>4. ASSUME NEW s \in Sends, CountFails(s) PROVE Quiet
  BY <1>4 DEF CountFails, LetThroughUnchecked
<1>5. ASSUME NEW s \in Sends, Block(s) PROVE Quiet
  BY <1>5 DEF Block
<1>6. ASSUME NEW s \in Sends, BlockFails(s) PROVE Quiet
  BY <1>6 DEF BlockFails, LetThroughUnchecked
<1>7. ASSUME NEW s \in Sends, Send(s) PROVE Quiet
  BY <1>7 DEF Send
<1>8. ASSUME NEW s \in Sends, Finish(s) PROVE Quiet
  BY <1>8 DEF Finish
<1>9. ASSUME NEW s \in Sends, FinishFails(s) PROVE Quiet
  BY <1>9 DEF FinishFails
<1>10. CASE Tick
  BY <1>10, TimesAreNat DEF Tick
<1>11. CASE UNCHANGED vars
  BY <1>11 DEF vars
<1>12. QED
  BY <1>1, <1>2, <1>3, <1>4, <1>5, <1>6, <1>7, <1>8, <1>9, <1>10, <1>11 DEF Next, Step

LEMMA QuietKeeps ==
  ASSUME QuotaInv, TypeOK', Quiet
  PROVE  DayKept' /\ MonthKept'
<1> USE DEF QuotaInv
<1>1. now \in Int /\ now' \in Int /\ now <= now' /\ Day \in Int /\ MonthStarts \subseteq Int
      /\ \A s \in Sends : created[s] \in Int
  BY TimesAreNat DEF TypeOK, Quiet
<1>2. \A c \in Int : (Today(c, now') => Today(c, now)) /\ (ThisMonth(c, now') => ThisMonth(c, now))
  BY <1>1, EarlierWindows
<1>3. \A s \in LetThrough' : s \in Sends /\ created'[s] = created[s] /\ created[s] \in Int
  BY <1>1 DEF Quiet, LetThrough
<1>4. PassedToday' \subseteq PassedToday /\ PassedThisMonth' \subseteq PassedThisMonth
  BY <1>2, <1>3 DEF Quiet, PassedToday, PassedThisMonth, Passed
<1>5. OtherToday' \subseteq OtherToday /\ OtherThisMonth' \subseteq OtherThisMonth
  BY <1>2, <1>3 DEF Quiet, OtherToday, OtherThisMonth
<1>6. /\ PassedToday \subseteq Sends /\ PassedThisMonth \subseteq Sends
      /\ OtherToday \subseteq Sends /\ OtherThisMonth \subseteq Sends
  BY DEF PassedToday, PassedThisMonth, OtherToday, OtherThisMonth, Passed, LetThrough
<1>7. /\ Cardinality(PassedToday') <= Cardinality(PassedToday)
      /\ Cardinality(PassedThisMonth') <= Cardinality(PassedThisMonth)
      /\ Cardinality(OtherToday') <= Cardinality(OtherToday)
      /\ Cardinality(OtherThisMonth') <= Cardinality(OtherThisMonth)
  BY <1>4, <1>5, <1>6, SubsetIsNoLarger
<1>8. /\ Cardinality(PassedToday') \in Nat /\ Cardinality(PassedThisMonth') \in Nat
      /\ Cardinality(OtherToday') \in Nat /\ Cardinality(OtherThisMonth') \in Nat
  BY <1>4, <1>5, <1>6, SubsetIsNoLarger
<1>9. /\ Cardinality(PassedToday) \in Nat /\ Cardinality(PassedThisMonth) \in Nat
      /\ Cardinality(OtherToday) \in Nat /\ Cardinality(OtherThisMonth) \in Nat
  BY <1>6, SubsetIsNoLarger
<1>10. QED
  BY <1>7, <1>8, <1>9, LimitsKeepAReserve DEF DayKept, MonthKept

\* A count finds the rows of all who were let through before.
LEMMA CountKeeps ==
  ASSUME QuotaInv, NEW s \in Sends, Count(s)
  PROVE  DayKept' /\ MonthKept'
<1> DEFINE CountedToday == {x \in Sends : row[x] \in Counted /\ Today(created[x], created[s])}
           CountedThisMonth ==
             {x \in Sends : row[x] \in Counted /\ ThisMonth(created[x], created[s])}
<1> USE DEF QuotaInv
<1>1. UNCHANGED <<row, created, outcome, unchecked, now>>
  BY DEF Count
<1>2. CASE ~WithinAllowance(s)
  <2>1. LetThrough' = LetThrough
    BY <1>2 DEF Count, Goto, LetThrough, TypeOK
  <2>2. QED
    BY <1>1, <2>1 DEF DayKept, MonthKept, PassedToday, PassedThisMonth, OtherToday,
                      OtherThisMonth, Passed
<1>3. CASE WithinAllowance(s)
  <2>1. LetThrough' \subseteq LetThrough \cup {s}
    BY <1>3 DEF Count, Goto, LetThrough, TypeOK
  <2>2. \A x \in Passed' : x \in Sends /\ row[x] \in Counted
    BY <1>1, <2>1 DEF Passed, LetThrough, RowsTell, Counted, Count
  <2>3. \A x \in LetThrough' : x \notin Protected => x \in Passed'
    BY <1>1 DEF Passed, TypeOK
  <2>4. created[s] \in Int /\ now \in Int /\ created[s] <= now /\ Day \in Int
        /\ MonthStarts \subseteq Int /\ \A x \in Sends : created[x] \in Int
    BY TimesAreNat DEF TypeOK, RowsTell
  <2>5. \A c \in Int : (Today(c, now) => Today(c, created[s]))
                       /\ (ThisMonth(c, now) => ThisMonth(c, created[s]))
    BY <2>4, EarlierWindows
  <2>6. PassedToday' \subseteq CountedToday /\ PassedThisMonth' \subseteq CountedThisMonth
    BY <1>1, <2>2, <2>4, <2>5 DEF PassedToday, PassedThisMonth
  <2>7. Cardinality(CountedToday) <= DayLimit /\ Cardinality(CountedThisMonth) <= MonthLimit
    <3>1. Cardinality(CountedToday) \in Nat /\ Cardinality(CountedThisMonth) \in Nat
      BY SubsetIsNoLarger
    <3>2. QED
      BY <1>3, <3>1, LimitsKeepAReserve DEF WithinAllowance, DayTotal, MonthTotal
  <2>8. Cardinality(PassedToday') <= DayLimit /\ Cardinality(PassedThisMonth') <= MonthLimit
    <3>1. /\ Cardinality(PassedToday') <= Cardinality(CountedToday)
          /\ Cardinality(PassedThisMonth') <= Cardinality(CountedThisMonth)
          /\ Cardinality(CountedToday) \in Nat /\ Cardinality(CountedThisMonth) \in Nat
      BY <2>6, SubsetIsNoLarger
    <3>2. Cardinality(PassedToday') \in Nat /\ Cardinality(PassedThisMonth') \in Nat
      <4>1. PassedToday' \in SUBSET Sends /\ PassedThisMonth' \in SUBSET Sends
        BY <2>6
      <4>2. QED
        BY <4>1, SubsetIsNoLarger
    <3>3. QED
      BY <2>7, <3>1, <3>2, LimitsKeepAReserve
  <2>9. CASE s \in Protected
    <3>1. OtherToday' \subseteq OtherToday /\ OtherThisMonth' \subseteq OtherThisMonth
      BY <1>1, <2>1, <2>9 DEF OtherToday, OtherThisMonth
    <3>2. OtherToday \in SUBSET Sends /\ OtherThisMonth \in SUBSET Sends
      BY DEF OtherToday, OtherThisMonth, LetThrough
    <3>3. /\ Cardinality(OtherToday') <= Cardinality(OtherToday)
          /\ Cardinality(OtherThisMonth') <= Cardinality(OtherThisMonth)
          /\ Cardinality(OtherToday) \in Nat /\ Cardinality(OtherThisMonth) \in Nat
      BY <3>1, <3>2, SubsetIsNoLarger
    <3>4. Cardinality(OtherToday') \in Nat /\ Cardinality(OtherThisMonth') \in Nat
      BY <3>1, <3>2, SubsetIsNoLarger
    <3>5. QED
      BY <2>8, <3>3, <3>4, LimitsKeepAReserve DEF DayKept, MonthKept
  <2>10. CASE s \notin Protected
    <3>1. OtherToday' \subseteq CountedToday /\ OtherThisMonth' \subseteq CountedThisMonth
      BY <2>3, <2>6 DEF OtherToday, OtherThisMonth, PassedToday, PassedThisMonth
    <3>2. /\ Cardinality(OtherToday') <= Cardinality(CountedToday)
          /\ Cardinality(OtherThisMonth') <= Cardinality(CountedThisMonth)
          /\ Cardinality(CountedToday) \in Nat /\ Cardinality(CountedThisMonth) \in Nat
      BY <3>1, SubsetIsNoLarger
    <3>3. Cardinality(OtherToday') \in Nat /\ Cardinality(OtherThisMonth') \in Nat
      <4>1. OtherToday' \in SUBSET Sends /\ OtherThisMonth' \in SUBSET Sends
        BY <3>1
      <4>2. QED
        BY <4>1, SubsetIsNoLarger
    <3>4. Cardinality(CountedToday) <= DayOther /\ Cardinality(CountedThisMonth) <= MonthOther
      BY <1>3, <2>10 DEF WithinAllowance, DayTotal, MonthTotal
    <3>5. QED
      BY <2>8, <3>2, <3>3, <3>4, LimitsKeepAReserve DEF DayKept, MonthKept
  <2>11. QED
    BY <2>9, <2>10
<1>4. QED
  BY <1>2, <1>3

-----------------------------------------------------------------------------
(* The theorems *)

LEMMA QuotaInvariant == Spec => []QuotaInv
<1>1. Init => QuotaInv
  <2> SUFFICES ASSUME Init PROVE QuotaInv
    OBVIOUS
  <2>1. TypeOK /\ RowsTell
    BY TimesAreNat DEF Init, TypeOK, RowsTell, Places
  <2>2. LetThrough = {}
    BY DEF Init, LetThrough
  <2>3. PassedToday = {} /\ PassedThisMonth = {} /\ OtherToday = {} /\ OtherThisMonth = {}
    BY <2>2 DEF PassedToday, PassedThisMonth, OtherToday, OtherThisMonth, Passed
  <2>4. QED
    BY <2>1, <2>3, FS_EmptySet, LimitsKeepAReserve DEF QuotaInv, DayKept, MonthKept
<1>2. QuotaInv /\ [Next]_vars => QuotaInv'
  <2> SUFFICES ASSUME QuotaInv, [Next]_vars
               PROVE  QuotaInv'
    OBVIOUS
  <2>1. TypeOK' /\ RowsTell'
    BY TypeStep, RowsStep
  <2>2. CASE \E s \in Sends : Count(s)
    BY <2>1, <2>2, CountKeeps DEF QuotaInv
  <2>3. CASE ~ \E s \in Sends : Count(s)
    BY <2>1, <2>3, OthersAreQuiet, QuietKeeps DEF QuotaInv
  <2>4. QED
    BY <2>2, <2>3
<1>3. QED
  BY <1>1, <1>2, PTL DEF Spec

\* Every variable of MailQuota keeps its type; in particular only security mail
\* goes out while accounting fails.
THEOREM QuotaTypeCorrect == Spec => []TypeOK
BY QuotaInvariant, PTL DEF QuotaInv

LEMMA CeilingFollows == QuotaInv => WithinCeiling
<1> SUFFICES ASSUME QuotaInv PROVE WithinCeiling
  OBVIOUS
<1> DEFINE AllToday == {s \in LetThrough : Today(created[s], now)}
           AllThisMonth == {s \in LetThrough : ThisMonth(created[s], now)}
<1>1. AllToday \subseteq PassedToday \cup unchecked
      /\ AllThisMonth \subseteq PassedThisMonth \cup unchecked
  BY DEF PassedToday, PassedThisMonth, Passed
<1>2. PassedToday \in SUBSET Sends /\ PassedThisMonth \in SUBSET Sends /\ unchecked \in SUBSET Sends
  BY SendsAreFinite DEF PassedToday, PassedThisMonth, Passed, LetThrough, QuotaInv, TypeOK
<1>3. IsFiniteSet(PassedToday) /\ IsFiniteSet(PassedThisMonth) /\ IsFiniteSet(unchecked)
  BY <1>2, SendsAreFinite, FS_Subset
<1> HIDE DEF AllToday, AllThisMonth
<1>4. ASSUME NEW A, NEW P \in SUBSET Sends, IsFiniteSet(P), A \subseteq P \cup unchecked
      PROVE  Cardinality(A) <= Cardinality(P) + Cardinality(unchecked)
  <2>1. IsFiniteSet(P \cup unchecked)
        /\ Cardinality(P \cup unchecked) =
             Cardinality(P) + Cardinality(unchecked) - Cardinality(P \cap unchecked)
    BY <1>3, <1>4, FS_Union
  <2>2. Cardinality(A) <= Cardinality(P \cup unchecked) /\ IsFiniteSet(A)
    BY <1>4, <2>1, FS_Subset
  <2>3. IsFiniteSet(P \cap unchecked)
    BY <1>4, FS_Subset
  <2>4. Cardinality(A) \in Nat /\ Cardinality(P) \in Nat /\ Cardinality(unchecked) \in Nat
        /\ Cardinality(P \cap unchecked) \in Nat
    BY <1>3, <1>4, <2>2, <2>3, FS_CardinalityType
  <2>5. QED
    BY <2>1, <2>2, <2>4
<1>5. /\ Cardinality(AllToday) <= Cardinality(PassedToday) + Cardinality(unchecked)
      /\ Cardinality(AllThisMonth) <= Cardinality(PassedThisMonth) + Cardinality(unchecked)
  BY <1>1, <1>2, <1>3, <1>4
<1>6. IsFiniteSet(AllToday) /\ IsFiniteSet(AllThisMonth)
  BY SendsAreFinite, FS_Subset DEF AllToday, AllThisMonth, LetThrough
<1>7. /\ Cardinality(AllToday) \in Nat /\ Cardinality(AllThisMonth) \in Nat
      /\ Cardinality(PassedToday) \in Nat /\ Cardinality(PassedThisMonth) \in Nat
      /\ Cardinality(unchecked) \in Nat
  BY <1>3, <1>6, FS_CardinalityType
<1>8. Cardinality(PassedToday) <= DayLimit /\ Cardinality(PassedThisMonth) <= MonthLimit
  BY DEF QuotaInv, DayKept, MonthKept
<1>9. /\ Cardinality(AllToday) <= DayLimit + Cardinality(unchecked)
      /\ Cardinality(AllThisMonth) <= MonthLimit + Cardinality(unchecked)
  BY <1>5, <1>7, <1>8, LimitsKeepAReserve
<1>10. QED
  BY <1>9 DEF WithinCeiling, AllToday, AllThisMonth

\* However many sends overlap, they exceed neither allowance, but by the security
\* mails of a failed accounting.
THEOREM AllowanceKept == Spec => []WithinCeiling
BY QuotaInvariant, CeilingFollows, PTL

\* However many sends overlap and whatever fails, other mail leaves the reserve to
\* the security templates.
THEOREM ReserveIsKept == Spec => []ReserveKept
<1>1. QuotaInv => ReserveKept
  BY DEF QuotaInv, DayKept, MonthKept, ReserveKept, OtherToday, OtherThisMonth
<1>2. QED
  BY <1>1, QuotaInvariant, PTL

=============================================================================
