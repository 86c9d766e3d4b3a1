--------------------------- MODULE AccountsProofs ---------------------------
(***************************************************************************)
(* The invariants of Accounts, for any users, limits and number of tokens  *)
(* and timers.                                                             *)
(***************************************************************************)
EXTENDS Accounts, SequenceTheorems, WellFoundedInduction, TLAPS

-----------------------------------------------------------------------------
(* Least numbers, and the first token of a receiver.                       *)

LEMMA LeastExists ==
  ASSUME NEW I \in SUBSET Nat, I # {}
  PROVE  \E m \in I : \A k \in I : m <= k
<1> DEFINE R == OpToRel(<, Nat)
<1>1. PICK m \in I : \A k \in I : <<k, m>> \notin R
  BY WFMin, NatLessThanWellFounded, Zenon
<1>2. ASSUME NEW k \in I PROVE ~ (k < m)
  BY <1>1, <1>2 DEF OpToRel
<1> QED  BY <1>2

LEMMA LeastIsMin ==
  ASSUME NEW I \in SUBSET Nat, I # {}
  PROVE  Min(I) \in I /\ \A k \in I : Min(I) <= k
<1>1. \E m \in I : \A k \in I : m =< k
  BY LeastExists
<1> QED  BY <1>1, Zenon DEF Min

\* The tokens for a receiver, and where CheckToken's loop stops.
TokensOf(e) == {i \in 1 .. Len(tokenMng) : tokenMng[i].to = e}
FirstOf(e)  == IF TokensOf(e) # {} THEN Min(TokensOf(e)) ELSE 0

LEMMA FirstFor ==
  ASSUME NEW S, tokenMng \in Seq(S), NEW e, FirstOf(e) # 0
  PROVE  /\ FirstOf(e) \in 1 .. Len(tokenMng) /\ tokenMng[FirstOf(e)].to = e
         /\ \A j \in 1 .. Len(tokenMng) : tokenMng[j].to = e => FirstOf(e) <= j
<1>1. TokensOf(e) # {} /\ TokensOf(e) \in SUBSET Nat /\ FirstOf(e) = Min(TokensOf(e))
  BY DEF FirstOf, TokensOf
<1>2. FirstOf(e) \in TokensOf(e) /\ \A k \in TokensOf(e) : FirstOf(e) <= k
  BY <1>1, LeastIsMin
<1> QED  BY <1>2 DEF TokensOf

LEMMA SeqOfEntries ==
  ASSUME NEW S, NEW T, NEW s \in Seq(S), \A i \in DOMAIN s : s[i] \in T
  PROVE  s \in Seq(T)
  OBVIOUS

\* What erasing position k of a sequence leaves.
LEMMA RemoveAtEntries ==
  ASSUME NEW S, NEW s \in Seq(S), NEW k \in 1 .. Len(s)
  PROVE  /\ RemoveAt(s, k) \in Seq(S)
         /\ Len(RemoveAt(s, k)) = Len(s) - 1
         /\ \A j \in 1 .. (Len(s) - 1) :
              RemoveAt(s, k)[j] = IF j < k THEN s[j] ELSE s[j + 1]
<1> DEFINE front == SubSeq(s, 1, k - 1)
           back  == SubSeq(s, k + 1, Len(s))
<1>1. /\ front \in Seq(S) /\ Len(front) = k - 1
      /\ \A j \in 1 .. (k - 1) : front[j] = s[j]
  BY SubSeqProperties
<1>2. /\ back \in Seq(S) /\ Len(back) = Len(s) - k
      /\ \A j \in 1 .. (Len(s) - k) : back[j] = s[k + j]
  BY SubSeqProperties
<1>3. RemoveAt(s, k) = front \o back
  BY DEF RemoveAt
<1> HIDE DEF front, back
<1>4. /\ front \o back \in Seq(S) /\ Len(front \o back) = Len(s) - 1
      /\ \A j \in 1 .. (Len(s) - 1) :
           (front \o back)[j] = IF j <= k - 1 THEN front[j] ELSE back[j - (k - 1)]
  <2> DEFINE whole == front \o back
  <2>1. /\ whole \in Seq(S) /\ Len(whole) = Len(front) + Len(back)
        /\ \A j \in 1 .. (Len(front) + Len(back)) :
             whole[j] = IF j <= Len(front) THEN front[j] ELSE back[j - Len(front)]
    BY <1>1, <1>2, ConcatProperties, Zenon
  <2> HIDE DEF whole
  <2>2. Len(front) + Len(back) = Len(s) - 1 /\ Len(front) = k - 1
    BY <1>1, <1>2
  <2> QED  BY <2>1, <2>2 DEF whole
<1>5. ASSUME NEW j \in 1 .. (Len(s) - 1), j < k PROVE (front \o back)[j] = s[j]
  BY <1>1, <1>4, <1>5
<1>6. ASSUME NEW j \in 1 .. (Len(s) - 1), ~ (j < k) PROVE (front \o back)[j] = s[j + 1]
  <2>1. (front \o back)[j] = back[j - (k - 1)] /\ j - (k - 1) \in 1 .. (Len(s) - k)
    BY <1>4, <1>6
  <2> QED  BY <1>2, <2>1
<1> QED  BY <1>3, <1>4, <1>5, <1>6
-----------------------------------------------------------------------------
(* The tokens.                                                             *)

TokensIncrease ==
  \A i, j \in DOMAIN tokenMng : i < j => tokenMng[i].token < tokenMng[j].token

TokensWereMailed == \A i \in DOMAIN tokenMng : sent[tokenMng[i].token] = tokenMng[i].to

\* A token is appended with a number above all before it, so the first token of a
\* receiver is the oldest.
TokenInv == TfaTypeOK /\ TokensIncrease /\ TokensWereMailed /\ TokensOnceInOrder

LEMMA TokenInit == TfaInit => TokenInv
  BY DEF TfaInit, TokenInv, TfaTypeOK, TokensIncrease, TokensWereMailed, TokensOnceInOrder

LEMMA SendKeeps ==
  ASSUME TokenInv, NEW e, SendTFA(e)
  PROVE  /\ TokenInv' /\ used' = used
         /\ \A t \in DOMAIN sent : t \in DOMAIN sent' /\ sent'[t] = sent[t]
<1>1. CASE UNCHANGED <<sent, tokenMng>>
  BY <1>1 DEF SendTFA, TokenInv, TfaTypeOK, TokensIncrease, TokensWereMailed, TokensOnceInOrder
<1>2. CASE /\ e \in Emails /\ sent' = Append(sent, e)
           /\ tokenMng' = Append(tokenMng, [to |-> e, token |-> Len(sent) + 1])
  <2> DEFINE n == Len(sent) + 1
             T == [to : Emails, token : DOMAIN sent]
             U == [to : Emails, token : 1 .. n]
             new == [to |-> e, token |-> n]
  <2>1. sent \in Seq(Emails) /\ used \subseteq DOMAIN sent /\ DOMAIN sent = 1 .. Len(sent)
        /\ Len(sent) \in Nat
    BY DEF TokenInv, TfaTypeOK
  <2>2. /\ sent' \in Seq(Emails) /\ DOMAIN sent' = 1 .. n /\ sent'[n] = e
        /\ \A t \in 1 .. Len(sent) : sent'[t] = sent[t]
    BY <1>2, <2>1
  <2>3. tokenMng \in Seq(T)
    BY DEF TokenInv, TfaTypeOK
  <2>4. \A i \in DOMAIN tokenMng : tokenMng[i].token \in DOMAIN sent /\ tokenMng[i] \in U
    <3>1. ASSUME NEW i \in DOMAIN tokenMng PROVE tokenMng[i] \in T
      <4> HIDE DEF T
      <4> QED  BY <2>3
    <3> QED  BY <2>1, <3>1
  <2>12. tokenMng \in Seq(U) /\ new \in U
    <3>1. new \in U
      BY <1>2, <2>1
    <3> HIDE DEF T, U
    <3> QED  BY <2>3, <2>4, <3>1, SeqOfEntries
  <2> DEFINE k == Len(tokenMng) + 1
  <2>5. /\ tokenMng' = Append(tokenMng, new) /\ tokenMng' \in Seq(U)
        /\ Len(tokenMng) \in Nat /\ DOMAIN tokenMng = 1 .. Len(tokenMng)
        /\ DOMAIN tokenMng' = 1 .. k /\ tokenMng'[k] = new
        /\ \A i \in 1 .. Len(tokenMng) : tokenMng'[i] = tokenMng[i]
    <3> HIDE DEF U, T, new
    <3> QED  BY <1>2, <2>12 DEF new, n
  <2>6. new.token = n /\ new.to = e
    OBVIOUS
  <2>7. late' \in BOOLEAN /\ used' = used
    BY DEF SendTFA
  <2> HIDE DEF new, n, k
  <2>8. TfaTypeOK'
    BY <2>1, <2>2, <2>5, <2>7 DEF TfaTypeOK, n
  <2>9. TokensIncrease'
    <3>1. ASSUME NEW i \in 1 .. Len(tokenMng), NEW j \in 1 .. Len(tokenMng), i < j
          PROVE  tokenMng'[i].token < tokenMng'[j].token
      BY <2>5, <3>1 DEF TokenInv, TokensIncrease
    <3>2. ASSUME NEW i \in 1 .. Len(tokenMng)
          PROVE  tokenMng'[i].token < tokenMng'[k].token
      <4>1. tokenMng[i].token \in 1 .. Len(sent)
        BY <2>1, <2>4, <2>5
      <4> QED  BY <2>1, <2>5, <2>6, <4>1 DEF n
    <3>3. ASSUME NEW i \in 1 .. k, NEW j \in 1 .. k, i < j
          PROVE  i \in 1 .. Len(tokenMng) /\ (j = k \/ j \in 1 .. Len(tokenMng))
      <4>1. Len(tokenMng) \in Nat
        BY <2>5
      <4>2. j = k \/ j \in 1 .. Len(tokenMng)
        BY <4>1 DEF k
      <4>3. i \in 1 .. Len(tokenMng)
        BY <4>1, <3>3 DEF k
      <4> QED  BY <4>2, <4>3
    <3> QED  BY <2>5, <3>1, <3>2, <3>3 DEF TokensIncrease
  <2>10. TokensWereMailed'
    <3>1. ASSUME NEW i \in 1 .. Len(tokenMng)
          PROVE  sent'[tokenMng'[i].token] = tokenMng'[i].to
      <4>1. tokenMng[i].token \in 1 .. Len(sent) /\ sent[tokenMng[i].token] = tokenMng[i].to
        BY <2>1, <2>4, <2>5 DEF TokenInv, TokensWereMailed
      <4> QED  BY <2>2, <2>5, <4>1
    <3>2. sent'[tokenMng'[k].token] = tokenMng'[k].to
      BY <2>2, <2>5, <2>6
    <3>3. ASSUME NEW i \in 1 .. k PROVE i = k \/ i \in 1 .. Len(tokenMng)
      BY <2>5 DEF k
    <3> QED  BY <2>5, <3>1, <3>2, <3>3 DEF TokensWereMailed
  <2>11. TokensOnceInOrder'
    <3>1. ASSUME NEW i \in 1 .. Len(tokenMng), NEW t \in used, sent'[t] = tokenMng'[i].to
          PROVE  t < tokenMng'[i].token
      <4>1. sent'[t] = sent[t] /\ tokenMng'[i] = tokenMng[i]
        BY <2>1, <2>2, <2>5
      <4> QED  BY <2>5, <3>1, <4>1 DEF TokenInv, TokensOnceInOrder
    <3>2. ASSUME NEW t \in used PROVE t < tokenMng'[k].token
      <4>1. t \in 1 .. Len(sent)
        BY <2>1
      <4> QED  BY <2>1, <2>5, <2>6, <4>1 DEF n
    <3>3. ASSUME NEW i \in 1 .. k PROVE i = k \/ i \in 1 .. Len(tokenMng)
      BY <2>5 DEF k
    <3> QED  BY <2>5, <2>7, <3>1, <3>2, <3>3 DEF TokensOnceInOrder
  <2> QED  BY <2>1, <2>2, <2>7, <2>8, <2>9, <2>10, <2>11 DEF TokenInv, n
<1> QED  BY <1>1, <1>2 DEF SendTFA

LEMMA CheckKeeps ==
  ASSUME TokenInv, NEW e, NEW t \in DOMAIN sent, CheckToken(e, t)
  PROVE  TokenInv' /\ sent' = sent /\ used' = used \cup {t} /\ sent[t] = e /\ t \notin used
<1> DEFINE T == [to : Emails, token : DOMAIN sent]
           k == FirstOf(e)
<1>1. tokenMng \in Seq(T)
  BY DEF TokenInv, TfaTypeOK
<1>2. /\ k # 0 /\ tokenMng[k].token = t /\ tokenMng' = RemoveAt(tokenMng, k)
      /\ used' = used \cup {t} /\ UNCHANGED <<late, sent>>
  BY DEF CheckToken, SelectInSeq, FirstOf, TokensOf
<1>3. /\ k \in 1 .. Len(tokenMng) /\ tokenMng[k].to = e
      /\ \A j \in 1 .. Len(tokenMng) : tokenMng[j].to = e => k <= j
  BY <1>1, <1>2, FirstFor
<1> HIDE DEF T, k
<1> DEFINE m == Len(tokenMng) - 1
           Before(j) == IF j < k THEN j ELSE j + 1
<1>4. /\ tokenMng' \in Seq(T) /\ DOMAIN tokenMng' = 1 .. m
      /\ \A j \in 1 .. m : /\ Before(j) \in DOMAIN tokenMng /\ Before(j) # k
                           /\ tokenMng'[j] = tokenMng[Before(j)]
  <2>1. /\ tokenMng' \in Seq(T) /\ Len(tokenMng') = m
        /\ \A j \in 1 .. m : tokenMng'[j] = IF j < k THEN tokenMng[j] ELSE tokenMng[j + 1]
    BY <1>1, <1>2, <1>3, RemoveAtEntries
  <2>2. DOMAIN tokenMng' = 1 .. m /\ DOMAIN tokenMng = 1 .. Len(tokenMng)
    BY <1>1, <2>1
  <2>3. ASSUME NEW j \in 1 .. m
        PROVE  Before(j) \in 1 .. Len(tokenMng) /\ Before(j) # k
    BY <1>1, <1>3
  <2> QED  BY <2>1, <2>2, <2>3
<1>5. sent[t] = e /\ DOMAIN tokenMng = 1 .. Len(tokenMng)
  BY <1>1, <1>2, <1>3 DEF TokenInv, TokensWereMailed
<1>10. t \notin used
  BY <1>2, <1>3, <1>5 DEF TokenInv, TokensOnceInOrder, TfaTypeOK
<1>6. TfaTypeOK'
  BY <1>2, <1>4 DEF TokenInv, TfaTypeOK, T
<1>7. TokensWereMailed'
  BY <1>2, <1>4 DEF TokenInv, TokensWereMailed
<1>8. TokensIncrease'
  <2>1. ASSUME NEW i \in 1 .. m, NEW j \in 1 .. m, i < j
        PROVE  Before(i) < Before(j)
    BY <1>3, <2>1
  <2> HIDE DEF Before
  <2> QED  BY <1>4, <2>1 DEF TokenInv, TokensIncrease
<1>9. TokensOnceInOrder'
  <2>1. ASSUME NEW j \in 1 .. m, tokenMng'[j].to = e PROVE t < tokenMng'[j].token
    <3>1. Before(j) \in DOMAIN tokenMng /\ tokenMng[Before(j)].to = e
      BY <1>4, <2>1
    <3>2. k < Before(j) /\ k \in DOMAIN tokenMng
      <4> HIDE DEF Before
      <4>1. k <= Before(j) /\ Before(j) # k /\ Before(j) \in Int
        BY <1>3, <1>4, <1>5, <3>1
      <4> QED  BY <1>3, <1>5, <4>1
    <3> HIDE DEF Before
    <3> QED  BY <1>2, <1>4, <3>1, <3>2 DEF TokenInv, TokensIncrease
  <2>2. ASSUME NEW j \in 1 .. m, NEW u \in used, sent[u] = tokenMng'[j].to
        PROVE  u < tokenMng'[j].token
    <3> HIDE DEF Before
    <3> QED  BY <1>4, <2>2 DEF TokenInv, TokensOnceInOrder
  <2>3. ASSUME NEW j \in 1 .. m, NEW u \in used', sent'[u] = tokenMng'[j].to
        PROVE  u < tokenMng'[j].token
    <3>1. CASE u = t  BY <1>2, <1>5, <2>1, <2>3, <3>1
    <3>2. CASE u \in used  BY <1>2, <2>2, <2>3, <3>2
    <3> QED  BY <1>2, <2>3, <3>1, <3>2
  <2> QED  BY <1>4, <2>3 DEF TokensOnceInOrder
<1> QED  BY <1>2, <1>5, <1>6, <1>7, <1>8, <1>9, <1>10 DEF TokenInv
-----------------------------------------------------------------------------
(* One account.                                                            *)

Watched(a) == a.attempts > MAX_ALLOW_LOGIN_ATTEMPT => a.timers > 0 \/ a.unwatched

LEMMA Limits ==
  /\ MAX_DEVSIZE \in Nat /\ MAX_ALLOW_LOGIN_ATTEMPT \in Nat /\ CharHalf \in Nat
  /\ MAX_ALLOW_LOGIN_ATTEMPT < CharHalf /\ MaxTimers \in Nat /\ MaxMonths \in Nat
  /\ MaxIncidents \in Nat
  /\ 0 \in Chars /\ 0 \in 0 .. MaxTimers /\ Uninitialised \subseteq Chars
  BY LimitsAssumption DEF Chars

LEMMA FieldsOf ==
  ASSUME NEW a \in Accounts
  PROVE  /\ a.stored \in Stored /\ a.attempts \in Chars
         /\ a.timers \in 0 .. MaxTimers /\ a.unwatched \in BOOLEAN
  BY DEF Accounts

LEMMA ClearedKeeps ==
  ASSUME NEW a \in Accounts
  PROVE  /\ Cleared(a) \in Accounts /\ Cleared(a).stored = a.stored /\ Watched(Cleared(a))
         /\ Cleared(a).timers = a.timers
<1>1. /\ Cleared(a).stored = a.stored /\ Cleared(a).timers = a.timers
      /\ Cleared(a).attempts = 0
  BY DEF Cleared, Accounts
<1>2. Cleared(a) \in Accounts
  BY Limits DEF Cleared, Accounts
<1> QED  BY <1>1, <1>2, Limits DEF Watched

LEMMA FiredKeeps ==
  ASSUME NEW a \in Accounts, a.timers > 0
  PROVE  Fired(a) \in Accounts /\ Fired(a).stored = a.stored /\ Watched(Fired(a))
<1> DEFINE c == Cleared(a)
<1>1. c \in Accounts /\ c.stored = a.stored /\ c.timers - 1 \in 0 .. MaxTimers
  BY ClearedKeeps, FieldsOf, Limits
<1>2. c.attempts = 0
  BY DEF Cleared, Accounts
<1>3. Fired(a) = [c EXCEPT !.timers = c.timers - 1]
  BY DEF Fired
<1> HIDE DEF c
<1>4. Fired(a) \in Accounts /\ Fired(a).stored = a.stored /\ Fired(a).attempts = 0
  BY <1>1, <1>2, <1>3 DEF Accounts
<1> QED  BY <1>4, Limits DEF Watched

\* A count beyond the limit starts a timer or is marked, whatever a timer that
\* fired in between has been made to lose.
LEMMA CountedKeeps ==
  ASSUME NEW a \in Accounts, a.timers < MaxTimers, NEW b \in Counted(a)
  PROVE  b \in Accounts /\ b.stored = a.stored /\ Watched(b)
<1> DEFINE n == Attempted(a)
<1>1. PICK lost \in 0 .. Min({1, a.timers}), started \in IF Beyond(a) THEN {0, 1} ELSE {0} :
        b = FailedAttempt(a, lost, started)
  BY DEF Counted
<1>2. n \in Chars
  BY FieldsOf, Limits DEF Attempted, Wrapped, Chars
<1>3. lost \in Nat /\ lost <= a.timers /\ a.timers \in Nat
  <2>1. {1, a.timers} \in SUBSET Nat /\ {1, a.timers} # {} /\ a.timers \in Nat
    BY FieldsOf, Limits
  <2>2. Min({1, a.timers}) \in {1, a.timers} /\ Min({1, a.timers}) <= a.timers
    BY <2>1, LeastIsMin
  <2> QED  BY <2>1, <2>2
<1>4. started \in {0, 1} /\ (started = 1 => n > MAX_ALLOW_LOGIN_ATTEMPT)
  BY DEF Beyond
<1> DEFINE mark == started = 0 /\ (a.unwatched \/ Beyond(a))
           left == a.timers - lost + started
<1>5. b = [stored |-> a.stored, attempts |-> n, timers |-> left, unwatched |-> mark]
  BY <1>1, Zenon DEF Accounts, FailedAttempt
<1>6. left \in 0 .. MaxTimers /\ (started = 1 => left > 0)
  BY <1>3, <1>4, Limits
<1>7. n > MAX_ALLOW_LOGIN_ATTEMPT /\ ~ (left > 0) => mark
  BY <1>4, <1>6 DEF Beyond
<1>8. mark \in BOOLEAN
  OBVIOUS
<1> HIDE DEF n, mark, left
<1>9. b.attempts = n /\ b.timers = left /\ b.unwatched = mark /\ b.stored = a.stored
  BY <1>5, Zenon
<1>10. Watched(b)
  BY <1>7, <1>9, Zenon DEF Watched
<1>11. b \in Accounts
  BY <1>2, <1>5, <1>6, <1>8, FieldsOf, Zenon DEF Accounts
<1> QED  BY <1>9, <1>10, <1>11
-----------------------------------------------------------------------------
(* Lists of accounts.                                                      *)

Distinct(list) ==
  \A i, j \in DOMAIN list :
    i # j => /\ list[i].cid = list[j].cid => list[i].cid = NoUser
             /\ list[i].email = list[j].email => list[i].email = NoEmail

LEMMA SavedList ==
  ASSUME NEW list \in Seq(Accounts)
  PROVE  /\ Saved(list) \in Seq(Stored) /\ Len(Saved(list)) = Len(list)
         /\ DOMAIN Saved(list) = DOMAIN list
         /\ \A i \in DOMAIN list : Saved(list)[i] = list[i].stored /\ list[i] \in Accounts
<1>1. \A i \in DOMAIN list : list[i] \in Accounts
  OBVIOUS
<1>2. \A i \in DOMAIN list : list[i].stored \in Stored
  BY <1>1, FieldsOf
<1> HIDE DEF Stored, Accounts
<1> QED  BY <1>1, <1>2 DEF Saved

LEMMA LoadedList ==
  ASSUME NEW read \in Seq(Stored)
  PROVE  /\ Loaded(read) \in Seq(Accounts) /\ Len(Loaded(read)) = Len(read)
         /\ Saved(Loaded(read)) = read
         /\ \A i \in DOMAIN Loaded(read) : Watched(Loaded(read)[i])
<1> DEFINE fresh(r) == [stored |-> r, attempts |-> 0, timers |-> 0, unwatched |-> FALSE]
           list == Loaded(read)
<1>1. \A r \in Stored : fresh(r) \in Accounts /\ fresh(r).stored = r /\ Watched(fresh(r))
  BY Limits DEF Accounts, Watched
<1>2. list = [i \in DOMAIN read |-> fresh(read[i])]
  BY DEF Loaded
<1>3. \A i \in DOMAIN read : read[i] \in Stored
  OBVIOUS
<1> HIDE DEF fresh, list
<1> HIDE DEF Stored, Accounts
<1>4. list \in Seq(Accounts) /\ Len(list) = Len(read) /\ DOMAIN list = DOMAIN read
  BY <1>1, <1>2, <1>3
<1>5. Saved(list) = [i \in DOMAIN read |-> read[i]]
  BY <1>1, <1>2, <1>3, <1>4 DEF Saved
<1>6. \A i \in DOMAIN list : Watched(list[i])
  BY <1>1, <1>2, <1>3, <1>4
<1> QED  BY <1>4, <1>5, <1>6 DEF list

\* What is left of an account in a torn file, or when it is not read.
PartOf(part, r) == /\ part \in Stored
                   /\ part.cid \in {r.cid, NoUser} /\ part.email \in {r.email, NoEmail}

PartsOf(parts, list) ==
  /\ parts \in Seq(Stored) /\ Len(parts) <= Len(list)
  /\ \A i \in DOMAIN parts : PartOf(parts[i], list[i])

LEMMA PartsDistinct ==
  ASSUME NEW list \in Seq(Stored), NEW parts, PartsOf(parts, list), Distinct(list)
  PROVE  Distinct(parts)
<1> HIDE DEF Stored
<1>1. \A i \in DOMAIN parts : i \in DOMAIN list /\ PartOf(parts[i], list[i])
  BY DEF PartsOf
<1> QED  BY <1>1 DEF Distinct, PartOf

LEMMA HalvesAreParts ==
  ASSUME NEW r \in Stored, NEW h \in Halves(r)
  PROVE  PartOf(h, r)
<1>1. NoDate \in NoDate .. MaxMonths
  BY Limits DEF NoDate
<1>2. Blank \in Stored /\ Blank.cid = NoUser /\ Blank.email = NoEmail
  BY <1>1 DEF Blank, Stored
<1>3. CASE h = Blank
  BY <1>2, <1>3 DEF PartOf
<1>4. CASE h = [Blank EXCEPT !.cid = r.cid]
  BY <1>2, <1>4 DEF PartOf, Stored
<1>5. CASE h = [Blank EXCEPT !.cid = r.cid, !.email = r.email]
  BY <1>2, <1>5 DEF PartOf, Stored
<1>6. CASE h = [r EXCEPT !.password = NoPassword]
  BY <1>6 DEF PartOf, Stored
<1> QED  BY <1>3, <1>4, <1>5, <1>6 DEF Halves

LEMMA WholeIsPart == ASSUME NEW r \in Stored PROVE PartOf(r, r) /\ PartOf(Blank, r)
<1>1. PartOf(Blank, r)
  BY HalvesAreParts DEF Halves
<1> QED  BY <1>1 DEF PartOf

LEMMA TornParts ==
  ASSUME NEW list \in Seq(Stored), NEW t \in Torn(list)
  PROVE  PartsOf(t, list)
<1> HIDE DEF Stored
<1>1. \A i \in DOMAIN list : list[i] \in Stored
  OBVIOUS
<1>2. ASSUME NEW k \in 0 .. Len(list)
      PROVE  /\ SubSeq(list, 1, k) \in Seq(Stored) /\ Len(SubSeq(list, 1, k)) = k
             /\ \A i \in 1 .. k : SubSeq(list, 1, k)[i] = list[i] /\ i \in DOMAIN list
  <2>1. CASE k = 0
    BY <2>1
  <2>2. CASE k # 0
    BY <2>2, SubSeqProperties
  <2> QED  BY <2>1, <2>2
<1>3. ASSUME NEW k \in 0 .. Len(list), t = SubSeq(list, 1, k) PROVE PartsOf(t, list)
  <2>1. DOMAIN t = 1 .. k /\ t \in Seq(Stored) /\ Len(t) <= Len(list)
    BY <1>2, <1>3
  <2> QED  BY <1>1, <1>2, <1>3, <2>1, WholeIsPart DEF PartsOf
<1>4. ASSUME NEW k \in DOMAIN list, NEW h \in Halves(list[k]),
             t = Append(SubSeq(list, 1, k - 1), h)
      PROVE  PartsOf(t, list)
  <2> DEFINE whole == SubSeq(list, 1, k - 1)
  <2>1. PartOf(h, list[k]) /\ h \in Stored
    BY <1>1, HalvesAreParts DEF PartOf
  <2>2. k \in 1 .. Len(list) /\ k - 1 \in 0 .. Len(list)
    OBVIOUS
  <2>3. /\ whole \in Seq(Stored) /\ Len(whole) = k - 1
        /\ \A i \in 1 .. (k - 1) : whole[i] = list[i] /\ i \in DOMAIN list
    BY <1>2, <2>2
  <2> HIDE DEF whole
  <2>4. /\ t \in Seq(Stored) /\ Len(t) = k /\ DOMAIN t = 1 .. k /\ t[k] = h
        /\ \A i \in 1 .. (k - 1) : t[i] = whole[i]
    <3>1. t = Append(whole, h)
      BY <1>4 DEF whole
    <3> QED  BY <2>1, <2>2, <2>3, <3>1
  <2>5. ASSUME NEW i \in 1 .. k PROVE i = k \/ i \in 1 .. (k - 1)
    BY <2>2
  <2>6. ASSUME NEW i \in 1 .. (k - 1) PROVE PartOf(t[i], list[i])
    BY <1>1, <2>3, <2>4, WholeIsPart
  <2> QED  BY <2>1, <2>2, <2>4, <2>5, <2>6 DEF PartsOf
<1> QED  BY <1>3, <1>4 DEF Torn

LEMMA ReadParts ==
  ASSUME file \in Seq(Stored), NEW read \in Readings
  PROVE  PartsOf(read, file)
<1> HIDE DEF Stored
<1>1. \A i \in DOMAIN file : PartOf(file[i], file[i]) /\ PartOf(Blank, file[i])
  BY WholeIsPart
<1>2. CASE read = <<>>
  BY <1>2 DEF PartsOf
<1>3. ASSUME NEW unread \in SUBSET DOMAIN file,
             read = [i \in DOMAIN file |-> IF i \in unread THEN Blank ELSE file[i]]
      PROVE  PartsOf(read, file)
  <2>1. \A i \in DOMAIN file : PartOf(read[i], file[i]) /\ read[i] \in Stored
    BY <1>1, <1>3 DEF PartOf
  <2>2. read \in Seq(Stored) /\ Len(read) = Len(file) /\ DOMAIN read = DOMAIN file
    BY <1>3, <2>1
  <2> QED  BY <2>1, <2>2 DEF PartsOf
<1> QED  BY <1>2, <1>3 DEF Readings

LEMMA RegisteredList ==
  ASSUME controlDevices \in Seq(Accounts), NEW r \in Candidates, r \in Stored, NEW n \in Chars
  PROVE  /\ Registered(r, n) \in Seq(Accounts)
         /\ Len(Registered(r, n)) = Len(controlDevices) + 1
         /\ Saved(Registered(r, n)) = Append(Saved(controlDevices), r)
         /\ (\A i \in DOMAIN controlDevices : Watched(controlDevices[i]))
              => \A i \in DOMAIN Registered(r, n) : Watched(Registered(r, n)[i])
         /\ Distinct(Saved(controlDevices)) /\ ~ Duplicated(r) => Distinct(Saved(Registered(r, n)))
<1> DEFINE a == [stored |-> r, attempts |-> n, timers |-> 0,
                 unwatched |-> n > MAX_ALLOW_LOGIN_ATTEMPT]
           list == controlDevices
           new  == Append(list, a)
           k    == Len(list) + 1
<1>1. a \in Accounts /\ Watched(a) /\ a.stored = r
  <2> DEFINE mark == n > MAX_ALLOW_LOGIN_ATTEMPT
  <2>1. mark \in BOOLEAN
    OBVIOUS
  <2>2. /\ a = [stored |-> r, attempts |-> n, timers |-> 0, unwatched |-> mark]
        /\ a.attempts = n /\ a.unwatched = mark /\ a.stored = r
    BY Zenon
  <2>3. Watched(a)
    BY <2>2, Zenon DEF Watched
  <2> HIDE DEF mark, a
  <2>4. a \in Accounts
    BY <2>1, <2>2, Limits, Zenon DEF Accounts
  <2> QED  BY <2>2, <2>3, <2>4
<1>2. Registered(r, n) = new
  BY DEF Registered
<1> HIDE DEF a
<1> HIDE DEF Stored, Accounts
<1>3. /\ new \in Seq(Accounts) /\ Len(new) = k /\ DOMAIN new = 1 .. k
      /\ DOMAIN list = 1 .. Len(list) /\ Len(list) \in Nat
      /\ new[k] = a /\ \A i \in 1 .. Len(list) : new[i] = list[i]
  BY <1>1
<1>4. \A i \in 1 .. k : i = k \/ i \in 1 .. Len(list)
  BY <1>3
<1> HIDE DEF new, k
<1>5. /\ Saved(new) \in Seq(Stored) /\ DOMAIN Saved(new) = 1 .. k /\ Saved(new)[k] = r
      /\ \A i \in 1 .. Len(list) : Saved(new)[i] = Saved(list)[i]
      /\ Saved(list) \in Seq(Stored) /\ Len(Saved(list)) = Len(list) /\ Len(Saved(new)) = k
      /\ DOMAIN Saved(list) = 1 .. Len(list)
  <2>1. k \in 1 .. k /\ \A i \in 1 .. Len(list) : i \in 1 .. k
    BY <1>3 DEF k
  <2>2. /\ Saved(new) \in Seq(Stored) /\ Len(Saved(new)) = Len(new)
        /\ DOMAIN Saved(new) = 1 .. k
        /\ \A i \in 1 .. k : Saved(new)[i] = new[i].stored
    BY <1>3, SavedList
  <2>3. /\ Saved(list) \in Seq(Stored) /\ Len(Saved(list)) = Len(list)
        /\ DOMAIN Saved(list) = 1 .. Len(list)
        /\ \A i \in 1 .. Len(list) : Saved(list)[i] = list[i].stored
    BY <1>3, SavedList
  <2> QED  BY <1>1, <1>3, <2>1, <2>2, <2>3
<1>6. Saved(new) = Append(Saved(list), r)
  <2> DEFINE s == Saved(list)
             t == Saved(new)
  <2> HIDE DEF s, t
  <2>1. /\ s \in Seq(Stored) /\ t \in Seq(Stored) /\ Len(t) = Len(s) + 1
        /\ t[Len(s) + 1] = r /\ \A i \in 1 .. Len(s) : t[i] = s[i]
    BY <1>5 DEF s, t, k
  <2>2. t = Append(s, r)
    BY <2>1
  <2> QED  BY <2>2 DEF s, t
<1>7. (\A i \in DOMAIN list : Watched(list[i])) => \A i \in DOMAIN new : Watched(new[i])
  BY <1>1, <1>3, <1>4
<1>8. Distinct(Saved(list)) /\ ~ Duplicated(r) => Distinct(Saved(new))
  <2> SUFFICES ASSUME Distinct(Saved(list)), ~ Duplicated(r) PROVE Distinct(Saved(new))
    OBVIOUS
  <2>1. \A i \in 1 .. Len(list) : Saved(list)[i].cid # r.cid /\ Saved(list)[i].email # r.email
    <3>1. \A i \in 1 .. Len(list) : Saved(list)[i] = list[i].stored
      BY <1>3, SavedList
    <3> QED  BY <1>3, <3>1 DEF Duplicated
  <2> QED  BY <1>4, <1>5, <2>1 DEF Distinct
<1> QED  BY <1>2, <1>3, <1>6, <1>7, <1>8 DEF k
\* A password that is changed leaves who has an account, and its count, alone.
LEMMA ChangedList ==
  ASSUME controlDevices \in Seq(Accounts), month \in 0 .. MaxMonths,
         NEW e \in Emails, NEW p \in Passwords
  PROVE  /\ Changed(e, p) \in Seq(Accounts) /\ Len(Changed(e, p)) = Len(controlDevices)
         /\ Saved(Changed(e, p)) = [i \in DOMAIN Saved(controlDevices) |-> New(Saved(controlDevices)[i], e, p)]
         /\ (\A i \in DOMAIN controlDevices : Watched(controlDevices[i]))
              => \A i \in DOMAIN Changed(e, p) : Watched(Changed(e, p)[i])
         /\ Distinct(Saved(controlDevices)) => Distinct(Saved(Changed(e, p)))
         /\ DOMAIN Changed(e, p) = DOMAIN controlDevices
         /\ \A i \in DOMAIN controlDevices :
              /\ Changed(e, p)[i].stored.cid = controlDevices[i].stored.cid
              /\ Changed(e, p)[i].stored.email = controlDevices[i].stored.email
<1> DEFINE list == controlDevices
           Now(a) == [a EXCEPT !.stored = New(a.stored, e, p)]
           new == Changed(e, p)
<1>1. \A s \in Stored : New(s, e, p) \in Stored /\ New(s, e, p).cid = s.cid
                        /\ New(s, e, p).email = s.email
  <2>1. month \in NoDate .. MaxMonths
    BY Limits DEF NoDate
  <2> QED  BY <2>1 DEF New, Stored
<1>2. ASSUME NEW a \in Accounts
      PROVE  /\ Now(a) \in Accounts /\ Now(a).stored = New(a.stored, e, p)
             /\ Now(a).attempts = a.attempts /\ Now(a).timers = a.timers
             /\ Now(a).unwatched = a.unwatched
  <2>1. New(a.stored, e, p) \in Stored
    BY <1>1, FieldsOf
  <2> QED  BY <2>1 DEF Accounts
<1>3. \A a \in Accounts : Watched(a) => Watched(Now(a))
  BY <1>2, Zenon DEF Watched
<1>4. new = [i \in DOMAIN list |-> Now(list[i])]
  BY DEF Changed
<1>5. \A i \in DOMAIN list : list[i] \in Accounts
  OBVIOUS
<1> HIDE DEF Stored, Accounts, Now, new
<1>6. /\ new \in Seq(Accounts) /\ Len(new) = Len(list) /\ DOMAIN new = DOMAIN list
      /\ \A i \in DOMAIN list : new[i] = Now(list[i])
  BY <1>2, <1>4, <1>5
<1>7. /\ Saved(list) \in Seq(Stored) /\ DOMAIN Saved(list) = DOMAIN list
      /\ DOMAIN Saved(new) = DOMAIN list
      /\ \A i \in DOMAIN list : /\ Saved(list)[i] = list[i].stored
                                /\ list[i].stored \in Stored
                                /\ Saved(new)[i] = New(list[i].stored, e, p)
  BY <1>2, <1>5, <1>6, SavedList, FieldsOf
<1>8. Saved(new) = [i \in DOMAIN Saved(list) |-> New(Saved(list)[i], e, p)]
  BY <1>2, <1>5, <1>6, <1>7 DEF Saved
<1>9. Distinct(Saved(list)) => Distinct(Saved(new))
  BY <1>1, <1>7 DEF Distinct
<1>10. (\A i \in DOMAIN list : Watched(list[i])) => \A i \in DOMAIN new : Watched(new[i])
  BY <1>3, <1>5, <1>6
<1>11. \A i \in DOMAIN list : /\ new[i].stored.cid = list[i].stored.cid
                              /\ new[i].stored.email = list[i].stored.email
  BY <1>1, <1>2, <1>5, <1>6, <1>7
<1> QED  BY <1>6, <1>8, <1>9, <1>10, <1>11 DEF new

\* Attempts to log in, and timers, leave the accounts themselves alone.
SameAccounts ==
  /\ controlDevices' \in Seq(Accounts) /\ Len(controlDevices') = Len(controlDevices)
  /\ DOMAIN controlDevices' = DOMAIN controlDevices
  /\ \A i \in DOMAIN controlDevices : controlDevices'[i].stored = controlDevices[i].stored
  /\ (\A i \in DOMAIN controlDevices : Watched(controlDevices[i]))
       => \A i \in DOMAIN controlDevices : Watched(controlDevices'[i])

LEMMA LoginList ==
  ASSUME controlDevices \in Seq(Accounts), NEW e, NEW p, NEW early, Login(e, p, early)
  PROVE  SameAccounts
<1> DEFINE list == controlDevices
           T == Tried(e, p, early)
           All == UNION {Outcomes(i, p, early) : i \in T}
<1>1. /\ early \subseteq {i \in T : ~ Right(i, p) /\ list[i].timers > 0}
      /\ \A i \in T : Right(i, p) \/ list[i].timers < MaxTimers \/ i \in early
  BY DEF Login
<1>2. PICK f \in [T -> All] :
        /\ \A i \in DOMAIN f : f[i] \in Outcomes(i, p, early)
        /\ controlDevices' = [i \in DOMAIN list |-> IF i \in DOMAIN f THEN f[i] ELSE list[i]]
  BY DEF Login
<1>3. DOMAIN f = T /\ T \subseteq DOMAIN list
  BY DEF Tried, Matches
<1>4. \A i \in DOMAIN list : list[i] \in Accounts
  OBVIOUS
<1>5. ASSUME NEW i \in T
      PROVE  f[i] \in Accounts /\ f[i].stored = list[i].stored /\ Watched(f[i])
  <2>1. f[i] \in Outcomes(i, p, early) /\ list[i] \in Accounts
    BY <1>2, <1>3, <1>4
  <2>2. CASE Right(i, p)
    BY <2>1, <2>2, ClearedKeeps DEF Outcomes
  <2>3. CASE ~ Right(i, p) /\ i \in early
    BY <1>1, <2>1, <2>3, FiredKeeps DEF Outcomes
  <2>4. CASE ~ Right(i, p) /\ i \notin early
    BY <1>1, <2>1, <2>4, CountedKeeps DEF Outcomes
  <2> QED  BY <2>2, <2>3, <2>4
<1> HIDE DEF T, All, Accounts
<1>6. \A i \in DOMAIN list : controlDevices'[i] = IF i \in T THEN f[i] ELSE list[i]
  BY <1>2, <1>3
<1>7. /\ controlDevices' \in Seq(Accounts) /\ Len(controlDevices') = Len(list)
      /\ DOMAIN controlDevices' = DOMAIN list
  <2>1. \A i \in DOMAIN list : (IF i \in DOMAIN f THEN f[i] ELSE list[i]) \in Accounts
    BY <1>3, <1>4, <1>5
  <2> QED  BY <1>2, <2>1
<1> QED  BY <1>5, <1>6, <1>7 DEF SameAccounts

LEMMA ResetList ==
  ASSUME controlDevices \in Seq(Accounts), NEW k \in DOMAIN controlDevices, ResetLoginAttempt(k)
  PROVE  SameAccounts
<1> DEFINE list == controlDevices
<1>1. list[k] \in Accounts /\ list[k].timers > 0
  BY DEF ResetLoginAttempt
<1>2. Fired(list[k]) \in Accounts /\ Fired(list[k]).stored = list[k].stored /\ Watched(Fired(list[k]))
  BY <1>1, FiredKeeps
<1>3. controlDevices' = [list EXCEPT ![k] = Fired(list[k])]
  BY DEF ResetLoginAttempt
<1> HIDE DEF Accounts
<1>4. /\ controlDevices' \in Seq(Accounts) /\ Len(controlDevices') = Len(list)
      /\ DOMAIN controlDevices' = DOMAIN list
      /\ \A i \in DOMAIN list : controlDevices'[i] = IF i = k THEN Fired(list[k]) ELSE list[i]
  BY <1>2, <1>3
<1> QED  BY <1>2, <1>4 DEF SameAccounts
-----------------------------------------------------------------------------
(* The list, the file and the promises.                                    *)

AccountTypes ==
  /\ status \in {"off", "running", "failed", "returned"}
  /\ controlDevices \in Seq(Accounts) /\ Len(controlDevices) <= MAX_DEVSIZE
  /\ file \in Seq(Stored) /\ Len(file) <= MAX_DEVSIZE
  /\ owner \in [Conns -> ContactIDs \cup {NoUser}]
  /\ month \in 0 .. MaxMonths
  /\ promised \in Seq(Stored) /\ incidents \in 0 .. MaxIncidents

\* Without it the accounts would double at the next start.
EmptyWhenOff == status \in {"off", "failed"} => controlDevices = <<>>

ListInv ==
  /\ AccountTypes /\ EmptyWhenOff /\ FileKeepsPromises
  /\ Distinct(Saved(controlDevices)) /\ Distinct(file)
  /\ \A i \in DOMAIN controlDevices : Watched(controlDevices[i])

LEMMA EmptyLists ==
  /\ <<>> \in Seq(Accounts) /\ <<>> \in Seq(Stored) /\ Len(<<>>) = 0
  /\ Saved(<<>>) = <<>> /\ Distinct(<<>>) /\ DOMAIN <<>> = {}
<1> HIDE DEF Accounts, Stored
<1>1. <<>> \in Seq(Accounts) /\ <<>> \in Seq(Stored) /\ Len(<<>>) = 0 /\ DOMAIN <<>> = {}
  OBVIOUS
<1>2. Saved(<<>>) = <<>>
  BY <1>1 DEF Saved
<1>3. Distinct(<<>>)
  BY <1>1 DEF Distinct
<1> QED  BY <1>1, <1>2, <1>3

LEMMA IncidentCounts ==
  ASSUME ListInv, Incident
  PROVE  incidents' \in 0 .. MaxIncidents /\ incidents' > 0
  BY Limits DEF ListInv, AccountTypes, Incident

\* Storing a list whose accounts have been promised, or after an incident.
LEMMA Storing ==
  ASSUME NEW list \in Seq(Accounts), Len(list) <= MAX_DEVSIZE, Distinct(Saved(list)),
         NEW p \in Seq(Stored), incidents > 0 \/ p = Saved(list),
         ListInv, Written(Saved(list)),
         promised' = IF incidents' > 0 THEN <<>> ELSE p
  PROVE  /\ file' \in Seq(Stored) /\ Len(file') <= MAX_DEVSIZE /\ Distinct(file')
         /\ promised' \in Seq(Stored) /\ incidents' \in 0 .. MaxIncidents
         /\ incidents' > 0 \/ (file' = Saved(list) /\ promised' = Saved(list))
<1>1. Saved(list) \in Seq(Stored) /\ Len(Saved(list)) = Len(list) /\ Len(list) \in Nat
  BY SavedList
<1>2. /\ file \in Seq(Stored) /\ Len(file) <= MAX_DEVSIZE /\ Distinct(file)
      /\ incidents \in 0 .. MaxIncidents
  BY DEF ListInv, AccountTypes
<1>3. /\ incidents' \in 0 .. MaxIncidents
      /\ \/ file' = Saved(list) /\ incidents' = incidents
         \/ incidents' > 0
  BY <1>2, IncidentCounts DEF Written
<1>4. ASSUME file' \in Torn(Saved(list))
      PROVE  file' \in Seq(Stored) /\ Len(file') <= MAX_DEVSIZE /\ Distinct(file')
  <2>1. PartsOf(file', Saved(list))
    BY <1>1, <1>4, TornParts
  <2>2. Distinct(file')
    BY <1>1, <2>1, PartsDistinct
  <2>3. file' \in Seq(Stored) /\ Len(file') <= Len(list)
    BY <1>1, <2>1 DEF PartsOf
  <2> HIDE DEF Stored
  <2>4. Len(file') \in Nat
    BY <2>3
  <2> QED  BY <1>1, <2>2, <2>3, <2>4, Limits
<1>5. file' \in Seq(Stored) /\ Len(file') <= MAX_DEVSIZE /\ Distinct(file')
  BY <1>1, <1>2, <1>4 DEF Written
<1>6. promised' \in Seq(Stored)
  BY EmptyLists
<1>7. incidents' > 0 \/ (file' = Saved(list) /\ promised' = Saved(list))
  BY <1>2, <1>3
<1> QED  BY <1>3, <1>5, <1>6, <1>7

\* The steps that touch neither the list nor the file.
LEMMA ListUntouched ==
  ASSUME ListInv, UNCHANGED <<controlDevices, file, promised, incidents>>,
         \/ status' = status
         \/ status = "off" /\ status' = "failed"
         \/ status = "running" /\ status' = "returned",
         owner' \in [Conns -> ContactIDs \cup {NoUser}], month' \in 0 .. MaxMonths
  PROVE  ListInv'
<1>1. AccountTypes' /\ EmptyWhenOff'
  BY DEF ListInv, AccountTypes, EmptyWhenOff
<1>2. FileKeepsPromises'
  BY DEF ListInv, FileKeepsPromises, AccountTypes, Saved
<1> QED  BY <1>1, <1>2 DEF ListInv, Saved, Watched

LEMMA LoadAccountsKeeps ==
  ASSUME ListInv, LoadAccounts
  PROVE  ListInv'
<1>1. PICK read \in Readings :
        /\ controlDevices' = controlDevices \o Loaded(read)
        /\ IF read = file THEN UNCHANGED incidents ELSE Incident
  BY DEF LoadAccounts
<1>2. /\ file \in Seq(Stored) /\ Len(file) <= MAX_DEVSIZE /\ Distinct(file)
      /\ incidents \in 0 .. MaxIncidents /\ promised \in Seq(Stored)
  BY DEF ListInv, AccountTypes
<1>3. PartsOf(read, file) /\ Distinct(read)
  BY <1>2, ReadParts, PartsDistinct
<1>4. read \in Seq(Stored) /\ Len(read) <= MAX_DEVSIZE
  <2>1. read \in Seq(Stored) /\ Len(read) <= Len(file)
    BY <1>3 DEF PartsOf
  <2> HIDE DEF Stored
  <2>2. Len(read) \in Nat /\ Len(file) \in Nat
    BY <1>2, <2>1
  <2> QED  BY <1>2, <2>1, <2>2, Limits
<1>5. /\ Loaded(read) \in Seq(Accounts) /\ Len(Loaded(read)) = Len(read)
      /\ Saved(Loaded(read)) = read
      /\ \A i \in DOMAIN Loaded(read) : Watched(Loaded(read)[i])
  BY <1>4, LoadedList
<1>6. controlDevices' = Loaded(read)
  <2>1. controlDevices = <<>> /\ controlDevices' = <<>> \o Loaded(read)
    BY <1>1 DEF ListInv, EmptyWhenOff, LoadAccounts
  <2> HIDE DEF Accounts, Loaded
  <2> QED  BY <1>5, <2>1, ConcatEmptySeq
<1>7. /\ status' = "running" /\ UNCHANGED <<file, owner, month>>
      /\ promised' = IF incidents' > 0 THEN <<>> ELSE promised
  BY DEF LoadAccounts, Promise
<1>8. incidents' \in 0 .. MaxIncidents /\ (incidents' > 0 \/ (read = file /\ incidents' = incidents))
  BY <1>1, <1>2, IncidentCounts
<1>9. promised' \in Seq(Stored)
  BY <1>2, <1>7, EmptyLists
<1> HIDE DEF Accounts, Stored
<1>10. AccountTypes' /\ EmptyWhenOff'
  BY <1>4, <1>5, <1>6, <1>7, <1>8, <1>9 DEF ListInv, AccountTypes, EmptyWhenOff
<1>11. FileKeepsPromises'
  BY <1>5, <1>6, <1>7, <1>8 DEF ListInv, FileKeepsPromises
<1>12. Distinct(Saved(controlDevices')) /\ Distinct(file')
  BY <1>2, <1>3, <1>5, <1>6, <1>7
<1>13. \A i \in DOMAIN controlDevices' : Watched(controlDevices'[i])
  BY <1>5, <1>6
<1> QED  BY <1>10, <1>11, <1>12, <1>13 DEF ListInv

\* The server stops, or the program does, and leaves no list.
LEMMA StoppedKeeps ==
  ASSUME ListInv, status' = "off", controlDevices' = <<>>, month' = month,
         owner' = [c \in Conns |-> NoUser],
         file' \in Seq(Stored), Len(file') <= MAX_DEVSIZE, Distinct(file'),
         promised' \in Seq(Stored), incidents' \in 0 .. MaxIncidents, incidents' > 0 \/ file' = promised'
  PROVE  ListInv'
<1>1. AccountTypes' /\ EmptyWhenOff'
  BY EmptyLists, Limits DEF ListInv, AccountTypes, EmptyWhenOff
<1>2. FileKeepsPromises'
  BY DEF FileKeepsPromises
<1>3. Distinct(Saved(controlDevices'))
  BY EmptyLists
<1>4. DOMAIN controlDevices' = {}
  BY EmptyLists
<1> QED  BY <1>1, <1>2, <1>3, <1>4 DEF ListInv

LEMMA CleanUpKeeps ==
  ASSUME ListInv, CleanUpACServer
  PROVE  ListInv'
<1>1. /\ status # "off" /\ status' = "off" /\ controlDevices' = <<>> /\ month' = month
      /\ owner' = [c \in Conns |-> NoUser]
      /\ promised' = IF incidents' > 0 THEN <<>> ELSE promised
  BY DEF CleanUpACServer, Promise
<1>2. CASE status = "failed"
  <2>1. file' \in {<<>>, file} /\ incidents' > 0 /\ incidents' \in 0 .. MaxIncidents
    BY <1>2, IncidentCounts DEF CleanUpACServer
  <2>2. file' \in Seq(Stored) /\ Len(file') <= MAX_DEVSIZE /\ Distinct(file') /\ promised' \in Seq(Stored)
    <3>1. CASE file' = <<>>
      BY <1>1, <2>1, <3>1, EmptyLists, Limits
    <3>2. CASE file' = file
      BY <1>1, <2>1, <3>2, EmptyLists DEF ListInv, AccountTypes
    <3> QED  BY <2>1, <3>1, <3>2
  <2> QED  BY <1>1, <2>1, <2>2, StoppedKeeps
<1>3. CASE status # "failed"
  <2>1. /\ controlDevices \in Seq(Accounts) /\ Len(controlDevices) <= MAX_DEVSIZE
        /\ Distinct(Saved(controlDevices)) /\ promised \in Seq(Stored)
        /\ Len(controlDevices) \in Nat
    BY DEF ListInv, AccountTypes
  <2>2. incidents > 0 \/ promised = Saved(controlDevices)
    BY <1>1, <1>3 DEF ListInv, AccountTypes, FileKeepsPromises
  <2>3. Written(Saved(controlDevices))
    <3>1. StoreData(controlDevices) /\ Len(controlDevices) < MAX_DEVSIZE + 1
      BY <1>3, <2>1, Limits DEF CleanUpACServer
    <3> QED  BY <3>1 DEF StoreData
  <2>4. /\ file' \in Seq(Stored) /\ Len(file') <= MAX_DEVSIZE /\ Distinct(file')
        /\ promised' \in Seq(Stored) /\ incidents' \in 0 .. MaxIncidents
        /\ incidents' > 0 \/ (file' = Saved(controlDevices) /\ promised' = Saved(controlDevices))
    <3> HIDE DEF Accounts, Stored
    <3> QED  BY <1>1, <2>1, <2>2, <2>3, Storing
  <2> QED  BY <1>1, <2>4, StoppedKeeps
<1> QED  BY <1>2, <1>3

LEMMA CrashKeeps ==
  ASSUME ListInv, Crash
  PROVE  ListInv'
<1>1. /\ status' = "off" /\ controlDevices' = <<>> /\ month' = month
      /\ owner' = [c \in Conns |-> NoUser] /\ UNCHANGED <<file, promised, incidents>>
  BY DEF Crash, Dies
<1>2. /\ file' \in Seq(Stored) /\ Len(file') <= MAX_DEVSIZE /\ Distinct(file')
      /\ promised' \in Seq(Stored) /\ incidents' \in 0 .. MaxIncidents
      /\ incidents' > 0 \/ file' = promised'
  BY <1>1 DEF ListInv, AccountTypes, FileKeepsPromises
<1> QED  BY <1>1, <1>2, StoppedKeeps

LEMMA CrashWhileStoringKeeps ==
  ASSUME ListInv, NEW list \in Seq(Accounts), Len(list) <= MAX_DEVSIZE, Distinct(Saved(list)),
         CrashWhileStoring(list)
  PROVE  ListInv'
<1>1. /\ status' = "off" /\ controlDevices' = <<>> /\ month' = month
      /\ owner' = [c \in Conns |-> NoUser] /\ file' \in Torn(Saved(list))
      /\ incidents' \in 0 .. MaxIncidents /\ incidents' > 0
  BY IncidentCounts DEF CrashWhileStoring, Dies
<1>2. promised' = <<>>
  BY <1>1 DEF CrashWhileStoring, Promise
<1>3. Saved(list) \in Seq(Stored) /\ Len(Saved(list)) = Len(list) /\ Len(list) \in Nat
  BY SavedList
<1>4. PartsOf(file', Saved(list)) /\ Distinct(file')
  BY <1>1, <1>3, TornParts, PartsDistinct
<1>5. file' \in Seq(Stored) /\ Len(file') <= MAX_DEVSIZE
  <2>1. file' \in Seq(Stored) /\ Len(file') <= Len(list)
    BY <1>3, <1>4 DEF PartsOf
  <2> HIDE DEF Stored
  <2>2. Len(file') \in Nat
    BY <2>1
  <2> QED  BY <1>3, <2>1, <2>2, Limits
<1> QED  BY <1>1, <1>2, <1>4, <1>5, EmptyLists, StoppedKeeps

LEMMA CandidatesStored ==
  ASSUME ListInv, NEW r \in Candidates
  PROVE  r \in Stored
<1>1. month \in NoDate .. MaxMonths
  BY Limits DEF ListInv, AccountTypes, NoDate
<1> QED  BY <1>1 DEF Candidates, Stored

LEMMA RegistrationKeeps ==
  ASSUME ListInv, NEW r \in Candidates, Registration(r)
  PROVE  ListInv'
<1>1. PICK n \in Uninitialised : controlDevices' = Registered(r, n)
  BY DEF Registration
<1> DEFINE new == Registered(r, n)
<1>2. r \in Stored /\ n \in Chars /\ controlDevices \in Seq(Accounts)
  BY Limits, CandidatesStored DEF ListInv, AccountTypes
<1>3. /\ new \in Seq(Accounts) /\ Len(new) = Len(controlDevices) + 1
      /\ Saved(new) = Append(Saved(controlDevices), r)
      /\ \A i \in DOMAIN new : Watched(new[i])
      /\ Distinct(Saved(new))
  <2>1. ~ Duplicated(r) /\ Distinct(Saved(controlDevices))
        /\ \A i \in DOMAIN controlDevices : Watched(controlDevices[i])
    BY DEF Registration, ListInv
  <2> HIDE DEF Accounts, Stored, Chars
  <2> QED  BY <1>2, <2>1, RegisteredList
<1>4. /\ status = "running" /\ Len(new) <= MAX_DEVSIZE /\ Len(new) \in Nat
      /\ UNCHANGED <<status, owner, month>>
  BY <1>2, <1>3, Limits DEF Registration
<1>5. promised' = IF incidents' > 0 THEN <<>> ELSE Append(promised, r)
  BY DEF Registration, Promise
<1>6. Written(Saved(new))
  <2>1. Len(controlDevices') < MAX_DEVSIZE + 1
    BY <1>1, <1>4, Limits
  <2>2. Written(Saved(controlDevices'))
    BY <2>1 DEF Registration, StoreData
  <2> QED  BY <1>1, <2>2
<1>7. Append(promised, r) \in Seq(Stored)
  BY <1>2 DEF ListInv, AccountTypes
<1>8. incidents > 0 \/ Append(promised, r) = Saved(new)
  BY <1>3, <1>4 DEF ListInv, FileKeepsPromises
<1> HIDE DEF new, Accounts, Stored
<1>9. /\ file' \in Seq(Stored) /\ Len(file') <= MAX_DEVSIZE /\ Distinct(file')
      /\ promised' \in Seq(Stored) /\ incidents' \in 0 .. MaxIncidents
      /\ incidents' > 0 \/ (file' = Saved(new) /\ promised' = Saved(new))
  BY <1>3, <1>4, <1>5, <1>6, <1>7, <1>8, Storing
<1>10. controlDevices' = new
  BY <1>1 DEF new
<1>11. AccountTypes' /\ EmptyWhenOff'
  BY <1>3, <1>4, <1>9, <1>10 DEF ListInv, AccountTypes, EmptyWhenOff
<1>12. FileKeepsPromises'
  BY <1>9, <1>10 DEF FileKeepsPromises
<1> QED  BY <1>3, <1>9, <1>10, <1>11, <1>12 DEF ListInv

LEMMA ReRegPasswordKeeps ==
  ASSUME ListInv, NEW e \in Emails, NEW p \in Passwords, ReRegPasswordRequest(e, p)
  PROVE  ListInv'
<1> DEFINE new == Changed(e, p)
           told == [i \in DOMAIN promised |-> New(promised[i], e, p)]
<1>1. controlDevices' = new /\ status = "running" /\ UNCHANGED <<status, owner, month>>
  BY DEF ReRegPasswordRequest
<1>2. controlDevices \in Seq(Accounts) /\ month \in 0 .. MaxMonths /\ promised \in Seq(Stored)
  BY DEF ListInv, AccountTypes
<1>3. /\ new \in Seq(Accounts) /\ Len(new) = Len(controlDevices)
      /\ Saved(new) = [i \in DOMAIN Saved(controlDevices) |-> New(Saved(controlDevices)[i], e, p)]
      /\ \A i \in DOMAIN new : Watched(new[i])
      /\ Distinct(Saved(new))
  <2>1. Distinct(Saved(controlDevices)) /\ \A i \in DOMAIN controlDevices : Watched(controlDevices[i])
    BY DEF ListInv
  <2> HIDE DEF Accounts, Stored
  <2> QED  BY <1>2, <2>1, ChangedList
<1>4. Len(new) <= MAX_DEVSIZE /\ Len(new) \in Nat
  BY <1>2, <1>3 DEF ListInv, AccountTypes
<1>5. promised' = IF incidents' > 0 THEN <<>> ELSE told
  BY DEF ReRegPasswordRequest, Promise
<1>6. Written(Saved(new))
  <2>1. Len(controlDevices') < MAX_DEVSIZE + 1
    BY <1>1, <1>4, Limits
  <2>2. Written(Saved(controlDevices'))
    BY <2>1 DEF ReRegPasswordRequest, StoreData
  <2> QED  BY <1>1, <2>2
<1>7. told \in Seq(Stored)
  <2>1. \A s \in Stored : New(s, e, p) \in Stored
    <3>1. month \in NoDate .. MaxMonths
      BY <1>2, Limits DEF NoDate
    <3> QED  BY <3>1 DEF New, Stored
  <2> HIDE DEF Stored
  <2> QED  BY <1>2, <2>1
<1>8. incidents > 0 \/ told = Saved(new)
  BY <1>1, <1>3 DEF ListInv, FileKeepsPromises
<1> HIDE DEF new, told, Accounts, Stored
<1>9. /\ file' \in Seq(Stored) /\ Len(file') <= MAX_DEVSIZE /\ Distinct(file')
      /\ promised' \in Seq(Stored) /\ incidents' \in 0 .. MaxIncidents
      /\ incidents' > 0 \/ (file' = Saved(new) /\ promised' = Saved(new))
  BY <1>3, <1>4, <1>5, <1>6, <1>7, <1>8, Storing
<1>11. AccountTypes' /\ EmptyWhenOff'
  BY <1>1, <1>3, <1>4, <1>9 DEF ListInv, AccountTypes, EmptyWhenOff
<1>12. FileKeepsPromises'
  BY <1>1, <1>9 DEF FileKeepsPromises
<1> QED  BY <1>1, <1>3, <1>9, <1>11, <1>12 DEF ListInv

\* Attempts to log in, and timers.
LEMMA SameAccountsKeep ==
  ASSUME ListInv, SameAccounts, UNCHANGED <<status, file, owner, month, promised, incidents>>
  PROVE  ListInv'
<1>1. /\ controlDevices \in Seq(Accounts) /\ controlDevices' \in Seq(Accounts)
      /\ Len(controlDevices') = Len(controlDevices)
      /\ DOMAIN controlDevices' = DOMAIN controlDevices
      /\ \A i \in DOMAIN controlDevices : controlDevices'[i].stored = controlDevices[i].stored
  BY DEF ListInv, AccountTypes, SameAccounts
<1>2. Saved(controlDevices') = Saved(controlDevices)
  BY <1>1, Zenon DEF Saved
<1>3. \A i \in DOMAIN controlDevices' : Watched(controlDevices'[i])
  BY <1>1 DEF ListInv, SameAccounts
<1> HIDE DEF Accounts, Stored
<1>4. AccountTypes'
  BY <1>1 DEF ListInv, AccountTypes
<1>5. EmptyWhenOff'
  <2>1. controlDevices = <<>> => controlDevices' = <<>>
    BY <1>1
  <2> QED  BY <2>1 DEF ListInv, EmptyWhenOff
<1>6. FileKeepsPromises'
  BY <1>2 DEF ListInv, FileKeepsPromises
<1> QED  BY <1>2, <1>3, <1>4, <1>5, <1>6 DEF ListInv
LEMMA ListInit == Init => ListInv
<1> SUFFICES ASSUME Init PROVE ListInv
  OBVIOUS
<1>1. /\ status = "off" /\ controlDevices = <<>> /\ file = <<>> /\ promised = <<>>
      /\ incidents = 0 /\ month = 0 /\ owner = [c \in Conns |-> NoUser]
  BY DEF Init
<1>2. AccountTypes /\ EmptyWhenOff
  <2>1. owner \in [Conns -> ContactIDs \cup {NoUser}]
    BY <1>1
  <2>2. controlDevices \in Seq(Accounts) /\ file \in Seq(Stored) /\ promised \in Seq(Stored)
    BY <1>1, EmptyLists, Zenon
  <2>3. /\ Len(controlDevices) <= MAX_DEVSIZE /\ Len(file) <= MAX_DEVSIZE
        /\ month \in 0 .. MaxMonths /\ incidents \in 0 .. MaxIncidents
    BY <1>1, EmptyLists, Limits
  <2> HIDE DEF Accounts, Stored
  <2> QED  BY <1>1, <2>1, <2>2, <2>3 DEF AccountTypes, EmptyWhenOff
<1>3. FileKeepsPromises
  BY <1>1 DEF FileKeepsPromises
<1> QED  BY <1>1, <1>2, <1>3, EmptyLists DEF ListInv

\* The owner of a connection is a contact ID, or none.
LEMMA EntryTypes ==
  ASSUME ListInv, NEW i \in DOMAIN controlDevices
  PROVE  controlDevices[i].stored.cid \in ContactIDs \cup {NoUser}
<1>1. controlDevices[i] \in Accounts
  BY DEF ListInv, AccountTypes
<1>2. controlDevices[i].stored \in Stored
  BY <1>1, FieldsOf
<1> QED  BY <1>2 DEF Stored

LEMMA CrashesKeep ==
  ASSUME ListInv, Crashes
  PROVE  ListInv'
<1>1. /\ controlDevices \in Seq(Accounts) /\ Len(controlDevices) <= MAX_DEVSIZE
      /\ Distinct(Saved(controlDevices)) /\ month \in 0 .. MaxMonths /\ Len(controlDevices) \in Nat
  BY DEF ListInv, AccountTypes
<1>2. CASE Crash
  BY <1>2, CrashKeeps
<1>3. CASE CrashWhileStoring(controlDevices)
  BY <1>1, <1>3, CrashWhileStoringKeeps
<1>4. ASSUME NEW e \in Emails, NEW p \in Passwords, CrashWhileStoring(Changed(e, p))
      PROVE  ListInv'
  <2>1. /\ Changed(e, p) \in Seq(Accounts) /\ Len(Changed(e, p)) <= MAX_DEVSIZE
        /\ Distinct(Saved(Changed(e, p)))
    BY <1>1, ChangedList
  <2> QED  BY <1>4, <2>1, CrashWhileStoringKeeps
<1>5. ASSUME NEW r \in Candidates, Len(controlDevices) < MAX_DEVSIZE, ~ Duplicated(r),
             CrashWhileStoring(Registered(r, 0))
      PROVE  ListInv'
  <2>1. r \in Stored /\ 0 \in Chars
    BY Limits, CandidatesStored
  <2>2. /\ Registered(r, 0) \in Seq(Accounts) /\ Distinct(Saved(Registered(r, 0)))
        /\ Len(Registered(r, 0)) = Len(controlDevices) + 1
    BY <1>1, <1>5, <2>1, RegisteredList
  <2>3. Len(Registered(r, 0)) <= MAX_DEVSIZE
    BY <1>1, <1>5, <2>2, Limits
  <2> QED  BY <1>5, <2>2, <2>3, CrashWhileStoringKeeps
<1> QED  BY <1>2, <1>3, <1>4, <1>5 DEF Crashes

LEMMA ListStep ==
  ASSUME ListInv, [Next]_vars
  PROVE  ListInv'
<1>1. /\ controlDevices \in Seq(Accounts) /\ owner \in [Conns -> ContactIDs \cup {NoUser}]
      /\ month \in 0 .. MaxMonths
  BY DEF ListInv, AccountTypes
<1>2. CASE LoadAccounts
  BY <1>2, LoadAccountsKeeps
<1>3. CASE StartFails \/ ThreadReturns
  BY <1>1, <1>3, ListUntouched DEF StartFails, ThreadReturns
<1>4. CASE CleanUpACServer
  BY <1>4, CleanUpKeeps
<1>5. ASSUME NEW r \in Candidates, Registration(r) PROVE ListInv'
  BY <1>5, RegistrationKeeps
<1>6. ASSUME NEW e \in Emails, NEW p \in Passwords, ReRegPasswordRequest(e, p) PROVE ListInv'
  BY <1>6, ReRegPasswordKeeps
<1>7. ASSUME NEW e \in Emails, NEW p \in Passwords, NEW early \in SUBSET DOMAIN controlDevices,
             Login(e, p, early)
      PROVE  ListInv'
  <2>1. SameAccounts
    BY <1>1, <1>7, LoginList
  <2>2. UNCHANGED <<status, file, owner, month, promised, incidents>>
    BY <1>7 DEF Login
  <2> QED  BY <2>1, <2>2, SameAccountsKeep
<1>8. CASE UNCHANGED accountVars
  BY <1>1, <1>8, ListUntouched DEF accountVars
<1>9. ASSUME NEW c \in Conns, NEW i \in DOMAIN controlDevices, NEW t, TwoFactorRequest(c, i, t)
      PROVE  ListInv'
  <2>1. /\ UNCHANGED <<status, controlDevices, file, month, promised, incidents>>
        /\ \/ owner' = owner
           \/ owner' = [owner EXCEPT ![c] = controlDevices[i].stored.cid]
    BY <1>9 DEF TwoFactorRequest
  <2>2. owner' \in [Conns -> ContactIDs \cup {NoUser}]
    BY <1>1, <2>1, EntryTypes
  <2> QED  BY <1>1, <2>1, <2>2, ListUntouched
<1>10. CASE Crashes
  BY <1>10, CrashesKeep
<1>11. CASE MonthPasses
  <2>1. month' \in 0 .. MaxMonths
    BY <1>1, <1>11, Limits DEF MonthPasses
  <2> QED  BY <1>1, <1>11, <2>1, ListUntouched DEF MonthPasses
<1>12. ASSUME NEW c \in Conns, CloseConnection(c) PROVE ListInv'
  <2>1. owner' \in [Conns -> ContactIDs \cup {NoUser}]
    BY <1>1, <1>12 DEF CloseConnection
  <2> QED  BY <1>1, <1>12, <2>1, ListUntouched DEF CloseConnection
<1>13. ASSUME NEW i \in DOMAIN controlDevices, ResetLoginAttempt(i) PROVE ListInv'
  <2>1. SameAccounts
    BY <1>1, <1>13, ResetList
  <2>2. UNCHANGED <<status, file, owner, month, promised, incidents>>
    BY <1>13 DEF ResetLoginAttempt
  <2> QED  BY <2>1, <2>2, SameAccountsKeep
<1>14. CASE Server
  BY <1>2, <1>3, <1>4, <1>14 DEF Server
<1>15. CASE Message
  BY <1>5, <1>6, <1>7, <1>8, <1>9, <1>15
     DEF Message, ResetPasswordRequest, ChangePasswordRequest
<1>16. CASE Passing
  BY <1>8, <1>11, <1>12, <1>13, <1>16 DEF Passing
<1>17. CASE UNCHANGED vars
  BY <1>8, <1>17 DEF vars
<1> QED  BY <1>10, <1>14, <1>15, <1>16, <1>17 DEF Next
-----------------------------------------------------------------------------
(* What a step does to the tokens and to the accounts, as far as the       *)
(* owners of connections depend on them.                                   *)

TokensRemain == used \subseteq used' /\ \A t \in used : sent'[t] = sent[t]

NobodyLeft == owner' = [c \in Conns |-> NoUser] /\ entered' = {}

LEMMA TokenStep ==
  ASSUME ListInv, TokenInv, [Next]_vars
  PROVE  TokenInv' /\ (TokensRemain \/ NobodyLeft)
<1>1. used \subseteq DOMAIN sent
  BY DEF TokenInv, TfaTypeOK
<1>2. CASE UNCHANGED tfaVars
  BY <1>2 DEF tfaVars, TokenInv, TfaTypeOK, TokensIncrease, TokensWereMailed, TokensOnceInOrder,
              TokensRemain
<1>3. ASSUME NEW e, SendTFA(e) PROVE TokenInv' /\ TokensRemain
  BY <1>1, <1>3, SendKeeps DEF TokensRemain
<1>4. ASSUME NEW e, NEW t \in DOMAIN sent, CheckToken(e, t)
      PROVE  TokenInv' /\ TokensRemain
  BY <1>4, CheckKeeps DEF TokensRemain
<1>5. CASE TimePasses
  BY <1>5 DEF TimePasses, TokenInv, TfaTypeOK, TokensIncrease, TokensWereMailed,
              TokensOnceInOrder, TokensRemain
<1>6. CASE Dies
  <2>1. TfaInit'
    BY <1>6 DEF Dies, TfaInit
  <2>2. TokenInv'
    BY <2>1, TokenInit, PTL
  <2> QED  BY <1>6, <2>2 DEF Dies, NobodyLeft
<1>7. CASE Server
  BY <1>2, <1>7 DEF Server, LoadAccounts, StartFails, ThreadReturns, CleanUpACServer
<1>8. CASE Message
  <2>1. ASSUME NEW e \in Emails, NEW p \in Passwords, NEW early, Login(e, p, early)
        PROVE  TokenInv' /\ TokensRemain
    BY <1>2, <1>3, <2>1 DEF Login, tfaVars, TokensRemain
  <2>2. ASSUME NEW c \in Conns, NEW i \in DOMAIN controlDevices, NEW t \in DOMAIN sent,
               TwoFactorRequest(c, i, t)
        PROVE  TokenInv' /\ TokensRemain
    BY <1>4, <2>2 DEF TwoFactorRequest
  <2>3. ASSUME NEW e \in Emails \cup {NoEmail}, ResetPasswordRequest(e) PROVE TokenInv' /\ TokensRemain
    BY <1>3, <2>3 DEF ResetPasswordRequest
  <2>4. ASSUME NEW e \in Emails, NEW t \in DOMAIN sent, ChangePasswordRequest(e, t)
        PROVE  TokenInv' /\ TokensRemain
    BY <1>4, <2>4 DEF ChangePasswordRequest
  <2>5. ASSUME NEW r \in Candidates, Registration(r) PROVE UNCHANGED tfaVars
    BY <2>5 DEF Registration
  <2>6. ASSUME NEW e \in Emails, NEW p \in Passwords, ReRegPasswordRequest(e, p)
        PROVE  UNCHANGED tfaVars
    BY <2>6 DEF ReRegPasswordRequest
  <2> QED  BY <1>2, <1>8, <2>1, <2>2, <2>3, <2>4, <2>5, <2>6 DEF Message
<1>9. CASE Crashes
  BY <1>6, <1>9 DEF Crashes, Crash, CrashWhileStoring
<1>10. CASE Passing
  BY <1>2, <1>5, <1>10 DEF Passing, MonthPasses, CloseConnection, ResetLoginAttempt
<1>11. CASE UNCHANGED vars
  BY <1>2, <1>11 DEF vars
<1> QED  BY <1>7, <1>8, <1>9, <1>10, <1>11 DEF Next

AccountsRemain ==
  \A i \in DOMAIN controlDevices : \E j \in DOMAIN controlDevices' :
    /\ controlDevices'[j].stored.cid = controlDevices[i].stored.cid
    /\ controlDevices'[j].stored.email = controlDevices[i].stored.email

\* A token that was entered is used up, and can not be entered again.
OwnerInv == OwnersAdmitted /\ entered \subseteq Conns \X used

\* Connection c's account and token are those it had.
LEMMA OwnerRemains ==
  ASSUME OwnerInv, TokenInv', AccountsRemain, TokensRemain,
         NEW c \in Conns, owner'[c] = owner[c], owner'[c] # NoUser,
         \A t \in used : <<c, t>> \in entered => <<c, t>> \in entered',
         \A d \in Conns : \A t \in used : <<d, t>> \in entered' => <<d, t>> \in entered
  PROVE  \E i \in DOMAIN controlDevices', t \in DOMAIN sent' :
           /\ controlDevices'[i].stored.cid = owner'[c] /\ controlDevices'[i].stored.email = sent'[t]
           /\ \A d \in Conns : <<d, t>> \in entered' <=> d = c
<1>1. PICK i \in DOMAIN controlDevices, t \in DOMAIN sent :
        /\ controlDevices[i].stored.cid = owner[c] /\ controlDevices[i].stored.email = sent[t]
        /\ \A d \in Conns : <<d, t>> \in entered <=> d = c
  BY DEF OwnerInv, OwnersAdmitted
<1>2. PICK j \in DOMAIN controlDevices' :
        /\ controlDevices'[j].stored.cid = controlDevices[i].stored.cid
        /\ controlDevices'[j].stored.email = controlDevices[i].stored.email
  BY DEF AccountsRemain
<1>3. t \in used
  BY <1>1 DEF OwnerInv
<1>4. t \in DOMAIN sent' /\ sent'[t] = sent[t]
  BY <1>3 DEF TokensRemain, TokenInv, TfaTypeOK
<1>5. \A d \in Conns : <<d, t>> \in entered' <=> d = c
  BY <1>1, <1>3
<1> QED  BY <1>1, <1>2, <1>4, <1>5

\* The steps that give no connection an owner.
LEMMA OwnersRemain ==
  ASSUME OwnerInv, TokenInv', AccountsRemain, TokensRemain, UNCHANGED <<owner, entered>>
  PROVE  OwnerInv'
<1>1. OwnersAdmitted'
  BY OwnerRemains DEF OwnersAdmitted
<1>2. entered' \subseteq Conns \X used'
  BY DEF OwnerInv, TokensRemain
<1> QED  BY <1>1, <1>2 DEF OwnerInv

LEMMA OwnerStep ==
  ASSUME ListInv, TokenInv, OwnerInv, [Next]_vars
  PROVE  OwnerInv'
<1>1. controlDevices \in Seq(Accounts) /\ owner \in [Conns -> ContactIDs \cup {NoUser}]
      /\ month \in 0 .. MaxMonths
  BY DEF ListInv, AccountTypes
<1>2. TokenInv' /\ (TokensRemain \/ NobodyLeft)
  BY TokenStep
<1>3. CASE NobodyLeft
  BY <1>3 DEF NobodyLeft, OwnerInv, OwnersAdmitted
<1>4. CASE AccountsRemain /\ UNCHANGED <<owner, entered>>
  BY <1>2, <1>3, <1>4, OwnersRemain
<1>5. ASSUME UNCHANGED controlDevices PROVE AccountsRemain
  BY <1>5 DEF AccountsRemain
<1>6. ASSUME SameAccounts PROVE AccountsRemain
  BY <1>6 DEF SameAccounts, AccountsRemain
<1>7. CASE LoadAccounts
  <2>1. controlDevices = <<>> /\ UNCHANGED <<owner, entered>>
    BY <1>7 DEF LoadAccounts, ListInv, EmptyWhenOff
  <2>2. AccountsRemain
    BY <2>1, EmptyLists DEF AccountsRemain
  <2> QED  BY <1>4, <2>1, <2>2
<1>8. CASE StartFails \/ ThreadReturns \/ MonthPasses \/ UNCHANGED accountVars
  <2>1. UNCHANGED <<owner, entered>> /\ UNCHANGED controlDevices
    BY <1>8 DEF StartFails, ThreadReturns, MonthPasses, accountVars
  <2> QED  BY <1>4, <1>5, <2>1
<1>9. CASE CleanUpACServer \/ Crashes
  BY <1>3, <1>9 DEF CleanUpACServer, Crashes, Crash, CrashWhileStoring, Dies, NobodyLeft
<1>10. ASSUME NEW r \in Candidates, Registration(r) PROVE OwnerInv'
  <2>1. PICK n \in Uninitialised : controlDevices' = Registered(r, n)
    BY <1>10 DEF Registration
  <2> DEFINE a == [stored |-> r, attempts |-> n, timers |-> 0,
                   unwatched |-> n > MAX_ALLOW_LOGIN_ATTEMPT]
  <2>2. controlDevices' = Append(controlDevices, a)
    BY <2>1 DEF Registered
  <2> HIDE DEF a
  <2>3. AccountsRemain
    <3> HIDE DEF Accounts
    <3>1. ASSUME NEW i \in DOMAIN controlDevices
          PROVE  i \in DOMAIN controlDevices' /\ controlDevices'[i] = controlDevices[i]
      BY <1>1, <2>2
    <3> QED  BY <3>1 DEF AccountsRemain
  <2>4. UNCHANGED <<owner, entered>>
    BY <1>10 DEF Registration
  <2> QED  BY <1>4, <2>3, <2>4
<1>11. ASSUME NEW e \in Emails, NEW p \in Passwords, ReRegPasswordRequest(e, p)
       PROVE  OwnerInv'
  <2>1. controlDevices' = Changed(e, p) /\ UNCHANGED <<owner, entered>>
    BY <1>11 DEF ReRegPasswordRequest
  <2>2. /\ DOMAIN Changed(e, p) = DOMAIN controlDevices
        /\ \A i \in DOMAIN controlDevices :
             /\ Changed(e, p)[i].stored.cid = controlDevices[i].stored.cid
             /\ Changed(e, p)[i].stored.email = controlDevices[i].stored.email
    BY <1>1, ChangedList
  <2>3. AccountsRemain
    BY <2>1, <2>2 DEF AccountsRemain
  <2> QED  BY <1>4, <2>1, <2>3
<1>12. ASSUME NEW e \in Emails, NEW p \in Passwords, NEW early, Login(e, p, early)
       PROVE  OwnerInv'
  <2>1. SameAccounts
    BY <1>1, <1>12, LoginList
  <2>2. UNCHANGED <<owner, entered>>
    BY <1>12 DEF Login
  <2> QED  BY <1>4, <1>6, <2>1, <2>2
<1>13. ASSUME NEW k \in DOMAIN controlDevices, ResetLoginAttempt(k) PROVE OwnerInv'
  <2>1. SameAccounts
    BY <1>1, <1>13, ResetList
  <2>2. UNCHANGED <<owner, entered>>
    BY <1>13 DEF ResetLoginAttempt
  <2> QED  BY <1>4, <1>6, <2>1, <2>2
<1>14. ASSUME NEW d \in Conns, CloseConnection(d) PROVE OwnerInv'
  <2>1. /\ UNCHANGED <<controlDevices, tfaVars>> /\ entered' = {x \in entered : x[1] # d}
        /\ owner' = [owner EXCEPT ![d] = NoUser]
    BY <1>14 DEF CloseConnection
  <2>2. AccountsRemain /\ TokensRemain
    BY <1>5, <2>1 DEF tfaVars, TokensRemain
  <2>3. ASSUME NEW c \in Conns, owner'[c] # NoUser
        PROVE  \E i \in DOMAIN controlDevices', t \in DOMAIN sent' :
                 /\ controlDevices'[i].stored.cid = owner'[c]
                 /\ controlDevices'[i].stored.email = sent'[t]
                 /\ \A x \in Conns : <<x, t>> \in entered' <=> x = c
    <3>1. c # d /\ owner'[c] = owner[c]
      BY <1>1, <2>1, <2>3
    <3>2. \A t \in used : <<c, t>> \in entered => <<c, t>> \in entered'
      BY <2>1, <3>1
    <3>3. \A x \in Conns : \A t \in used : <<x, t>> \in entered' => <<x, t>> \in entered
      BY <2>1
    <3> QED  BY <1>2, <2>2, <2>3, <3>1, <3>2, <3>3, OwnerRemains
  <2>4. entered' \subseteq Conns \X used'
    BY <2>1, <2>2 DEF OwnerInv, TokensRemain
  <2> QED  BY <2>3, <2>4 DEF OwnerInv, OwnersAdmitted
\* The one step that gives a connection an owner.
<1>15. ASSUME NEW d \in Conns, NEW k \in DOMAIN controlDevices, NEW t \in DOMAIN sent,
              TwoFactorRequest(d, k, t)
       PROVE  OwnerInv'
  <2> DEFINE s == controlDevices[k].stored
  <2>1. CheckToken(s.email, t) /\ controlDevices' = controlDevices
    BY <1>15 DEF TwoFactorRequest
  <2>2. sent' = sent /\ used' = used \cup {t} /\ sent[t] = s.email /\ t \notin used
    BY <2>1, CheckKeeps
  <2>3. \/ UNCHANGED <<owner, entered>>
        \/ owner' = [owner EXCEPT ![d] = s.cid] /\ entered' = entered \cup {<<d, t>>}
    BY <1>15 DEF TwoFactorRequest
  <2>4. AccountsRemain /\ TokensRemain
    BY <1>5, <2>1, <2>2 DEF TokensRemain
  <2> HIDE DEF s
  <2>5. CASE UNCHANGED <<owner, entered>>
    BY <1>4, <2>4, <2>5
  <2>6. CASE owner' = [owner EXCEPT ![d] = s.cid] /\ entered' = entered \cup {<<d, t>>}
    <3>1. \A x \in Conns : <<x, t>> \notin entered
      BY <2>2 DEF OwnerInv
    <3>2. ASSUME NEW c \in Conns, owner'[c] # NoUser, c # d
          PROVE  \E i \in DOMAIN controlDevices', u \in DOMAIN sent' :
                   /\ controlDevices'[i].stored.cid = owner'[c]
                   /\ controlDevices'[i].stored.email = sent'[u]
                   /\ \A x \in Conns : <<x, u>> \in entered' <=> x = c
      <4>1. owner'[c] = owner[c]
        BY <1>1, <2>6, <3>2
      <4>2. \A u \in used : <<c, u>> \in entered => <<c, u>> \in entered'
        BY <2>6
      <4>3. \A x \in Conns : \A u \in used : <<x, u>> \in entered' => <<x, u>> \in entered
        BY <2>2, <2>6
      <4> QED  BY <1>2, <2>4, <3>2, <4>1, <4>2, <4>3, OwnerRemains
    <3>3. /\ k \in DOMAIN controlDevices' /\ t \in DOMAIN sent'
          /\ controlDevices'[k].stored.cid = owner'[d]
          /\ controlDevices'[k].stored.email = sent'[t]
          /\ \A x \in Conns : <<x, t>> \in entered' <=> x = d
      <4>1. owner'[d] = s.cid
        BY <1>1, <2>6
      <4>2. \A x \in Conns : <<x, t>> \in entered' <=> x = d
        BY <2>6, <3>1
      <4> QED  BY <2>1, <2>2, <4>1, <4>2 DEF s
    <3>4. OwnersAdmitted'
      BY <3>2, <3>3 DEF OwnersAdmitted
    <3>5. entered' \subseteq Conns \X used'
      BY <2>2, <2>6 DEF OwnerInv
    <3> QED  BY <3>4, <3>5 DEF OwnerInv
  <2> QED  BY <2>3, <2>5, <2>6
<1>16. CASE Server
  BY <1>7, <1>8, <1>9, <1>16 DEF Server
<1>17. CASE Message
  BY <1>8, <1>10, <1>11, <1>12, <1>15, <1>17
     DEF Message, ResetPasswordRequest, ChangePasswordRequest
<1>18. CASE Passing
  BY <1>8, <1>13, <1>14, <1>18 DEF Passing
<1>19. CASE UNCHANGED vars
  BY <1>8, <1>19 DEF vars
<1> QED  BY <1>9, <1>16, <1>17, <1>18, <1>19 DEF Next
-----------------------------------------------------------------------------
\* The inductive invariant.
IInv == ListInv /\ TokenInv /\ OwnerInv

LEMMA Invariance == Spec => []IInv
<1>1. Init => IInv
  <2> SUFFICES ASSUME Init PROVE IInv
    OBVIOUS
  <2>1. TokenInv
    BY TokenInit DEF Init
  <2>2. OwnerInv
    BY DEF Init, OwnerInv, OwnersAdmitted
  <2> QED  BY <2>1, <2>2, ListInit DEF IInv
<1>2. IInv /\ [Next]_vars => IInv'
  <2> SUFFICES ASSUME ListInv, TokenInv, OwnerInv, [Next]_vars
               PROVE  ListInv' /\ TokenInv' /\ OwnerInv'
    BY DEF IInv
  <2> QED  BY ListStep, TokenStep, OwnerStep
<1> QED  BY <1>1, <1>2, PTL DEF Spec

(* Every variable of the accounts, the connections' owners and the tokens  *)
(* keeps its type: no list outgrows MAX_DEVSIZE, no count leaves a char,   *)
(* no account has more timers than the bound.                              *)
THEOREM TypeCorrect == Spec => []TypeOK
<1>1. IInv => TypeOK
  BY DEF IInv, ListInv, AccountTypes, TokenInv, TfaTypeOK, OwnerInv, TypeOK
<1> QED  BY <1>1, Invariance, PTL

(* No two accounts share their contact ID or email, in memory or in        *)
(* data.dat, through registrations, stops, restarts and torn files, but    *)
(* for fields left empty (AccessControlServer.cpp 154, filemanager.cpp 75). *)
THEOREM AccountsStayDistinct == Spec => []AccountsDistinct
<1>1. IInv => AccountsDistinct
  BY DEF IInv, ListInv, Distinct, AccountsDistinct
<1> QED  BY <1>1, Invariance, PTL

(* What a user was told is in data.dat, and in the server's list while it  *)
(* runs, until data.dat is not read or not written, its writing is cut     *)
(* short, or a list that was never read is stored                          *)
(* (AccessControlServer.cpp 276 and 1041-1048, filemanager.cpp 75-122).    *)
THEOREM PromisesAreKept == Spec => []FileKeepsPromises
<1>1. IInv => FileKeepsPromises
  BY DEF IInv, ListInv
<1> QED  BY <1>1, Invariance, PTL

(* A login count beyond the limit has a timer that will reset it, however  *)
(* many attempts and timers overlap (AccessControlServer.cpp 553, 666).    *)
THEOREM RestrictionsEnd == Spec => []RestrictionIsWatched
<1>1. IInv => RestrictionIsWatched
  BY DEF IInv, ListInv, Watched, RestrictionIsWatched
<1> QED  BY <1>1, Invariance, PTL

(* A user's tokens are accepted in the order they were mailed, each once   *)
(* (TwoFactorAuth.cpp 50).                                                 *)
THEOREM TokensInOrder == Spec => []TokensOnceInOrder
<1>1. IInv => TokensOnceInOrder
  BY DEF IInv, TokenInv
<1> QED  BY <1>1, Invariance, PTL

(* A connection belongs to a user only after a token mailed to that user's *)
(* address was entered over it, and that token was entered over no other,  *)
(* for any users and connections (AccessControlServer.cpp 695-735).        *)
THEOREM OwnersWereAdmitted == Spec => []OwnersAdmitted
<1>1. IInv => OwnersAdmitted
  BY DEF IInv, OwnerInv
<1> QED  BY <1>1, Invariance, PTL
=============================================================================
