------------------------ MODULE SessionTokensProofs -------------------------
(***************************************************************************)
(* What the statements on the table of refresh tokens do to its sessions,  *)
(* for every table.                                                        *)
(***************************************************************************)
EXTENDS SessionTokens, TLAPS

(***************************************************************************)
(* A session has at most one token that works, and its number is that of a *)
(* row, so the next row can begin a session of its own.                    *)
(***************************************************************************)
Sound(t) ==
  /\ t \in Seq(Row)
  /\ \A i \in DOMAIN t : t[i].session <= Len(t)
  /\ \A i, j \in DOMAIN t :
       ~ t[i].revoked /\ ~ t[j].revoked /\ t[i].session = t[j].session => i = j

TokenInv == Sound(tokens)

Begun(t) == {t[i].session : i \in DOMAIN t}
Working(t) == {t[i].session : i \in {j \in DOMAIN t : ~ t[j].revoked}}

\* In such a table a session is open as soon as one of its tokens works.
LEMMA OpenMeansWorking ==
  ASSUME NEW t, Sound(t)
  PROVE  LET rows(s) == {i \in DOMAIN t : t[i].session = s}
             live(s) == {i \in rows(s) : ~ t[i].revoked} IN
         /\ {s \in DOMAIN t : \E i \in live(s) : live(s) = {i}} = Working(t)
         /\ {s \in DOMAIN t : rows(s) # {} /\ live(s) = {}} = Begun(t) \ Working(t)
<1> DEFINE rows(s) == {i \in DOMAIN t : t[i].session = s}
           live(s) == {i \in rows(s) : ~ t[i].revoked}
<1>1. \A i \in DOMAIN t : t[i].session \in DOMAIN t
  <2>1. DOMAIN t = 1 .. Len(t) /\ Len(t) \in Nat
    BY DEF Sound
  <2>2. ASSUME NEW i \in DOMAIN t PROVE t[i].session \in Nat \ {0} /\ t[i].session <= Len(t)
    <3>1. t[i] \in Row
      BY <2>1 DEF Sound
    <3> QED
      BY <3>1 DEF Sound, Row
  <2> QED
    BY <2>1, <2>2
<1>2. ASSUME NEW i \in DOMAIN t, ~ t[i].revoked PROVE live(t[i].session) = {i}
  BY <1>2 DEF Sound
<1>3. {s \in DOMAIN t : \E i \in live(s) : live(s) = {i}} = Working(t)
  <2>1. ASSUME NEW s, NEW i \in live(s), live(s) = {i} PROVE s \in Working(t)
    BY <2>1 DEF Working
  <2>2. ASSUME NEW i \in DOMAIN t, ~ t[i].revoked
        PROVE  \E j \in live(t[i].session) : live(t[i].session) = {j}
    BY <1>2, <2>2
  <2> QED
    BY <1>1, <2>1, <2>2 DEF Working
<1>4. {s \in DOMAIN t : rows(s) # {} /\ live(s) = {}} = Begun(t) \ Working(t)
  BY <1>1 DEF Begun, Working
<1> QED
  BY <1>3, <1>4

LEMMA TheSessions ==
  /\ TokenInv => OpenSessions = Working(tokens) /\ EndedSessions = Begun(tokens) \ Working(tokens)
  /\ TokenInv' => /\ OpenSessions' = Working(tokens')
                  /\ EndedSessions' = Begun(tokens') \ Working(tokens')
BY OpenMeansWorking DEF TokenInv, OpenSessions, EndedSessions, LiveOf, RowsOf, Live

\* generateTokens: a session begins, with the number of its row.
LEMMA IssuedBegins ==
  ASSUME TokenInv, NEW u \in User, NEW cred \in Nat, NEW late \in BOOLEAN,
         NEW by \in User \cup {Nobody}, tokens' = Issued(u, cred, late, by)
  PROVE  /\ TokenInv'
         /\ OpenSessions' = OpenSessions \cup {Len(tokens) + 1}
         /\ EndedSessions' = EndedSessions
         /\ Len(tokens) + 1 \notin OpenSessions \cup EndedSessions
         /\ Len(tokens') = Len(tokens) + 1
         /\ tokens'[Len(tokens')].user = u /\ tokens'[Len(tokens')].session = Len(tokens) + 1
         /\ \A i \in DOMAIN tokens : tokens'[i] = tokens[i]
<1> DEFINE n == Len(tokens) + 1
           row == [user |-> u, session |-> n, revoked |-> FALSE, cred |-> cred,
                   late |-> late, by |-> by]
<1>1. Len(tokens) \in Nat /\ DOMAIN tokens = 1 .. Len(tokens)
  BY DEF TokenInv, Sound
<1>2. row \in Row /\ row.session = n /\ row.user = u /\ ~ row.revoked
  BY <1>1 DEF Row
<1>3. /\ tokens' \in Seq(Row) /\ Len(tokens') = n /\ DOMAIN tokens' = DOMAIN tokens \cup {n}
      /\ \A i \in DOMAIN tokens : tokens'[i] = tokens[i]
      /\ tokens'[n] = row
  BY <1>1, <1>2 DEF TokenInv, Sound, Issued
<1> HIDE DEF row
<1>4. \A i \in DOMAIN tokens : i # n /\ tokens[i].session \in Nat /\ tokens[i].session < n
  <2>1. ASSUME NEW i \in DOMAIN tokens PROVE tokens[i] \in Row
    BY <1>1 DEF TokenInv, Sound
  <2>2. ASSUME NEW i \in DOMAIN tokens
        PROVE  tokens[i].session \in Nat /\ tokens[i].session <= Len(tokens)
    BY <2>1 DEF TokenInv, Sound, Row
  <2> QED
    BY <1>1, <2>2
<1>5. TokenInv'
  <2>1. \A i \in DOMAIN tokens' : tokens'[i].session <= n
    <3>1. \A i \in DOMAIN tokens : tokens'[i].session \in Nat /\ tokens'[i].session < n
      BY <1>3, <1>4
    <3>2. tokens'[n].session = n /\ n \in Nat
      BY <1>1, <1>2, <1>3
    <3> HIDE DEF n
    <3>3. \A i \in DOMAIN tokens' : tokens'[i].session = n
            \/ (tokens'[i].session \in Nat /\ tokens'[i].session < n)
      BY <1>3, <3>1, <3>2
    <3> QED
      BY <3>2, <3>3
  <2>2. \A i, j \in DOMAIN tokens' : tokens'[i].session = tokens'[j].session
          => (i \in DOMAIN tokens <=> j \in DOMAIN tokens)
    BY <1>2, <1>3, <1>4
  <2>3. \A i, j \in DOMAIN tokens' :
          ~ tokens'[i].revoked /\ ~ tokens'[j].revoked
            /\ tokens'[i].session = tokens'[j].session => i = j
    BY <1>3, <2>2 DEF TokenInv, Sound
  <2> QED
    BY <1>3, <2>1, <2>3 DEF TokenInv, Sound
<1>6. Working(tokens') = Working(tokens) \cup {n} /\ Begun(tokens') = Begun(tokens) \cup {n}
  <2> HIDE DEF n
  <2>1. {j \in DOMAIN tokens' : ~ tokens'[j].revoked}
          = {j \in DOMAIN tokens : ~ tokens[j].revoked} \cup {n}
    BY <1>2, <1>3, <1>4
  <2> QED
    BY <1>2, <1>3, <1>4, <2>1 DEF Working, Begun
<1>7. n \notin Begun(tokens) /\ Working(tokens) \subseteq Begun(tokens)
  BY <1>4 DEF Begun, Working
<1>8. tokens'[Len(tokens')].user = u /\ tokens'[Len(tokens')].session = n
  BY <1>2, <1>3
<1>9. /\ OpenSessions' = OpenSessions \cup {n} /\ EndedSessions' = EndedSessions
      /\ n \notin OpenSessions \cup EndedSessions
  BY <1>5, <1>6, <1>7, TheSessions
<1> QED
  BY <1>3, <1>5, <1>8, <1>9

\* POST /refresh: no session begins, and none ends.
LEMMA RotatedKeeps ==
  ASSUME TokenInv, NEW i \in DOMAIN tokens, tokens' = Rotated(i)
  PROVE  /\ TokenInv'
         /\ OpenSessions' = OpenSessions
         /\ EndedSessions' = EndedSessions
         /\ Len(tokens') \in {Len(tokens), Len(tokens) + 1}
         /\ Live(i) => Len(tokens') = Len(tokens) + 1
                       /\ tokens'[Len(tokens')].session = tokens[i].session
                       /\ tokens'[Len(tokens')].user = tokens[i].user
         /\ \A j \in DOMAIN tokens : /\ j \in DOMAIN tokens'
                                     /\ tokens'[j].session = tokens[j].session
                                     /\ tokens'[j].user = tokens[j].user
                                     /\ tokens[j].revoked => tokens'[j].revoked
<1> DEFINE n == Len(tokens) + 1
           spent == [tokens EXCEPT ![i].revoked = TRUE]
<1>1. Len(tokens) \in Nat /\ DOMAIN tokens = 1 .. Len(tokens)
  BY DEF TokenInv, Sound
<1>2. \A j \in DOMAIN tokens : /\ tokens[j] \in Row
                               /\ tokens[j].session \in Nat /\ tokens[j].session <= Len(tokens)
  <2>1. ASSUME NEW j \in DOMAIN tokens PROVE tokens[j] \in Row
    BY <1>1 DEF TokenInv, Sound
  <2> QED
    BY <2>1 DEF TokenInv, Sound, Row
<1>3. CASE ~ Live(i)
  <2>1. tokens' = tokens
    BY <1>3 DEF Rotated
  <2>2. TokenInv'
    BY <2>1 DEF TokenInv
  <2>3. OpenSessions' = OpenSessions /\ EndedSessions' = EndedSessions
    BY <2>1, <2>2, TheSessions
  <2> QED
    BY <1>3, <2>1, <2>2, <2>3
<1>4. CASE Live(i)
  <2>1. /\ spent \in Seq(Row) /\ Len(spent) = Len(tokens) /\ DOMAIN spent = DOMAIN tokens
        /\ \A j \in DOMAIN tokens : j # i => spent[j] = tokens[j]
        /\ spent[i].session = tokens[i].session /\ spent[i].user = tokens[i].user
        /\ spent[i].revoked
    <3>1. [tokens[i] EXCEPT !.revoked = TRUE] \in Row
      BY <1>2 DEF Row
    <3> QED
      BY <1>1, <1>2, <3>1 DEF TokenInv, Sound, Row
  <2> HIDE DEF spent
  <2>2. tokens' = Append(spent, tokens[i])
    BY <1>4 DEF Rotated, spent
  <2>3. /\ tokens' \in Seq(Row) /\ Len(tokens') = n /\ DOMAIN tokens' = DOMAIN tokens \cup {n}
        /\ \A j \in DOMAIN tokens : tokens'[j] = spent[j]
        /\ tokens'[n] = tokens[i]
    BY <1>1, <1>2, <2>1, <2>2
  <2>4. n \notin DOMAIN tokens /\ n \in Nat /\ Len(tokens) < n
    BY <1>1
  <2> HIDE DEF n
  <2>5. \A j \in DOMAIN tokens : tokens'[j].session = tokens[j].session
                                 /\ tokens'[j].user = tokens[j].user
    BY <2>1, <2>3
  <2>6. \A j \in DOMAIN tokens' : tokens'[j].session <= n
    BY <1>1, <1>2, <2>3, <2>4, <2>5
  <2>7. /\ \A j \in DOMAIN tokens : ~ tokens'[j].revoked <=> j # i /\ ~ tokens[j].revoked
        /\ ~ tokens'[n].revoked
    BY <1>4, <2>1, <2>3 DEF Live
  <2>8. \A j, k \in DOMAIN tokens' :
          ~ tokens'[j].revoked /\ ~ tokens'[k].revoked
            /\ tokens'[j].session = tokens'[k].session => j = k
    BY <1>4, <2>3, <2>5, <2>7 DEF TokenInv, Sound, Live
  <2>9. TokenInv'
    BY <2>3, <2>6, <2>8 DEF TokenInv, Sound
  <2>10. Begun(tokens') = Begun(tokens)
    BY <2>3, <2>5 DEF Begun
  <2>11. Working(tokens') = Working(tokens)
    <3>1. {j \in DOMAIN tokens' : ~ tokens'[j].revoked}
            = ({j \in DOMAIN tokens : ~ tokens[j].revoked} \ {i}) \cup {n}
      BY <2>3, <2>4, <2>7
    <3>2. i \in {j \in DOMAIN tokens : ~ tokens[j].revoked}
      BY <1>4 DEF Live
    <3> QED
      BY <2>3, <2>5, <3>1, <3>2 DEF Working
  <2> QED
    BY <2>3, <2>5, <2>7, <2>9, <2>10, <2>11, TheSessions DEF n
<1> QED
  BY <1>3, <1>4

\* updateMany for one user: his sessions end, and no other.
LEMMA RevokedAllEnds ==
  ASSUME TokenInv, NEW u, tokens' = RevokedAll(u)
  PROVE  /\ TokenInv'
         /\ OpenSessions' \subseteq OpenSessions
         /\ EndedSessions' = EndedSessions \cup (OpenSessions \ OpenSessions')
         /\ Len(tokens') = Len(tokens)
         /\ \A i \in DOMAIN tokens : /\ tokens'[i].session = tokens[i].session
                                     /\ tokens'[i].user = tokens[i].user
                                     /\ tokens[i].user = u => tokens'[i].revoked
<1>1. Len(tokens) \in Nat /\ DOMAIN tokens = 1 .. Len(tokens)
  BY DEF TokenInv, Sound
<1>2. ASSUME NEW i \in DOMAIN tokens
      PROVE  /\ tokens'[i] \in Row
             /\ tokens'[i].session = tokens[i].session
             /\ tokens'[i].user = tokens[i].user
             /\ ~ tokens'[i].revoked => ~ tokens[i].revoked
             /\ tokens[i].user = u => tokens'[i].revoked
  <2>1. tokens[i] \in Row
    BY <1>1 DEF TokenInv, Sound
  <2>2. tokens'[i] = IF tokens[i].user = u THEN [tokens[i] EXCEPT !.revoked = TRUE] ELSE tokens[i]
    BY DEF RevokedAll
  <2> QED
    BY <2>1, <2>2 DEF Row
<1>3. DOMAIN tokens' = DOMAIN tokens /\ tokens' \in Seq(Row) /\ Len(tokens') = Len(tokens)
  BY <1>1, <1>2 DEF RevokedAll
<1>4. TokenInv'
  BY <1>2, <1>3 DEF TokenInv, Sound
<1>5. Begun(tokens') = Begun(tokens) /\ Working(tokens') \subseteq Working(tokens)
      /\ Working(tokens) \subseteq Begun(tokens)
  BY <1>2, <1>3 DEF Begun, Working
<1> QED
  BY <1>2, <1>3, <1>4, <1>5, TheSessions
=============================================================================
