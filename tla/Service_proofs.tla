---------------------------- MODULE Service_proofs ----------------------------
(***************************************************************************)
(* Theorems about Service and the Logger it composes, for any number of    *)
(* connections, sizes of requests and buffers, length of the list of       *)
(* recent lines and number of failures.                                    *)
(***************************************************************************)
EXTENDS Service, SequenceTheorems, TLAPS

-----------------------------------------------------------------------------
(***************************************************************************)
(* The inductive invariant                                                 *)
(***************************************************************************)

Connection == [at : ConnState, raw : Nat]
Client == [declares : Lengths \cup {0}, sent : Nat, gone : BOOLEAN]

ServerInv ==
  /\ pcMain \in MainPc
  /\ pcAccept \in AcceptPc
  /\ running \in BOOLEAN
  /\ socket \in {"open", "closed", "cleared"}
  /\ killed \in BOOLEAN
  /\ faults \in 0 .. MaxFaults

\* The accept thread that took a connection late looks at running_ next, and ends.
AcceptInv ==
  /\ pcMain \in {"initialize", "listen"} => pcAccept = "off"
  /\ \/ late = 0
     \/ late = 1 /\ ~running /\ pcAccept \in {"check", "exited"}

\* A connection that goes on receiving is below the limit, so that one more piece
\* exceeds it by less than the buffer.
ConnInv(c) ==
  LET x == conn[c] IN
  /\ x \in Connection
  /\ wire[c] \in Client
  /\ x.raw <= MaxRequest + BufferSize - 1
  /\ x.at \in {"none", "queued"} => x.raw = 0
  /\ x.at = "receive" => x.raw < MaxRequest
  /\ x.at = "handle" => x.raw >= HeaderSize
  /\ x.at = "handle" /\ x.raw < MaxRequest => x.raw >= Expected(c)

TablesInv ==
  /\ conn \in [Clients -> Connection]
  /\ wire \in [Clients -> Client]

ConnsInv ==
  /\ DOMAIN conn = Clients /\ DOMAIN wire = Clients
  /\ \A c \in Clients : ConnInv(c)

\* The lines logged since the last clear.
Since == SubSeq(written, cleared + 1, Len(written))

LogInv ==
  /\ Log!LogTypeOK
  /\ Log!FileIsPrefix
  /\ recent = Log!Newest(Since, MaxRecent)

IInv == ServerInv /\ AcceptInv /\ TablesInv /\ ConnsInv /\ LogInv

-----------------------------------------------------------------------------
(***************************************************************************)
(* The newest lines of a sequence                                          *)
(***************************************************************************)

LEMMA NewestIs ==
  ASSUME NEW S, NEW s \in Seq(S), NEW n \in Nat
  PROVE  LET t == Log!Newest(s, n) IN
         /\ t \in Seq(S)
         /\ Len(t) = IF Len(s) > n THEN n ELSE Len(s)
         /\ \A i \in 1 .. Len(t) : t[i] = s[Len(s) - Len(t) + i]
<1> DEFINE m == IF Len(s) > n THEN Len(s) - n + 1 ELSE 1
<1>1. Len(s) \in Nat /\ m \in Nat /\ m >= 1 /\ \A i \in m .. Len(s) : s[i] \in S
  BY LenProperties, ElementOfSeq
<1>2. Log!Newest(s, n) = SubSeq(s, m, Len(s))
  BY DEF Log!Newest
<1>3. /\ SubSeq(s, m, Len(s)) \in Seq(S)
      /\ Len(SubSeq(s, m, Len(s))) = IF m <= Len(s) THEN Len(s) - m + 1 ELSE 0
      /\ \A i \in 1 .. Len(s) - m + 1 : SubSeq(s, m, Len(s))[i] = s[m + i - 1]
  BY <1>1, SubSeqProperties
<1> DEFINE t == Log!Newest(s, n)
           l == Len(t)
<1>4. /\ t \in Seq(S) /\ l = (IF m <= Len(s) THEN Len(s) - m + 1 ELSE 0)
      /\ \A i \in 1 .. Len(s) - m + 1 : t[i] = s[m + i - 1]
  BY <1>2, <1>3
<1> HIDE DEF t, l
<1>5. l = Len(s) - m + 1 /\ l = IF Len(s) > n THEN n ELSE Len(s)
  <2>1. Len(s) \in Nat /\ l = IF m <= Len(s) THEN Len(s) - m + 1 ELSE 0
    BY <1>1, <1>4
  <2>2. CASE Len(s) > n
    <3>1. m = Len(s) - n + 1 /\ m \in Nat
      BY <2>1, <2>2
    <3> HIDE DEF m
    <3> QED
      BY <2>1, <2>2, <3>1
  <2>3. CASE ~(Len(s) > n)
    BY <2>1, <2>3
  <2> QED
    BY <2>2, <2>3
<1>6. \A i \in 1 .. l : i \in 1 .. Len(s) - m + 1 /\ m + i - 1 = Len(s) - l + i
  BY <1>1, <1>5
<1>7. \A i \in 1 .. l : t[i] = s[Len(s) - l + i]
  BY <1>4, <1>6
<1> QED
  BY <1>4, <1>5, <1>7 DEF t, l

\* The newest of the newest are the newest.
LEMMA NewestOfNewest ==
  ASSUME NEW S, NEW s \in Seq(S), NEW n \in Nat, NEW k \in 0 .. n
  PROVE  Log!Newest(Log!Newest(s, n), k) = Log!Newest(s, k)
<1> DEFINE t == Log!Newest(s, n)
           u == Log!Newest(t, k)
           v == Log!Newest(s, k)
<1>1. k \in Nat /\ k <= n /\ Len(s) \in Nat
  BY LenProperties
<1>2. /\ t \in Seq(S) /\ Len(t) = (IF Len(s) > n THEN n ELSE Len(s))
      /\ \A i \in 1 .. Len(t) : t[i] = s[Len(s) - Len(t) + i]
  BY NewestIs
<1>3. /\ v \in Seq(S) /\ Len(v) = (IF Len(s) > k THEN k ELSE Len(s))
      /\ \A i \in 1 .. Len(v) : v[i] = s[Len(s) - Len(v) + i]
  BY <1>1, NewestIs
<1> HIDE DEF t, v
<1>4. /\ u \in Seq(S) /\ Len(u) = (IF Len(t) > k THEN k ELSE Len(t))
      /\ \A i \in 1 .. Len(u) : u[i] = t[Len(t) - Len(u) + i]
  BY <1>1, <1>2, NewestIs
<1> HIDE DEF u
<1>5. Len(u) = Len(v) /\ Len(u) <= Len(t) /\ Len(u) \in Nat /\ Len(t) \in Nat
  BY <1>1, <1>2, <1>3, <1>4
<1>6. ASSUME NEW i \in 1 .. Len(u) PROVE u[i] = v[i]
  <2>1. Len(t) - Len(u) + i \in 1 .. Len(t)
    BY <1>5
  <2>2. u[i] = s[Len(s) - Len(t) + (Len(t) - Len(u) + i)]
    BY <1>2, <1>4, <2>1
  <2>3. Len(s) - Len(t) + (Len(t) - Len(u) + i) = Len(s) - Len(v) + i
    BY <1>1, <1>5
  <2> QED
    BY <1>3, <1>5, <2>2, <2>3
<1> QED
  BY <1>3, <1>4, <1>5, <1>6, SeqEqual DEF t, u, v

\* A line that is logged when the list is cut to size does not bring back others.
LEMMA NewestAppend ==
  ASSUME NEW S, NEW s \in Seq(S), NEW m \in S, NEW n \in Nat
  PROVE  Log!Newest(Append(Log!Newest(s, n), m), n) = Log!Newest(Append(s, m), n)
<1> DEFINE t == Log!Newest(s, n)
           a == Append(t, m)
           b == Append(s, m)
           u == Log!Newest(a, n)
           v == Log!Newest(b, n)
<1>1. Len(s) \in Nat
  BY LenProperties
<1>2. /\ t \in Seq(S) /\ Len(t) = (IF Len(s) > n THEN n ELSE Len(s))
      /\ \A i \in 1 .. Len(t) : t[i] = s[Len(s) - Len(t) + i]
  BY NewestIs
<1> HIDE DEF t
<1>3. /\ a \in Seq(S) /\ Len(a) = Len(t) + 1 /\ a[Len(t) + 1] = m
      /\ \A i \in 1 .. Len(t) : a[i] = t[i]
  BY <1>2, AppendProperties
<1>4. /\ b \in Seq(S) /\ Len(b) = Len(s) + 1 /\ b[Len(s) + 1] = m
      /\ \A i \in 1 .. Len(s) : b[i] = s[i]
  BY AppendProperties
<1> HIDE DEF a, b
<1>5. /\ u \in Seq(S) /\ Len(u) = (IF Len(a) > n THEN n ELSE Len(a))
      /\ \A i \in 1 .. Len(u) : u[i] = a[Len(a) - Len(u) + i]
  BY <1>3, NewestIs
<1>6. /\ v \in Seq(S) /\ Len(v) = (IF Len(b) > n THEN n ELSE Len(b))
      /\ \A i \in 1 .. Len(v) : v[i] = b[Len(b) - Len(v) + i]
  BY <1>4, NewestIs
<1> HIDE DEF u, v
<1>7. Len(u) = Len(v) /\ Len(u) \in Nat /\ Len(u) <= Len(t) + 1 /\ Len(t) \in Nat /\ Len(t) <= Len(s)
  BY <1>1, <1>2, <1>3, <1>4, <1>5, <1>6
<1>8. ASSUME NEW i \in 1 .. Len(u) PROVE u[i] = v[i]
  <2> DEFINE j == Len(t) + 1 - Len(u) + i
             k == Len(s) + 1 - Len(v) + i
  <2>1. /\ u[i] = a[j] /\ v[i] = b[k] /\ j \in 1 .. Len(t) + 1 /\ k \in 1 .. Len(s) + 1
        /\ k = Len(s) - Len(t) + j
    <3>1. Len(a) = Len(t) + 1 /\ Len(b) = Len(s) + 1 /\ i \in 1 .. Len(v)
      BY <1>3, <1>4, <1>7
    <3>2. j = Len(a) - Len(u) + i /\ k = Len(b) - Len(v) + i
      BY <3>1
    <3> HIDE DEF j, k
    <3>3. u[i] = a[j] /\ v[i] = b[k]
      BY <1>5, <1>6, <3>1, <3>2
    <3> USE DEF j, k
    <3> QED
      BY <1>1, <1>7, <3>3
  <2> HIDE DEF j, k
  <2>2. CASE j = Len(t) + 1
    <3>1. k = Len(s) + 1
      BY <1>1, <1>7, <2>1, <2>2
    <3> QED
      BY <1>3, <1>4, <2>1, <2>2, <3>1
  <2>3. CASE j # Len(t) + 1
    <3>1. j \in 1 .. Len(t) /\ k \in 1 .. Len(s)
      BY <1>1, <1>7, <2>1, <2>3
    <3>2. a[j] = s[k] /\ b[k] = s[k]
      BY <1>2, <1>3, <1>4, <2>1, <3>1
    <3> QED
      BY <2>1, <3>2
  <2> QED
    BY <2>2, <2>3
<1> QED
  BY <1>5, <1>6, <1>7, <1>8, SeqEqual DEF a, b, t, u, v

\* What a line that is logged adds to a part of the log.
LEMMA PartOfAppend ==
  ASSUME NEW S, NEW w \in Seq(S), NEW m \in S, NEW c \in 0 .. Len(w)
  PROVE  /\ SubSeq(w, c + 1, Len(w)) \in Seq(S)
         /\ SubSeq(Append(w, m), c + 1, Len(w) + 1) = Append(SubSeq(w, c + 1, Len(w)), m)
         /\ SubSeq(Append(w, m), 1, c) = SubSeq(w, 1, c)
<1> DEFINE x == Append(w, m)
<1>1. Len(w) \in Nat /\ c \in Nat /\ \A i \in 1 .. Len(w) : w[i] \in S
  BY LenProperties, ElementOfSeq
<1>2. /\ x \in Seq(S) /\ Len(x) = Len(w) + 1 /\ x[Len(w) + 1] = m
      /\ \A i \in 1 .. Len(w) : x[i] = w[i]
  BY AppendProperties
<1>3. \A i \in 1 .. Len(w) + 1 : x[i] \in S
  BY <1>1, <1>2
<1> HIDE DEF x
<1> DEFINE p == SubSeq(w, c + 1, Len(w))
           q == SubSeq(x, c + 1, Len(w) + 1)
<1>4. /\ p \in Seq(S) /\ Len(p) = Len(w) - c
      /\ \A i \in 1 .. Len(w) - c : p[i] = w[c + i]
  <2>1. \A i \in c + 1 .. Len(w) : w[i] \in S
    BY <1>1
  <2>2. /\ p \in Seq(S) /\ Len(p) = (IF c + 1 <= Len(w) THEN Len(w) - (c + 1) + 1 ELSE 0)
        /\ \A i \in 1 .. Len(w) - (c + 1) + 1 : p[i] = w[c + 1 + i - 1]
    BY <1>1, <2>1, SubSeqProperties
  <2> HIDE DEF p
  <2> QED
    BY <1>1, <2>2
<1>5. /\ q \in Seq(S) /\ Len(q) = Len(w) - c + 1
      /\ \A i \in 1 .. Len(w) - c + 1 : q[i] = x[c + i]
  <2>1. \A i \in c + 1 .. Len(w) + 1 : x[i] \in S
    BY <1>1, <1>3
  <2>2. /\ q \in Seq(S) /\ Len(q) = (IF c + 1 <= Len(w) + 1 THEN Len(w) + 1 - (c + 1) + 1 ELSE 0)
        /\ \A i \in 1 .. Len(w) + 1 - (c + 1) + 1 : q[i] = x[c + 1 + i - 1]
    BY <1>1, <2>1, SubSeqProperties
  <2> HIDE DEF q
  <2> QED
    BY <1>1, <2>2
<1> HIDE DEF p, q
<1>6. /\ Append(p, m) \in Seq(S) /\ Len(Append(p, m)) = Len(w) - c + 1
      /\ Append(p, m)[Len(w) - c + 1] = m
      /\ \A i \in 1 .. Len(w) - c : Append(p, m)[i] = w[c + i]
  BY <1>4, AppendProperties
<1>7. q = Append(p, m)
  <2>1. \A i \in 1 .. Len(q) : q[i] = Append(p, m)[i]
    <3> SUFFICES ASSUME NEW i \in 1 .. Len(q) PROVE q[i] = Append(p, m)[i]
      OBVIOUS
    <3>1. CASE i = Len(w) - c + 1
      BY <1>1, <1>2, <1>5, <1>6, <3>1
    <3>2. CASE i # Len(w) - c + 1
      <4>1. Len(w) \in Nat /\ c \in Nat /\ i \in 1 .. Len(w) - c + 1
        BY <1>1, <1>5
      <4>2. i \in 1 .. Len(w) - c /\ c + i \in 1 .. Len(w) /\ i \in 1 .. Len(w) - c + 1
        BY <4>1, <3>2
      <4> QED
        BY <1>2, <1>5, <1>6, <4>2
    <3> QED
      BY <3>1, <3>2
  <2> QED
    BY <1>5, <1>6, <2>1, SeqEqual
<1>8. SubSeq(x, 1, c) = SubSeq(w, 1, c)
  <2>1. /\ SubSeq(x, 1, c) \in Seq(S) /\ Len(SubSeq(x, 1, c)) = c
        /\ \A i \in 1 .. c : SubSeq(x, 1, c)[i] = x[i]
    BY <1>1, <1>3, SubSeqProperties
  <2>2. /\ SubSeq(w, 1, c) \in Seq(S) /\ Len(SubSeq(w, 1, c)) = c
        /\ \A i \in 1 .. c : SubSeq(w, 1, c)[i] = w[i]
    BY <1>1, SubSeqProperties
  <2>3. \A i \in 1 .. c : x[i] = w[i]
    BY <1>1, <1>2
  <2> QED
    BY <2>1, <2>2, <2>3, SeqEqual
<1> QED
  BY <1>4, <1>7, <1>8 DEF p, q, x

-----------------------------------------------------------------------------
(***************************************************************************)
(* The logger                                                              *)
(***************************************************************************)

LEMMA NothingNew == Log!Newest(<<>>, MaxRecent) = <<>>
<1>1. Len(<<>>) = 0 /\ ~(0 > MaxRecent)
  BY SizesAssumption, EmptySeq
<1>2. Log!Newest(<<>>, MaxRecent) = SubSeq(<<>>, 1, 0)
  BY <1>1 DEF Log!Newest
<1> QED
  BY <1>2, SubSeqEmpty

LEMMA LogFrame ==
  ASSUME LogInv, UNCHANGED logger
  PROVE  LogInv'
BY DEF LogInv, logger, Since, Log!LogTypeOK, Log!FileIsPrefix, Log!Newest

LEMMA LogMessageKeeps ==
  ASSUME LogInv, NEW m \in Messages, Log!LogMessage(m)
  PROVE  LogInv'
<1>1. /\ written' = Append(written, m) /\ cleared' = cleared /\ fileOpen' = fileOpen
      /\ file' = (IF fileOpen THEN Append(file, m) ELSE file)
      /\ recent' = Log!Newest(Append(recent, m), MaxRecent)
  BY DEF Log!LogMessage
<1>2. /\ fileOpen \in BOOLEAN /\ file \in Seq(Messages) /\ recent \in Seq(Messages)
      /\ written \in Seq(Messages) /\ cleared \in 0 .. Len(written)
      /\ Len(file) <= Len(written) /\ file = SubSeq(written, 1, Len(file))
      /\ fileOpen => file = written
      /\ recent = Log!Newest(Since, MaxRecent)
  BY DEF LogInv, Log!LogTypeOK, Log!FileIsPrefix
<1>3. MaxRecent \in Nat /\ Len(file) \in Nat /\ Len(written) \in Nat
  BY <1>2, SizesAssumption, LenProperties
<1>4. /\ written' \in Seq(Messages) /\ Len(written') = Len(written) + 1
      /\ Append(recent, m) \in Seq(Messages)
  BY <1>1, <1>2, AppendProperties
<1>5. Since \in Seq(Messages) /\ Since' = Append(Since, m)
  <2>1. /\ SubSeq(written, cleared + 1, Len(written)) \in Seq(Messages)
        /\ SubSeq(Append(written, m), cleared + 1, Len(written) + 1)
             = Append(SubSeq(written, cleared + 1, Len(written)), m)
    BY <1>2, PartOfAppend
  <2>2. Since' = SubSeq(Append(written, m), cleared + 1, Len(written) + 1)
    BY <1>1, <1>4 DEF Since
  <2> QED
    BY <2>1, <2>2 DEF Since
<1>6. recent' = Log!Newest(Since', MaxRecent)
  BY <1>1, <1>2, <1>3, <1>5, NewestAppend
<1>7. recent' \in Seq(Messages) /\ Len(recent') <= MaxRecent
  <2>1. LET t == Log!Newest(Append(recent, m), MaxRecent)
            a == Append(recent, m)
        IN  t \in Seq(Messages) /\ Len(t) = IF Len(a) > MaxRecent THEN MaxRecent ELSE Len(a)
    BY <1>3, <1>4, NewestIs
  <2>2. Len(Append(recent, m)) \in Nat
    BY <1>4, LenProperties
  <2> QED
    BY <1>1, <1>3, <2>1, <2>2
<1>8. /\ file' \in Seq(Messages) /\ Len(file') <= Len(written')
      /\ file' = SubSeq(written', 1, Len(file')) /\ (fileOpen => file' = written')
  <2>1. CASE fileOpen
    <3>1. file' = written' /\ Len(file') = Len(written')
      BY <1>1, <1>2, <2>1
    <3>2. written' = SubSeq(written', 1, Len(written'))
      BY <1>4, SubSeqFull
    <3> QED
      BY <1>3, <1>4, <3>1, <3>2
  <2>2. CASE ~fileOpen
    <3>1. file' = file /\ Len(file) \in 0 .. Len(written)
      BY <1>1, <1>2, <1>3, <2>2
    <3>2. SubSeq(written', 1, Len(file)) = SubSeq(written, 1, Len(file))
      BY <1>1, <1>2, <3>1, PartOfAppend
    <3> QED
      BY <1>2, <1>3, <1>4, <2>2, <3>1, <3>2
  <2> QED
    BY <2>1, <2>2
<1>9. cleared' \in 0 .. Len(written')
  BY <1>1, <1>2, <1>3, <1>4
<1> QED
  BY <1>1, <1>2, <1>4, <1>6, <1>7, <1>8, <1>9 DEF LogInv, Log!LogTypeOK, Log!FileIsPrefix

LEMMA ClearKeeps ==
  ASSUME LogInv, Log!ClearRecentLogs
  PROVE  LogInv'
<1>1. /\ recent' = <<>> /\ cleared' = Len(written) /\ fileOpen' = fileOpen
      /\ file' = file /\ written' = written
  BY DEF Log!ClearRecentLogs
<1>2. Len(written) \in Nat /\ MaxRecent \in Nat
  BY SizesAssumption, LenProperties DEF LogInv, Log!LogTypeOK
<1>3. Since' = <<>>
  BY <1>1, <1>2, SubSeqEmpty DEF Since
<1>4. recent' \in Seq(Messages) /\ Len(recent') <= MaxRecent /\ cleared' \in 0 .. Len(written')
  BY <1>1, <1>2, EmptySeq
<1>5. recent' = Log!Newest(Since', MaxRecent)
  BY <1>1, <1>3, NothingNew
<1> QED
  BY <1>1, <1>4, <1>5 DEF LogInv, Log!LogTypeOK, Log!FileIsPrefix

LEMMA CloseKeeps ==
  ASSUME LogInv, Log!Close
  PROVE  LogInv'
<1>1. /\ fileOpen' = FALSE /\ file' = file /\ recent' = recent /\ written' = written
      /\ cleared' = cleared
  BY DEF Log!Close
<1>2. Since' = Since
  BY <1>1 DEF Since
<1> QED
  BY <1>1, <1>2 DEF LogInv, Log!LogTypeOK, Log!FileIsPrefix

LEMMA LogStarts ==
  ASSUME Log!LogInit
  PROVE  LogInv
<1>1. fileOpen = TRUE /\ file = <<>> /\ recent = <<>> /\ written = <<>> /\ cleared = 0
  BY DEF Log!LogInit
<1>2. <<>> \in Seq(Messages) /\ Len(<<>>) = 0
  BY EmptySeq
<1>3. SubSeq(<<>>, 1, 0) = <<>>
  BY SubSeqEmpty
<1>4. Since = <<>>
  BY <1>1, <1>2, <1>3 DEF Since
<1> QED
  BY <1>1, <1>2, <1>3, <1>4, NothingNew, SizesAssumption
     DEF LogInv, Log!LogTypeOK, Log!FileIsPrefix

-----------------------------------------------------------------------------
(***************************************************************************)
(* The steps                                                               *)
(***************************************************************************)

LEMMA InitEstablishes == Init => IInv
<1> SUFFICES ASSUME Init PROVE IInv
  OBVIOUS
<1> USE DEF Init
<1>1. ServerInv
  <2>1. faults \in 0 .. MaxFaults
    BY SizesAssumption
  <2>2. pcMain \in MainPc /\ pcAccept \in AcceptPc
    BY DEF MainPc, AcceptPc
  <2> QED
    BY <2>1, <2>2 DEF ServerInv
<1>2. AcceptInv
  BY DEF AcceptInv
<1>3. ConnsInv
  BY SizesAssumption DEF ConnsInv, ConnInv, Connection, Client, ConnState, Silent
<1>4. TablesInv
  BY <1>3 DEF ConnsInv, ConnInv, TablesInv
<1>5. LogInv
  BY LogStarts
<1> QED
  BY <1>1, <1>2, <1>3, <1>4, <1>5 DEF IInv

LEMMA LogIsKept ==
  ASSUME LogInv, [Next]_vars
  PROVE  LogInv'
<1>1. "main" \in Messages /\ "request" \in Messages
  BY DEF Messages
<1>2. CASE UNCHANGED logger
  BY <1>2, LogFrame
<1>3. CASE InitializeFails \/ ListenFails \/ StopRequested \/ ShutdownComplete
  BY <1>1, <1>3, LogMessageKeeps DEF InitializeFails, ListenFails, StopRequested, ShutdownComplete
<1>4. CASE ShutdownLogger
  BY <1>4, CloseKeeps DEF ShutdownLogger
<1>5. ASSUME NEW c \in Clients, Handle(c) \/ HandleNote(c) PROVE LogInv'
  BY <1>1, <1>5, LogMessageKeeps DEF Handle, HandleNote
<1>6. ASSUME NEW c \in Clients, HandleClear(c) PROVE LogInv'
  BY <1>6, ClearKeeps DEF HandleClear
<1>7. CASE UNCHANGED vars
  BY <1>2, <1>7 DEF vars
<1>8. CASE Initialize \/ Listen \/ StopServer \/ CloseSocket \/ ClearSocket \/ JoinAccept
             \/ ShutdownApp \/ Return
  BY <1>2, <1>8 DEF Initialize, Listen, StopServer, CloseSocket, ClearSocket, JoinAccept,
                    ShutdownApp, Return
<1>9. CASE AcceptStep \/ AcceptFails
  BY <1>2, <1>9 DEF AcceptStep, AcceptCheck, AcceptReadSocket, AcceptCall, AcceptRetry, Accept,
                    AcceptFails
<1>10. ASSUME NEW c \in Clients,
              Receive(c) \/ ReceiveEnds(c) \/ Respond(c) \/ RespondKilled(c) \/ Leave(c)
                \/ \E declares \in Lengths, body \in Bodies : Connect(c, declares, body)
       PROVE  LogInv'
  BY <1>2, <1>10 DEF Receive, ReceiveEnds, Respond, RespondKilled, Leave, Connect
<1> QED
  BY <1>3, <1>4, <1>5, <1>6, <1>7, <1>8, <1>9, <1>10 DEF Next, MainStep, ConnStep, Ended

LEMMA ServerIsKept ==
  ASSUME ServerInv, [Next]_vars
  PROVE  ServerInv'
<1> USE DEF ServerInv
<1>1. CASE UNCHANGED vars
  BY <1>1 DEF vars, server
<1>2. CASE Initialize \/ InitializeFails \/ ListenFails \/ StopRequested
  <2>1. pcMain' \in MainPc /\ faults' \in 0 .. MaxFaults
    BY <1>2, SizesAssumption DEF Initialize, InitializeFails, ListenFails, StopRequested, GotoMain,
                                 MainPc, Faulty
  <2> QED
    BY <1>2, <2>1 DEF Initialize, InitializeFails, ListenFails, StopRequested
<1>3. CASE Listen
  BY <1>3 DEF Listen, GotoMain, MainPc, AcceptPc
<1>4. CASE MainStep
  <2>1. pcMain' \in MainPc
    BY <1>4 DEF MainStep, StopServer, CloseSocket, ClearSocket, JoinAccept, ShutdownApp,
                ShutdownComplete, ShutdownLogger, Return, GotoMain, MainPc
  <2>2. /\ pcAccept' = pcAccept /\ killed' = killed /\ faults' = faults
        /\ running' \in BOOLEAN /\ socket' \in {"open", "closed", "cleared"}
    BY <1>4 DEF MainStep, StopServer, CloseSocket, ClearSocket, JoinAccept, ShutdownApp,
                ShutdownComplete, ShutdownLogger, Return
  <2> QED
    BY <2>1, <2>2
<1>5. CASE AcceptStep \/ AcceptFails
  <2>1. pcAccept' \in AcceptPc
    BY <1>5 DEF AcceptStep, AcceptCheck, AcceptReadSocket, AcceptCall, AcceptRetry, Accept,
                AcceptFails, GotoAccept, AcceptPc
  <2>2. pcMain' = pcMain /\ running' = running /\ socket' = socket /\ killed' = killed
    BY <1>5 DEF AcceptStep, AcceptCheck, AcceptReadSocket, AcceptCall, AcceptRetry, Accept,
                AcceptFails
  <2>3. faults' \in 0 .. MaxFaults
    BY <1>5, SizesAssumption DEF AcceptStep, AcceptCheck, AcceptReadSocket, AcceptCall,
                                 AcceptRetry, Accept, AcceptFails, Faulty
  <2> QED
    BY <2>1, <2>2, <2>3
<1>6. ASSUME NEW c \in Clients,
             ConnStep(c) \/ Leave(c) \/ \E declares \in Lengths, body \in Bodies : Connect(c, declares, body)
      PROVE  ServerInv'
  BY <1>6 DEF ConnStep, Receive, ReceiveEnds, Handle, HandleClear, HandleNote, Respond, Leave,
              Connect, server
<1>7. ASSUME NEW c \in Clients, RespondKilled(c) PROVE ServerInv'
  <2>1. faults' \in 0 .. MaxFaults
    BY <1>7, SizesAssumption DEF RespondKilled, Faulty
  <2> QED
    BY <1>7, <2>1 DEF RespondKilled
<1> QED
  BY <1>1, <1>2, <1>3, <1>4, <1>5, <1>6, <1>7 DEF Next, Ended

LEMMA AcceptIsKept ==
  ASSUME ServerInv, AcceptInv, [Next]_vars
  PROVE  AcceptInv'
<1> USE DEF AcceptInv
<1>1. CASE UNCHANGED vars
  BY <1>1 DEF vars, server
<1>2. CASE Initialize \/ InitializeFails \/ ListenFails \/ StopRequested
  BY <1>2 DEF Initialize, InitializeFails, ListenFails, StopRequested, GotoMain
<1>3. CASE Listen
  BY <1>3 DEF Listen, GotoMain
<1>4. CASE MainStep
  <2>1. pcMain' \notin {"initialize", "listen"}
    BY <1>4 DEF MainStep, StopServer, CloseSocket, ClearSocket, JoinAccept, ShutdownApp,
                ShutdownComplete, ShutdownLogger, Return, GotoMain
  <2>2. pcAccept' = pcAccept /\ late' = late /\ (~running => ~running')
    BY <1>4 DEF MainStep, StopServer, CloseSocket, ClearSocket, JoinAccept, ShutdownApp,
                ShutdownComplete, ShutdownLogger, Return
  <2> QED
    BY <2>1, <2>2
<1>5. CASE AcceptCheck \/ AcceptReadSocket \/ AcceptCall \/ AcceptRetry \/ AcceptFails
  BY <1>5 DEF AcceptCheck, AcceptReadSocket, AcceptCall, AcceptRetry, AcceptFails, GotoAccept
<1>6. ASSUME NEW c \in Clients, Accept(c) PROVE AcceptInv'
  BY <1>6 DEF Accept, GotoAccept
<1>7. ASSUME NEW c \in Clients,
             ConnStep(c) \/ RespondKilled(c) \/ Leave(c) \/ \E declares \in Lengths, body \in Bodies : Connect(c, declares, body)
      PROVE  AcceptInv'
  BY <1>7 DEF ConnStep, Receive, ReceiveEnds, Handle, HandleClear, HandleNote, Respond,
              RespondKilled, Leave, Connect, server
<1> QED
  BY <1>1, <1>2, <1>3, <1>4, <1>5, <1>6, <1>7 DEF Next, AcceptStep, Ended

\* A sum that fits is not changed by being taken modulo the range.
LEMMA SmallRemainder ==
  ASSUME NEW n \in Nat, NEW m \in Nat, ~(n >= m)
  PROVE  n % m = n
OBVIOUS

LEMMA DeclaredSize ==
  ASSUME NEW x \in Client
  PROVE  x.declares \in Nat
<1>1. x.declares \in Lengths \cup {0}
  BY DEF Client
<1>2. Lengths \cup {0} \subseteq Nat
  BY SizesAssumption
<1> QED
  BY <1>1, <1>2

\* A connection that is untouched, or whose place alone changes.
LEMMA ConnFrame ==
  ASSUME NEW c \in Clients, ConnInv(c), wire'[c] = wire[c], conn'[c] = conn[c]
  PROVE  ConnInv(c)'
BY DEF ConnInv, Expected

LEMMA ConnMoves ==
  ASSUME NEW c \in Clients, ConnInv(c), wire'[c] = wire[c], NEW to \in ConnState,
         conn'[c] = [conn[c] EXCEPT !.at = to],
         to = "receive" => conn[c].at \in {"queued", "receive"},
         to \notin {"none", "queued", "handle"}
  PROVE  ConnInv(c)'
<1>1. conn[c] \in Connection /\ conn[c].raw \in Nat
  BY DEF ConnInv, Connection
<1>2. conn'[c] \in Connection /\ conn'[c].at = to /\ conn'[c].raw = conn[c].raw
  BY <1>1 DEF Connection
<1>3. conn[c].at = "queued" => conn[c].raw < MaxRequest
  BY <1>1, SizesAssumption DEF ConnInv
<1> QED
  BY <1>2, <1>3 DEF ConnInv

LEMMA UnacceptedKeeps ==
  ASSUME ConnsInv
  PROVE  /\ DOMAIN Unaccepted = Clients
         /\ \A c \in Clients :
              \/ Unaccepted[c] = conn[c]
              \/ conn[c].at = "queued" /\ Unaccepted[c] = [conn[c] EXCEPT !.at = "reset"]
BY DEF Unaccepted, ConnsInv, ConnInv, Connection

LEMMA ReceiveKeeps ==
  ASSUME ConnsInv, NEW c \in Clients, Receive(c)
  PROVE  ConnInv(c)' /\ DOMAIN conn' = Clients /\ \A d \in Clients \ {c} : conn'[d] = conn[d]
<1>1. PICK n \in 1 .. BufferSize :
        \E next \in {AfterReceive(c, conn[c].raw + n)} \cup Refusal(c, conn[c].raw + n) :
          conn' = [conn EXCEPT ![c].raw = IF next = "send" THEN 0 ELSE @ + n, ![c].at = next]
  BY DEF Receive
<1> DEFINE raw == conn[c].raw + n
<1>2. PICK next \in {AfterReceive(c, raw)} \cup Refusal(c, raw) :
        conn' = [conn EXCEPT ![c].raw = IF next = "send" THEN 0 ELSE @ + n, ![c].at = next]
  BY <1>1
<1>3. /\ conn[c] \in Connection /\ wire[c] \in Client /\ wire'[c] = wire[c]
      /\ conn[c].at = "receive" /\ conn[c].raw < MaxRequest
      /\ DOMAIN conn = Clients
  BY DEF ConnsInv, ConnInv, Receive
<1>4. /\ conn[c].raw \in Nat /\ MaxRequest \in Nat /\ BufferSize \in Nat /\ HeaderSize \in Nat
      /\ wire[c].declares \in Nat
  BY <1>3, SizesAssumption, DeclaredSize DEF Connection
<1>5. raw \in Nat /\ raw <= MaxRequest + BufferSize - 1
  BY <1>3, <1>4
<1>6. /\ next \in {"handle", "receive", "send"}
      /\ next = "receive" => raw < MaxRequest
      /\ next = "handle" => raw >= HeaderSize
      /\ next = "handle" /\ raw < MaxRequest => raw >= Expected(c)
  BY <1>2, <1>5 DEF AfterReceive, Refusal
<1>7. DOMAIN conn' = Clients /\ \A d \in Clients \ {c} : conn'[d] = conn[d]
  BY <1>2, <1>3
<1> DEFINE kept == IF next = "send" THEN 0 ELSE raw
<1>8. conn'[c].raw = kept /\ conn'[c].at = next /\ conn'[c] \in Connection
  BY <1>2, <1>3, <1>5, <1>6 DEF Connection, ConnState
<1>9. /\ kept \in Nat /\ kept <= MaxRequest + BufferSize - 1
      /\ next # "send" => kept = raw
  BY <1>4, <1>5, SizesAssumption
<1>10. Expected(c)' = Expected(c)
  BY <1>3 DEF Expected
<1> HIDE DEF raw, kept
<1> QED
  BY <1>3, <1>6, <1>7, <1>8, <1>9, <1>10 DEF ConnInv

LEMMA OneConnection ==
  ASSUME ConnsInv, NEW c \in Clients, ConnInv(c)',
         DOMAIN conn' = Clients, \A d \in Clients \ {c} : conn'[d] = conn[d],
         DOMAIN wire' = Clients, \A d \in Clients \ {c} : wire'[d] = wire[d]
  PROVE  ConnsInv'
<1>1. \A d \in Clients \ {c} : ConnInv(d)'
  BY ConnFrame DEF ConnsInv
<1> QED
  BY <1>1 DEF ConnsInv

LEMMA ConnsAreKept ==
  ASSUME ConnsInv, [Next]_vars
  PROVE  ConnsInv'
<1>1. ASSUME conn' = conn, wire' = wire PROVE ConnsInv'
  BY <1>1 DEF ConnsInv, ConnInv, Expected
<1>2. /\ DOMAIN conn = Clients /\ DOMAIN wire = Clients
      /\ \A c \in Clients : ConnInv(c) /\ conn[c] \in Connection /\ wire[c] \in Client
  BY DEF ConnsInv, ConnInv
<1>3. ASSUME conn' = Unaccepted, wire' = wire PROVE ConnsInv'
  <2>1. DOMAIN conn' = Clients
    BY <1>3, UnacceptedKeeps
  <2>2. ASSUME NEW c \in Clients PROVE ConnInv(c)'
    <3>1. CASE conn'[c] = conn[c]
      BY <1>2, <1>3, <3>1, ConnFrame
    <3>2. CASE conn'[c] = [conn[c] EXCEPT !.at = "reset"]
      <4>1. "reset" \in ConnState /\ wire'[c] = wire[c]
        BY <1>3 DEF ConnState
      <4> QED
        BY <1>2, <3>2, <4>1, ConnMoves
    <3> QED
      BY <1>3, <3>1, <3>2, UnacceptedKeeps
  <2> QED
    BY <1>2, <1>3, <2>1, <2>2 DEF ConnsInv
<1>4. CASE UNCHANGED vars
  BY <1>1, <1>4 DEF vars
<1>5. CASE Initialize \/ InitializeFails \/ Listen \/ ListenFails \/ StopRequested
  BY <1>1, <1>5 DEF Initialize, InitializeFails, Listen, ListenFails, StopRequested
<1>6. CASE MainStep
  <2>1. wire' = wire /\ (conn' = conn \/ conn' = Unaccepted)
    BY <1>6 DEF MainStep, StopServer, CloseSocket, ClearSocket, JoinAccept, ShutdownApp,
                ShutdownComplete, ShutdownLogger, Return
  <2> QED
    BY <1>1, <1>3, <2>1
<1>7. CASE AcceptCheck \/ AcceptReadSocket \/ AcceptCall \/ AcceptRetry \/ AcceptFails
  <2>1. wire' = wire /\ (conn' = conn \/ conn' = Unaccepted)
    BY <1>7 DEF AcceptCheck, AcceptReadSocket, AcceptCall, AcceptRetry, AcceptFails
  <2> QED
    BY <1>1, <1>3, <2>1
<1>8. ASSUME NEW c \in Clients, Accept(c) PROVE ConnsInv'
  <2> DEFINE old == IF socket = "open" THEN conn ELSE Unaccepted
  <2>1. /\ conn[c].at = "queued" /\ wire' = wire
        /\ conn' = [old EXCEPT ![c].at = "receive"]
    BY <1>8 DEF Accept
  <2>2. /\ DOMAIN old = Clients
        /\ \A d \in Clients : \/ old[d] = conn[d]
                              \/ old[d] = [conn[d] EXCEPT !.at = "reset"]
    BY <1>2, UnacceptedKeeps
  <2> HIDE DEF old
  <2>3. DOMAIN conn' = Clients /\ \A d \in Clients \ {c} : conn'[d] = old[d]
    BY <2>1, <2>2
  <2>4. conn'[c] = [conn[c] EXCEPT !.at = "receive"]
    BY <1>2, <2>1, <2>2 DEF Connection
  <2>5. {"receive", "reset"} \subseteq ConnState
    BY DEF ConnState
  <2>6. ConnInv(c)'
    BY <1>2, <2>1, <2>4, <2>5, ConnMoves
  <2>7. ASSUME NEW d \in Clients \ {c} PROVE ConnInv(d)'
    <3>1. CASE conn'[d] = conn[d]
      BY <1>2, <2>1, <3>1, ConnFrame
    <3>2. CASE conn'[d] = [conn[d] EXCEPT !.at = "reset"]
      BY <1>2, <2>1, <2>5, <3>2, ConnMoves
    <3> QED
      BY <2>2, <2>3, <3>1, <3>2
  <2> QED
    BY <1>2, <2>1, <2>3, <2>6, <2>7 DEF ConnsInv
<1>9. ASSUME NEW c \in Clients, Receive(c) PROVE ConnsInv'
  <2>1. wire' = wire
    BY <1>9 DEF Receive
  <2> QED
    BY <1>2, <1>9, <2>1, ReceiveKeeps, OneConnection
<1>10. ASSUME NEW c \in Clients, HandleNote(c) PROVE ConnsInv'
  <2>1. /\ conn'[c] = [conn[c] EXCEPT !.at = "send"] /\ DOMAIN conn' = Clients
        /\ \A d \in Clients \ {c} : conn'[d] = conn[d]
        /\ wire' = wire
    BY <1>2, <1>10 DEF HandleNote, GotoConn
  <2>2. "send" \in ConnState
    BY DEF ConnState
  <2>3. ConnInv(c)'
    BY <1>2, <2>1, <2>2, ConnMoves
  <2> QED
    BY <1>2, <2>1, <2>3, OneConnection
<1>11. ASSUME NEW c \in Clients, ReceiveEnds(c) \/ Handle(c) \/ HandleClear(c)
       PROVE  ConnsInv'
  <2>1. PICK to \in {"send", "note"} :
          conn' = [conn EXCEPT ![c] = [at |-> to, raw |-> 0]]
    BY <1>11 DEF ReceiveEnds, Handle, HandleClear, Discarding
  <2>2. /\ conn'[c] = [at |-> to, raw |-> 0] /\ wire' = wire /\ DOMAIN conn' = Clients
        /\ \A d \in Clients \ {c} : conn'[d] = conn[d]
    BY <1>2, <1>11, <2>1 DEF ReceiveEnds, Handle, HandleClear
  <2>3. ConnInv(c)'
    BY <1>2, <2>1, <2>2, SizesAssumption DEF ConnInv, Connection, ConnState
  <2> QED
    BY <1>2, <2>2, <2>3, OneConnection
<1>12. ASSUME NEW c \in Clients, Respond(c) PROVE ConnsInv'
  <2>1. /\ conn'[c] = [at |-> "closed", raw |-> 0] /\ wire'[c] = Silent
        /\ DOMAIN conn' = Clients /\ DOMAIN wire' = Clients
        /\ \A d \in Clients \ {c} : conn'[d] = conn[d] /\ wire'[d] = wire[d]
    BY <1>2, <1>12 DEF Respond, Discarding
  <2>2. ConnInv(c)'
    BY <2>1, SizesAssumption DEF ConnInv, Connection, ConnState, Client, Silent
  <2> QED
    BY <2>1, <2>2, OneConnection
<1>13. ASSUME NEW c \in Clients, RespondKilled(c) PROVE ConnsInv'
  BY <1>1, <1>13 DEF RespondKilled
<1>14. ASSUME NEW c \in Clients, NEW declares \in Lengths, NEW body \in Bodies,
              Connect(c, declares, body)
       PROVE  ConnsInv'
  <2>1. /\ conn[c].at = "none" /\ conn'[c] = [conn[c] EXCEPT !.at = "queued"]
        /\ wire'[c] = [declares |-> declares, gone |-> FALSE, sent |-> HeaderSize + body]
        /\ DOMAIN conn' = Clients /\ DOMAIN wire' = Clients
        /\ \A d \in Clients \ {c} : conn'[d] = conn[d] /\ wire'[d] = wire[d]
    BY <1>2, <1>14 DEF Connect
  <2>2. wire'[c] \in Client
    BY <2>1, SizesAssumption DEF Client
  <2>3. conn[c].raw = 0 /\ conn'[c] \in Connection /\ conn'[c].raw = 0 /\ conn'[c].at = "queued"
    BY <1>2, <2>1 DEF ConnInv, Connection, ConnState
  <2>4. ConnInv(c)'
    BY <2>2, <2>3, SizesAssumption DEF ConnInv
  <2> QED
    BY <2>1, <2>4, OneConnection
<1>15. ASSUME NEW c \in Clients, Leave(c) PROVE ConnsInv'
  <2>1. PICK n \in {conn[c].raw, wire[c].sent} :
          wire' = [wire EXCEPT ![c].gone = TRUE, ![c].sent = n]
    BY <1>15 DEF Leave
  <2>2. conn' = conn
    BY <1>15 DEF Leave
  <2>3. n \in Nat
    BY <1>2 DEF Connection, Client
  <2>4. /\ wire'[c] \in Client /\ wire'[c].declares = wire[c].declares
        /\ DOMAIN wire' = Clients /\ \A d \in Clients \ {c} : wire'[d] = wire[d]
    BY <1>2, <2>1, <2>3 DEF Client
  <2>5. ConnInv(c)'
    BY <1>2, <2>2, <2>4 DEF ConnInv, Expected
  <2> QED
    BY <1>2, <2>2, <2>4, <2>5, OneConnection
<1> QED
  BY <1>4, <1>5, <1>6, <1>7, <1>8, <1>9, <1>10, <1>11, <1>12, <1>13, <1>14,
     <1>15 DEF Next, AcceptStep, ConnStep, Ended

LEMMA TablesAreKept ==
  ASSUME TablesInv, ConnsInv', [Next]_vars
  PROVE  TablesInv'
<1> DEFINE Tables == /\ conn' = [c \in Clients |-> conn'[c]]
                     /\ wire' = [c \in Clients |-> wire'[c]]
<1> SUFFICES Tables
  BY DEF ConnsInv, ConnInv, TablesInv
<1> USE DEF TablesInv
<1>1. CASE UNCHANGED vars
  BY <1>1 DEF vars
<1>2. CASE Initialize \/ InitializeFails \/ Listen \/ ListenFails \/ StopRequested \/ MainStep
  BY <1>2 DEF Initialize, InitializeFails, Listen, ListenFails, StopRequested, MainStep,
              StopServer, CloseSocket, ClearSocket, JoinAccept, ShutdownApp, ShutdownComplete,
              ShutdownLogger, Return, Unaccepted
<1>3. CASE AcceptStep \/ AcceptFails
  BY <1>3 DEF AcceptStep, AcceptCheck, AcceptReadSocket, AcceptCall, AcceptRetry, Accept,
              AcceptFails, Unaccepted
<1>4. ASSUME NEW c \in Clients, ConnStep(c) \/ RespondKilled(c) PROVE Tables
  BY <1>4 DEF ConnStep, Receive, ReceiveEnds, Handle, HandleClear, HandleNote, Respond,
              RespondKilled, GotoConn, Discarding
<1>5. ASSUME NEW c \in Clients, Leave(c) \/ \E declares \in Lengths, body \in Bodies : Connect(c, declares, body)
      PROVE  Tables
  BY <1>5 DEF Leave, Connect
<1> HIDE DEF Tables
<1> QED
  BY <1>1, <1>2, <1>3, <1>4, <1>5 DEF Next, Ended

-----------------------------------------------------------------------------
(***************************************************************************)
(* Theorems                                                                *)
(***************************************************************************)

\* The inductive invariant holds in every state of every run of the service.
THEOREM Inductive == Spec => []IInv
<1>1. IInv /\ [Next]_vars => IInv'
  BY ServerIsKept, AcceptIsKept, ConnsAreKept, TablesAreKept, LogIsKept DEF IInv
<1> QED
  BY <1>1, InitEstablishes, PTL DEF Spec

\* The variables of the threads and of the logger keep their types: a request exceeds
\* kMaxRequest by less than the receive buffer, and the list of recent lines never has
\* more than kMaxRecentLogs.
THEOREM TypeCorrect == Spec => []TypeOK
<1>1. IInv => TypeOK
  <2> SUFFICES ASSUME IInv PROVE TypeOK
    OBVIOUS
  <2>1. ServerInv /\ Log!LogTypeOK /\ late \in Nat
    BY DEF IInv, LogInv, AcceptInv
  <2>2. conn \in [Clients -> [at : ConnState, raw : 0 .. (MaxRequest + BufferSize - 1)]]
    <3>1. ASSUME NEW c \in Clients
          PROVE  conn[c] \in [at : ConnState, raw : 0 .. (MaxRequest + BufferSize - 1)]
      <4>1. conn[c] \in Connection /\ conn[c].raw <= MaxRequest + BufferSize - 1
        BY DEF IInv, ConnsInv, ConnInv
      <4>2. MaxRequest + BufferSize - 1 \in Int
        BY SizesAssumption
      <4> QED
        BY <4>1, <4>2 DEF Connection
    <3> QED
      BY <3>1 DEF IInv, TablesInv
  <2>3. wire \in [Clients -> [declares : Lengths \cup {0}, sent : Nat, gone : BOOLEAN]]
    BY DEF IInv, TablesInv, Client
  <2> QED
    BY <2>1, <2>2, <2>3 DEF ServerInv, TypeOK
<1> QED
  BY <1>1, Inductive, PTL

\* However a request is cut into pieces, the handler gets a complete header and all of the
\* declared body, or as much as the limit or a length that wraps around lets through.
THEOREM BodyWhole == Spec => []BodyIsWhole
<1>1. IInv => BodyIsWhole
  <2> SUFFICES ASSUME IInv, NEW c \in Clients, conn[c].at = "handle"
               PROVE  /\ Body(c) >= 0
                      /\ Body(c) >= wire[c].declares \/ conn[c].raw >= MaxRequest \/ Wraps(c)
    BY DEF BodyIsWhole
  <2>1. /\ conn[c] \in Connection /\ wire[c] \in Client /\ conn[c].raw >= HeaderSize
        /\ conn[c].raw < MaxRequest => conn[c].raw >= Expected(c)
    BY DEF IInv, ConnsInv, ConnInv
  <2>2. /\ conn[c].raw \in Nat /\ wire[c].declares \in Nat
        /\ HeaderSize \in Nat /\ MaxRequest \in Nat /\ SizeRange \in Nat
    BY <2>1, SizesAssumption, DeclaredSize DEF Connection
  <2>3. Body(c) >= 0
    BY <2>1, <2>2 DEF Body
  <2>4. ~Wraps(c) => Expected(c) = HeaderSize + wire[c].declares
    <3> DEFINE size == HeaderSize + wire[c].declares
    <3>1. size \in Nat
      BY <2>2
    <3> HIDE DEF size
    <3>2. ~(size >= SizeRange) => size % SizeRange = size
      BY <2>2, <3>1, SmallRemainder
    <3> QED
      BY <3>2 DEF size, Wraps, Expected
  <2> QED
    BY <2>1, <2>2, <2>3, <2>4 DEF Body
<1> QED
  BY <1>1, Inductive, PTL

\* Once stop() has cleared running_ the accept thread takes at most the connection that
\* its accept() was waiting for.
THEOREM OneLate == Spec => []OneLateConnection
<1>1. IInv => OneLateConnection
  BY DEF IInv, AcceptInv, OneLateConnection
<1> QED
  BY <1>1, Inductive, PTL

\* What recentLogs() returns for any limit is the end of what was logged since the last
\* clear, and the file has all that was logged while it was open.
THEOREM RecentIsTail == Spec => []RecentIsTailOfLog
<1>1. IInv => RecentIsTailOfLog
  <2> SUFFICES ASSUME IInv PROVE RecentIsTailOfLog
    OBVIOUS
  <2>1. Log!FileIsPrefix /\ recent = Log!Newest(Since, MaxRecent)
    BY DEF IInv, LogInv
  <2>2. written \in Seq(Messages) /\ cleared \in 0 .. Len(written) /\ Since \in Seq(Messages)
    <3>1. written \in Seq(Messages) /\ cleared \in 0 .. Len(written)
      BY DEF IInv, LogInv, Log!LogTypeOK
    <3>2. "main" \in Messages
      BY DEF Messages
    <3> QED
      BY <3>1, <3>2, PartOfAppend DEF Since
  <2>3. \A limit \in 0 .. MaxRecent : Log!Newest(recent, limit) = Log!Newest(Since, limit)
    BY <2>1, <2>2, SizesAssumption, NewestOfNewest
  <2> QED
    BY <2>1, <2>3 DEF RecentIsTailOfLog, Log!ListIsTail, Log!RecentLogs, Since
<1> QED
  BY <1>1, Inductive, PTL
=============================================================================
