-------------------------- MODULE JobServiceProofs --------------------------
(***************************************************************************)
(* What a client of any worker that implements JobService can rely on, for *)
(* every set of jobs and every channel capacity.                           *)
(***************************************************************************)
EXTENDS JobService, SequenceTheorems, TLAPS

Events == {"token"} \cup Terminal

\* A sequence of events in which only the last one may be terminal.
WellEnded(s) == \A i \in 1..Len(s) : s[i] \in Terminal => i = Len(s)

Unended(s) == \A i \in 1..Len(s) : s[i] \notin Terminal

Concluded(s) == s # << >> /\ s[Len(s)] \in Terminal

\* The inductive invariant, job by job (Next constrains the state of each
\* job only): the types; no terminal event before the end of the job, and
\* none but as its last event; and the answer of a job that ended.
JobOK(j) ==
    /\ stage[j] \in {"new", "accepted", "refused", "ended"}
    /\ open[j] \in BOOLEAN /\ lost[j] \in BOOLEAN
    /\ out[j] \in Seq(Events)
    /\ WellEnded(out[j])
    /\ stage[j] # "ended" => Unended(out[j])
    /\ stage[j] = "ended" /\ open[j] /\ ~lost[j] => Concluded(out[j])

Inv == \A j \in Jobs : JobOK(j)

\* Send appends a prefix of es, and all of it to a client that is connected
\* and reading.
LEMMA SendAppends ==
    ASSUME NEW j \in Jobs, NEW es \in Seq(Events), out[j] \in Seq(Events),
           lost[j] \in BOOLEAN, Send(j, es)
    PROVE  /\ lost'[j] \in BOOLEAN
           /\ open[j] /\ ~lost'[j] => out'[j] = out[j] \o es
           /\ \E n \in 0..Len(es) : out'[j] = out[j] \o SubSeq(es, 1, n)
<1>1. SubSeq(es, 1, Len(es)) = es
  BY SubSeqFull
<1>2. out[j] \o SubSeq(es, 1, 0) = out[j]
  BY SubSeqEmpty, ConcatEmptySeq
<1>3. Len(es) \in Nat
  BY LenProperties
<1>4. CASE open[j] /\ out'[j] = out[j] \o es /\ lost'[j] = lost[j]
  <2>1. Len(es) \in 0..Len(es)
    BY <1>3
  <2>2. QED
    BY <2>1, <1>1, <1>4
<1>5. CASE ~open[j] /\ out'[j] = out[j] /\ lost'[j] = lost[j]
  <2>1. 0 \in 0..Len(es)
    BY <1>3
  <2>2. QED
    BY <2>1, <1>2, <1>5
<1>6. CASE \E n \in 0..(Len(es) - 1) :
              /\ out'[j] = out[j] \o SubSeq(es, 1, n)
              /\ lost'[j] = TRUE
  <2>1. PICK n \in 0..(Len(es) - 1) : out'[j] = out[j] \o SubSeq(es, 1, n) /\ lost'[j] = TRUE
    BY <1>6
  <2>2. n \in 0..Len(es)
    BY <1>3
  <2>3. QED
    BY <2>1, <2>2
<1>7. QED
  BY <1>4, <1>5, <1>6 DEF Send

\* Appending a prefix of events that end at most at their last one.
LEMMA PrefixShape ==
    ASSUME NEW s \in Seq(Events), Unended(s),
           NEW es \in Seq(Events), WellEnded(es), NEW n \in 0..Len(es)
    PROVE  s \o SubSeq(es, 1, n) \in Seq(Events) /\ WellEnded(s \o SubSeq(es, 1, n))
<1> DEFINE p == SubSeq(es, 1, n)
<1>0. Len(es) \in Nat /\ Len(s) \in Nat
  BY LenProperties
<1>1. \A i \in 1..n : es[i] \in Events
  BY <1>0, ElementOfSeq
<1>2. p \in Seq(Events) /\ Len(p) = n /\ \A i \in 1..n : p[i] = es[i]
  BY <1>0, <1>1, SubSeqProperties
<1> HIDE DEF p
<1>3. /\ s \o p \in Seq(Events) /\ Len(s \o p) = Len(s) + n
      /\ \A i \in 1..(Len(s) + n) : (s \o p)[i] = IF i <= Len(s) THEN s[i] ELSE p[i - Len(s)]
  BY <1>2, ConcatProperties
<1>4. WellEnded(s \o p)
  <2> SUFFICES ASSUME NEW i \in 1..(Len(s) + n), (s \o p)[i] \in Terminal
               PROVE  i = Len(s) + n
    BY <1>3 DEF WellEnded
  <2>1. i > Len(s)
    BY <1>0, <1>3 DEF Unended
  <2>2. i - Len(s) \in 1..n
    BY <1>0, <2>1
  <2>3. es[i - Len(s)] \in Terminal
    <3>1. ~(i <= Len(s))
      BY <1>0, <2>1
    <3>2. (s \o p)[i] = p[i - Len(s)]
      BY <1>3, <3>1
    <3>3. p[i - Len(s)] = es[i - Len(s)]
      BY <1>2, <2>2
    <3> QED
      BY <3>2, <3>3
  <2>4. i - Len(s) = Len(es)
    BY <1>0, <2>2, <2>3 DEF WellEnded
  <2>5. QED
    BY <1>0, <2>2, <2>4
<1>5. QED
  BY <1>3, <1>4 DEF p

\* The same when none of the appended events is terminal,
LEMMA PrefixUnended ==
    ASSUME NEW s \in Seq(Events), Unended(s),
           NEW es \in Seq(Events), Unended(es), NEW n \in 0..Len(es)
    PROVE  Unended(s \o SubSeq(es, 1, n))
<1> DEFINE p == SubSeq(es, 1, n)
<1>0. Len(es) \in Nat /\ Len(s) \in Nat
  BY LenProperties
<1>1. \A i \in 1..n : es[i] \in Events
  BY <1>0, ElementOfSeq
<1>2. p \in Seq(Events) /\ Len(p) = n /\ \A i \in 1..n : p[i] = es[i]
  BY <1>0, <1>1, SubSeqProperties
<1> HIDE DEF p
<1>3. /\ Len(s \o p) = Len(s) + n
      /\ \A i \in 1..(Len(s) + n) : (s \o p)[i] = IF i <= Len(s) THEN s[i] ELSE p[i - Len(s)]
  BY <1>2, ConcatProperties
<1>4. Unended(s \o p)
  <2> SUFFICES ASSUME NEW i \in 1..(Len(s) + n)
               PROVE  (s \o p)[i] \notin Terminal
    BY <1>3 DEF Unended
  <2>1. CASE i <= Len(s)
    BY <1>0, <1>3, <2>1 DEF Unended
  <2>2. CASE i > Len(s)
    <3>1. i - Len(s) \in 1..n /\ i - Len(s) \in 1..Len(es)
      BY <1>0, <2>2
    <3>2. (s \o p)[i] = es[i - Len(s)]
      BY <1>0, <1>2, <1>3, <2>2, <3>1
    <3>3. QED
      BY <3>1, <3>2 DEF Unended
  <2>3. i <= Len(s) \/ i > Len(s)
    BY <1>0
  <2>4. QED
    BY <2>1, <2>2, <2>3
<1>5. QED
  BY <1>4 DEF p

\* and when all of them arrive and the last one is.
LEMMA ConcatConcluded ==
    ASSUME NEW s \in Seq(Events), NEW es \in Seq(Events), Concluded(es)
    PROVE  Concluded(s \o es)
<1>1. Len(es) \in Nat \ {0} /\ Len(s) \in Nat
  BY EmptySeq, LenProperties DEF Concluded
<1>2. /\ s \o es \in Seq(Events) /\ Len(s \o es) = Len(s) + Len(es)
      /\ (s \o es)[Len(s) + Len(es)] = es[Len(es)]
  BY <1>1, ConcatProperties
<1>3. s \o es # << >>
  BY <1>1, <1>2, EmptySeq
<1>4. QED
  BY <1>2, <1>3 DEF Concluded

\* A job that neither sends nor ends keeps its invariant.
LEMMA QuietOK ==
    ASSUME NEW j \in Jobs, JobOK(j), Quiet(j), open'[j] \in BOOLEAN, open'[j] => open[j],
           stage'[j] = stage[j] \/ (stage[j] = "new" /\ stage'[j] \in {"accepted", "refused"})
    PROVE  JobOK(j)'
<1>1. JobOK(j)' <=>
        /\ stage'[j] \in {"new", "accepted", "refused", "ended"}
        /\ open'[j] \in BOOLEAN /\ lost'[j] \in BOOLEAN
        /\ out'[j] \in Seq(Events)
        /\ WellEnded(out'[j])
        /\ stage'[j] # "ended" => Unended(out'[j])
        /\ stage'[j] = "ended" /\ open'[j] /\ ~lost'[j] => Concluded(out'[j])
  BY DEF JobOK, WellEnded, Unended, Concluded
<1>2. out'[j] = out[j] /\ lost'[j] = lost[j]
  BY DEF Quiet
<1>3. QED
  BY <1>1, <1>2 DEF JobOK

\* A job that sends the events es of a token or of its end.
LEMMA SendOK ==
    ASSUME NEW j \in Jobs, JobOK(j), stage[j] = "accepted", open'[j] = open[j],
           NEW es \in Seq(Events), WellEnded(es), Send(j, es),
           \/ stage'[j] = "accepted" /\ Unended(es)
           \/ stage'[j] = "ended" /\ Concluded(es)
    PROVE  JobOK(j)'
<1>0. out[j] \in Seq(Events) /\ lost[j] \in BOOLEAN /\ Unended(out[j])
  BY DEF JobOK
<1>1. /\ lost'[j] \in BOOLEAN
      /\ open[j] /\ ~lost'[j] => out'[j] = out[j] \o es
      /\ \E n \in 0..Len(es) : out'[j] = out[j] \o SubSeq(es, 1, n)
  BY <1>0, SendAppends
<1>2. out'[j] \in Seq(Events) /\ WellEnded(out'[j])
  BY <1>0, <1>1, PrefixShape
<1>3. stage'[j] # "ended" => Unended(out'[j])
  BY <1>0, <1>1, PrefixUnended
<1>4. stage'[j] = "ended" /\ open'[j] /\ ~lost'[j] => Concluded(out'[j])
  BY <1>0, <1>1, ConcatConcluded
<1>5. JobOK(j)' <=>
        /\ stage'[j] \in {"new", "accepted", "refused", "ended"}
        /\ open'[j] \in BOOLEAN /\ lost'[j] \in BOOLEAN
        /\ out'[j] \in Seq(Events)
        /\ WellEnded(out'[j])
        /\ stage'[j] # "ended" => Unended(out'[j])
        /\ stage'[j] = "ended" /\ open'[j] /\ ~lost'[j] => Concluded(out'[j])
  BY DEF JobOK, WellEnded, Unended, Concluded
<1>6. open'[j] \in BOOLEAN /\ stage'[j] \in {"new", "accepted", "refused", "ended"}
  BY DEF JobOK
<1>7. QED
  BY <1>1, <1>2, <1>3, <1>4, <1>5, <1>6

\* A token keeps the invariant of its job.
LEMMA TokenOK ==
    ASSUME NEW j \in Jobs, JobOK(j), Token(j)
    PROVE  JobOK(j)'
<1>1. <<"token">> \in Seq(Events) /\ WellEnded(<<"token">>) /\ Unended(<<"token">>)
  BY DEF Events, Terminal, WellEnded, Unended
<1>2. QED
  BY <1>1, SendOK DEF Token, Move

\* The terminal event, alone or after the last token.
LEMMA FinishOK ==
    ASSUME NEW j \in Jobs, JobOK(j), Finish(j)
    PROVE  JobOK(j)'
<1>1. PICK e \in Terminal : Send(j, <<e>>) \/ Send(j, <<"token", e>>)
  BY DEF Finish
<1>2. stage[j] = "accepted" /\ stage'[j] = "ended" /\ open'[j] = open[j]
  BY DEF Finish, Move
<1>3. CASE Send(j, <<e>>)
  <2>1. <<e>> \in Seq(Events) /\ WellEnded(<<e>>) /\ Concluded(<<e>>)
    BY DEF Events, WellEnded, Concluded
  <2>2. QED
    BY <1>2, <1>3, <2>1, SendOK
<1>4. CASE Send(j, <<"token", e>>)
  <2>1. <<"token", e>> \in Seq(Events) /\ Len(<<"token", e>>) = 2
    BY DEF Events
  <2>2. WellEnded(<<"token", e>>) /\ Concluded(<<"token", e>>)
    BY <2>1 DEF WellEnded, Concluded, Terminal
  <2>3. QED
    BY <1>2, <1>4, <2>1, <2>2, SendOK
<1>5. QED
  BY <1>1, <1>3, <1>4

\* Every behaviour of the service keeps the invariant: one case per kind of
\* step a job may take.
THEOREM ServiceInvariant == Spec => []Inv
<1>1. Init => Inv
  <2> SUFFICES ASSUME Init, NEW j \in Jobs
               PROVE  JobOK(j)
    BY DEF Inv
  <2>1. stage[j] = "new" /\ open[j] = TRUE /\ out[j] = << >> /\ lost[j] = FALSE
    BY DEF Init
  <2>2. << >> \in Seq(Events) /\ Len(<< >>) = 0
    BY EmptySeq
  <2>3. WellEnded(<< >>) /\ Unended(<< >>)
    BY <2>2 DEF WellEnded, Unended
  <2>4. QED
    BY <2>1, <2>2, <2>3 DEF JobOK
<1>2. Inv /\ [Next]_vars => Inv'
  <2> SUFFICES ASSUME Inv, [Next]_vars, NEW j \in Jobs
               PROVE  JobOK(j)'
    BY DEF Inv
  <2>0. JobOK(j)
    BY DEF Inv
  <2>1. CASE UNCHANGED vars
    BY <2>0, <2>1, QuietOK DEF vars, Quiet, JobOK
  <2>2. CASE Decide(j)
    BY <2>0, <2>2, QuietOK DEF Decide, Move, JobOK
  <2>3. CASE Hangup(j)
    BY <2>0, <2>3, QuietOK DEF Hangup, JobOK
  <2>4. CASE Token(j)
    BY <2>0, <2>4, TokenOK
  <2>5. CASE Finish(j)
    BY <2>0, <2>5, FinishOK
  <2>6. CASE Idle(j)
    BY <2>0, <2>6, QuietOK DEF Idle, JobOK
  <2>7. QED
    BY <2>1, <2>2, <2>3, <2>4, <2>5, <2>6 DEF Next, Step
<1>3. QED
  BY <1>1, <1>2, PTL DEF Spec

\* A client never sees an event after the terminal one, nor a terminal event
\* of a job that goes on: the receive loops of the router may stop at it.
THEOREM TerminalIsLast == Spec => []TerminalLast
<1>1. Inv => TerminalLast
  BY DEF Inv, JobOK, TerminalLast, WellEnded, Unended
<1>2. QED
  BY <1>1, ServiceInvariant, PTL

\* A job that ended left its terminal event with every client that stayed
\* connected and kept reading.
THEOREM AlwaysAnswered == Spec => []AnsweredOnce
<1>1. Inv => AnsweredOnce
  BY DEF Inv, JobOK, AnsweredOnce, Concluded
<1>2. QED
  BY <1>1, ServiceInvariant, PTL

=============================================================================
