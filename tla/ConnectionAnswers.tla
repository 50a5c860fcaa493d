------------------------- MODULE ConnectionAnswers --------------------------
(* Steps of Connection keep every answer asked for and, if the wallet does not
   reuse ids, the only one for its id. *)
EXTENDS ConnectionSteps

-----------------------------------------------------------------------------
(* Requests and answers *)

\* The events the model counts.
LEMMA EventNames ==
    /\ "query" \in Events /\ "broadcast" \in Events /\ "written" \in Events
    /\ "called" \in Events /\ "forwarded" \in Events /\ "relayed" \in Events
    /\ "late" \in Events
BY DEF Events

\* Counting an event moves one counter by one.
LEMMA CountEffect ==
    ASSUME TypeOK, NEW e \in Events, NEW k \in Keys, Count(e, k),
           NEW f \in Events, NEW j \in Keys
    PROVE  /\ tally[f][j] \in Nat
           /\ tally'[f][j] = IF f = e /\ j = k THEN tally[f][j] + 1 ELSE tally[f][j]
BY DEF TypeOK, Count

\* No step enqueues an answer that no request has paid for.
LEMMA BudgetStep ==
    TypeOK /\ LocalInv /\ AnswerBudget /\ [Next]_vars => AnswerBudget'
<1> SUFFICES ASSUME TypeOK, LocalInv, AnswerBudget, [Next]_vars,
                    NEW i \in Ids
             PROVE  (/\ tally["forwarded"][i] + B(pending[i] = "Upstream")
                          + B(upstream = "send" /\ upFrame.id = i) <= tally["query"][i]
                     /\ tally["relayed"][i]
                          + B(client \in {"await", "release", "send"} /\ cur.id = i)
                          <= tally["called"][i]
                     /\ tally["called"][i] + B(client = "relay" /\ cur.id = i)
                          <= tally["broadcast"][i])'
  BY DEF AnswerBudget
<1> DEFINE n(e) == tally[e][i]
           Same(e) == tally'[e][i] = tally[e][i]
           More(e) == tally'[e][i] = tally[e][i] + 1
           waits == B(pending[i] = "Upstream")
           moves == B(upstream = "send" /\ upFrame.id = i)
           owed == B(client \in {"await", "release", "send"} /\ cur.id = i)
           asked == B(client = "relay" /\ cur.id = i)
           Budget == /\ n("forwarded") + waits + moves <= n("query")
                     /\ n("relayed") + owed <= n("called")
                     /\ n("called") + asked <= n("broadcast")
<1> SUFFICES Budget'
  OBVIOUS
<1>0. i \in Keys /\ i # NoId /\ NoId \in Keys /\ cur.id \in Keys
  BY ConnectionAssumption, CurHasKey DEF Keys
<1>a. Budget
  BY DEF AnswerBudget
<1>b. n("forwarded") \in Nat /\ n("query") \in Nat /\ n("relayed") \in Nat
      /\ n("called") \in Nat /\ n("broadcast") \in Nat
  BY <1>0, EventNames DEF TypeOK
<1>c. waits \in {0, 1} /\ moves \in {0, 1} /\ owed \in {0, 1} /\ asked \in {0, 1}
  BY DEF B
<1> HIDE DEF waits, moves, owed, asked
<1>1. CASE ClientActs
  <2>0. UNCHANGED <<upstream, upFrame>>
    BY <1>1, ClientFrame
  <2>1. CASE ClientSelect \/ ClientIdle \/ ClientQuits
    <3>1. UNCHANGED <<tally, pending>> /\ client' \in {"select", "read", "ended"}
      BY <2>1 DEF ClientSelect, ClientIdle, ClientQuits, ClientGoesTo, AfterShutdownPoll,
         OnlyClient
    <3>2. waits' = waits /\ moves' = moves /\ owed' = 0 /\ asked' = 0
      BY <3>1, <2>0 DEF B, waits, moves, owed, asked
    <3> QED
      BY <3>1, <3>2, <1>a, <1>b, <1>c
  <2>2. ASSUME NEW f \in WalletFrames, ClientRead(f) PROVE Budget'
    <3>1. UNCHANGED tally \/ Count("late", NoId)
      BY <2>2 DEF ClientRead
    <3>2. Same("forwarded") /\ Same("query") /\ Same("relayed") /\ Same("called")
          /\ Same("broadcast")
      BY <3>1, <1>0, EventNames, CountEffect
    <3>3. UNCHANGED pending /\ client' \in {"reserve", "write", "relay", "refuse"}
          /\ (client' = "relay" => cur'.id = NoId)
      BY <2>2 DEF ClientRead, Route
    <3>4. waits' = waits /\ moves' = moves /\ owed' = 0 /\ asked' = 0
      BY <3>3, <2>0, <1>0 DEF B, waits, moves, owed, asked
    <3> QED
      BY <3>2, <3>4, <1>a, <1>b, <1>c
  <2>3. CASE ClientReserve
    <3>0. cur.id \in Ids /\ cur.kind \in {"query", "broadcast"} /\ client = "reserve"
      BY <2>3 DEF ClientReserve, LocalInv
    <3>1. CASE client' = "refuse"
      <4>1. UNCHANGED <<tally, pending>>
        BY <2>3, <3>0, <3>1 DEF ClientReserve, ClientRefuses
      <4>2. waits' = waits /\ moves' = moves /\ owed' = 0 /\ asked' = 0
        BY <4>1, <3>1, <2>0 DEF B, waits, moves, owed, asked
      <4> QED
        BY <4>1, <4>2, <1>a, <1>b, <1>c
    <3>2. CASE client' # "refuse"
      <4>1. /\ pending[cur.id] = "None" /\ Count(cur.kind, cur.id) /\ cur' = cur
            /\ pending' = [pending EXCEPT ![cur.id] =
                             IF cur.kind = "query" THEN "Upstream" ELSE "Broadcast"]
            /\ client' = IF cur.kind = "query" THEN "write" ELSE "relay"
        BY <2>3, <3>2 DEF ClientReserve, ClientRefuses
      <4>2. /\ Same("forwarded") /\ Same("relayed") /\ Same("called")
            /\ IF cur.kind = "query" /\ i = cur.id THEN More("query") ELSE Same("query")
            /\ IF cur.kind = "broadcast" /\ i = cur.id THEN More("broadcast")
               ELSE Same("broadcast")
        BY <3>0, <4>1, <1>0, EventNames, CountEffect
      <4>3. pending'[i] = IF i # cur.id THEN pending[i]
                          ELSE IF cur.kind = "query" THEN "Upstream" ELSE "Broadcast"
        BY <4>1, <3>0 DEF TypeOK
      <4>4. /\ moves' = moves /\ owed' = 0
            /\ waits' = IF cur.kind = "query" /\ i = cur.id THEN waits + 1 ELSE waits
            /\ asked' = IF cur.kind = "broadcast" /\ i = cur.id THEN 1 ELSE 0
        BY <3>0, <4>1, <4>3, <2>0 DEF B, waits, moves, owed, asked
      <4> QED
        BY <3>0, <4>2, <4>4, <1>a, <1>b, <1>c
    <3> QED
      BY <3>1, <3>2
  <2>4. CASE ClientWrite
    <3>1. Count("written", cur.id) /\ client' = "select" /\ UNCHANGED pending
      BY <2>4 DEF ClientWrite, ClientGoesTo
    <3>2. Same("forwarded") /\ Same("query") /\ Same("relayed") /\ Same("called")
          /\ Same("broadcast")
      BY <3>1, <1>0, EventNames, CountEffect
    <3>3. waits' = waits /\ moves' = moves /\ owed' = 0 /\ asked' = 0
      BY <3>1, <2>0 DEF B, waits, moves, owed, asked
    <3> QED
      BY <3>2, <3>3, <1>a, <1>b, <1>c
  <2>5. CASE ClientSubmit
    <3>1. /\ Count("called", cur.id) /\ client = "relay" /\ client' = "await"
          /\ UNCHANGED <<cur, pending>>
      BY <2>5 DEF ClientSubmit
    <3>2. /\ Same("forwarded") /\ Same("query") /\ Same("relayed") /\ Same("broadcast")
          /\ IF i = cur.id THEN More("called") ELSE Same("called")
      BY <3>1, <1>0, EventNames, CountEffect
    <3>3. /\ waits' = waits /\ moves' = moves /\ asked' = 0 /\ owed = 0
          /\ IF i = cur.id THEN owed' = 1 /\ asked = 1 ELSE owed' = 0 /\ asked = 0
      BY <3>1, <2>0 DEF B, waits, moves, owed, asked
    <3> QED
      BY <3>2, <3>3, <1>a, <1>b, <1>c
  <2>6. CASE RelayReturns
    <3>1. /\ client = "await" /\ client' \in {"send", "release"}
          /\ UNCHANGED <<cur, pending, tally>>
      BY <2>6 DEF RelayReturns, AfterRelay, OnlyClient
    <3>2. waits' = waits /\ moves' = moves /\ owed' = owed /\ asked' = 0
      BY <3>1, <2>0 DEF B, waits, moves, owed, asked
    <3> QED
      BY <3>1, <3>2, <1>a, <1>b, <1>c
  <2>7. CASE ClientRelease
    <3>1. pending'[i] \in {pending[i], "None"}
      BY <2>7 DEF ClientRelease, TableWithoutBroadcast, TypeOK
    <3>2. client = "release" /\ client' = "send" /\ UNCHANGED <<cur, tally>>
      BY <2>7 DEF ClientRelease
    <3>3. waits' \in {waits, 0} /\ moves' = moves /\ owed' = owed /\ asked' = 0
      BY <3>1, <3>2, <2>0 DEF B, waits, moves, owed, asked
    <3> QED
      BY <3>2, <3>3, <1>a, <1>b, <1>c
  <2>8. CASE ClientSend
    <3>0. client' \in {"select", "ended"} /\ UNCHANGED pending
      BY <2>8 DEF ClientSend, ClientGoesTo
    <3>1. CASE UNCHANGED tally
      <4>1. waits' = waits /\ moves' = moves /\ owed' = 0 /\ asked' = 0
        BY <3>0, <2>0 DEF B, waits, moves, owed, asked
      <4> QED
        BY <3>1, <4>1, <1>a, <1>b, <1>c
    <3>2. CASE client = "send" /\ Count("relayed", reply.id)
      <4>1. reply.id = cur.id
        BY <3>2 DEF LocalInv
      <4>2. /\ Same("forwarded") /\ Same("query") /\ Same("called") /\ Same("broadcast")
            /\ IF i = cur.id THEN More("relayed") ELSE Same("relayed")
        BY <3>2, <4>1, <1>0, EventNames, CountEffect
      <4>3. /\ waits' = waits /\ moves' = moves /\ owed' = 0 /\ asked' = 0
            /\ owed = IF i = cur.id THEN 1 ELSE 0
        BY <3>0, <3>2, <2>0 DEF B, waits, moves, owed, asked
      <4> QED
        BY <4>2, <4>3, <1>a, <1>b, <1>c
    <3> QED
      BY <2>8, <3>1, <3>2 DEF ClientSend
  <2> QED
    BY <1>1, <2>1, <2>2, <2>3, <2>4, <2>5, <2>6, <2>7, <2>8 DEF ClientActs, ClientStep
<1>2. CASE UpstreamActs
  <2>0. UNCHANGED <<client, cur>>
    BY <1>2, UpstreamFrame
  <2>1. CASE UpstreamCloses \/ \E k \in Keys : UpstreamRead(k)
    <3>1. /\ UNCHANGED <<pending, tally>>
          /\ upstream' = "send" => upFrame'.id = NoId
      BY <2>1 DEF UpstreamRead, UpstreamCloses
    <3>2. waits' = waits /\ moves' = 0 /\ owed' = owed /\ asked' = asked
      BY <3>1, <2>0, <1>0 DEF B, waits, moves, owed, asked
    <3> QED
      BY <3>1, <3>2, <1>a, <1>b, <1>c
  <2>2. CASE UpstreamCorrelate
    <3>1. CASE MatchesQuery(upFrame.id)
      <4>1. /\ pending'[i] = IF i = upFrame.id THEN "None" ELSE pending[i]
            /\ upstream = "correlate" /\ upstream' = "send"
            /\ UNCHANGED <<upFrame, tally>> /\ pending[upFrame.id] = "Upstream"
        BY <2>2, <3>1 DEF UpstreamCorrelate, TableWithoutQuery, MatchesQuery, TypeOK
      <4>2. /\ IF i = upFrame.id THEN waits = 1 /\ waits' = 0 /\ moves' = 1
               ELSE waits' = waits /\ moves' = 0
            /\ moves = 0 /\ owed' = owed /\ asked' = asked
        BY <4>1, <2>0 DEF B, waits, moves, owed, asked
      <4> QED
        BY <4>1, <4>2, <1>a, <1>b, <1>c
    <3>2. CASE ~MatchesQuery(upFrame.id)
      <4>1. upstream' = "read" /\ UNCHANGED <<pending, tally>>
        BY <2>2, <3>2 DEF UpstreamCorrelate
      <4>2. waits' = waits /\ moves' = 0 /\ owed' = owed /\ asked' = asked
        BY <4>1, <2>0 DEF B, waits, moves, owed, asked
      <4> QED
        BY <4>1, <4>2, <1>a, <1>b, <1>c
    <3> QED
      BY <3>1, <3>2
  <2>3. CASE UpstreamSend
    <3>0. upstream = "send" /\ upstream' # "send" /\ UNCHANGED pending
      BY <2>3 DEF UpstreamSend
    <3>1. CASE UNCHANGED tally
      <4>1. waits' = waits /\ moves' = 0 /\ owed' = owed /\ asked' = asked
        BY <3>0, <2>0 DEF B, waits, moves, owed, asked
      <4> QED
        BY <3>1, <4>1, <1>a, <1>b, <1>c
    <3>2. CASE Count("forwarded", upFrame.id)
      <4>1. upFrame.id \in Keys
        BY <3>0, CurHasKey
      <4>2. /\ Same("query") /\ Same("relayed") /\ Same("called") /\ Same("broadcast")
            /\ IF i = upFrame.id THEN More("forwarded") ELSE Same("forwarded")
        BY <3>2, <4>1, <1>0, EventNames, CountEffect
      <4>3. /\ waits' = waits /\ moves' = 0 /\ owed' = owed /\ asked' = asked
            /\ moves = IF i = upFrame.id THEN 1 ELSE 0
        BY <3>0, <2>0 DEF B, waits, moves, owed, asked
      <4> QED
        BY <4>2, <4>3, <1>a, <1>b, <1>c
    <3> QED
      BY <2>3, <3>1, <3>2 DEF UpstreamSend
  <2> QED
    BY <1>2, <2>1, <2>2, <2>3 DEF UpstreamActs, UpstreamStep
<1>3. CASE WriterActs \/ SupervisorActs \/ UNCHANGED vars
  <2>1. UNCHANGED <<tally, pending, upstream, upFrame, client, cur>>
    BY <1>3, WriterFrame, SupervisorFrame, StutterFrame
  <2> QED
    BY <2>1, <1>a DEF waits, moves, owed, asked
<1>4. CASE Cancellations
  <2>1. /\ UNCHANGED <<tally, pending>>
        /\ client' = "ended" \/ UNCHANGED <<client, cur>>
        /\ upstream' = "ended" \/ UNCHANGED <<upstream, upFrame>>
    BY <1>4, CancellationFrame
  <2>2. /\ waits' = waits /\ moves' \in {moves, 0}
        /\ owed' \in {owed, 0} /\ asked' \in {asked, 0}
    BY <2>1 DEF B, waits, moves, owed, asked
  <2> QED
    BY <2>1, <2>2, <1>a, <1>b, <1>c
<1> QED
  BY <1>1, <1>2, <1>3, <1>4, Actors

-----------------------------------------------------------------------------
(* One answer for each id, if the wallet does not reuse ids *)

\* Where the answer to id i, or the request it is for, can be.
WithClient(i) ==
    \/ client \in {"reserve", "relay", "await", "release", "send"} /\ cur.id = i
    \/ client = "refuse" /\ reply.id = i
WithTable(i) == pending[i] = "Upstream"
WithUpstream(i) == upstream = "send" /\ upFrame.id = i
WithWriter(i) == writer = "write" /\ writing.id = i
InChannel(i, n) == output[n].id = i

\* It is in one place at most, and the wallet still waits for it.
OneAnswer(i) ==
    /\ WithClient(i) => ~WithTable(i) /\ ~WithUpstream(i) /\ ~WithWriter(i)
    /\ WithTable(i) => ~WithUpstream(i) /\ ~WithWriter(i)
    /\ WithUpstream(i) => ~WithWriter(i)
    /\ \A n \in 1..Len(output) : InChannel(i, n) =>
          /\ ~WithClient(i) /\ ~WithTable(i) /\ ~WithUpstream(i) /\ ~WithWriter(i)
          /\ \A m \in 1..Len(output) : InChannel(i, m) => m = n
          /\ i \in unanswered
    /\ WithClient(i) \/ WithTable(i) \/ WithUpstream(i) \/ WithWriter(i) => i \in unanswered

\* An answer that stays in its place, or is dropped.
LEMMA AnswerKept ==
    ASSUME NEW i \in Ids, OneAnswer(i), UNCHANGED <<output, unanswered>>,
           WithClient(i)' => WithClient(i), WithTable(i)' => WithTable(i),
           WithUpstream(i)' => WithUpstream(i), WithWriter(i)' => WithWriter(i)
    PROVE  OneAnswer(i)'
BY DEF OneAnswer, InChannel

\* What the channel holds after a frame was put at its end.
LEMMA Appended ==
    ASSUME NEW S, NEW s \in Seq(S), NEW r \in S
    PROVE  /\ Len(s) \in Nat /\ Len(Append(s, r)) = Len(s) + 1
           /\ Append(s, r)[Len(s) + 1] = r
           /\ \A n \in 1..Len(s) : Append(s, r)[n] = s[n]
           /\ \A n \in 1..Len(Append(s, r)) : n \in 1..Len(s) \/ n = Len(s) + 1
OBVIOUS

\* What the channel holds after its oldest frame was taken.
LEMMA TailOfChannel ==
    ASSUME NEW S, NEW s \in Seq(S), s # <<>>
    PROVE  /\ Len(s) \in Nat /\ Len(s) > 0 /\ Len(Tail(s)) = Len(s) - 1
           /\ Head(s) = s[1]
           /\ \A n \in 1..Len(Tail(s)) : Tail(s)[n] = s[n + 1]
OBVIOUS

\* An answer that is sent through the channel leaves its task.
LEMMA AnswerEnqueued ==
    ASSUME TypeOK, NEW i \in Ids, OneAnswer(i), NEW r \in Responses, Enqueue(r),
           UNCHANGED unanswered,
           WithClient(i)' => WithClient(i), WithTable(i)' => WithTable(i),
           WithUpstream(i)' => WithUpstream(i), WithWriter(i)' => WithWriter(i),
           r.id = i => \/ WithClient(i) /\ ~WithClient(i)'
                       \/ WithUpstream(i) /\ ~WithUpstream(i)'
    PROVE  OneAnswer(i)'
<1>1. /\ Len(output') = Len(output) + 1
      /\ output'[Len(output) + 1] = r
      /\ \A n \in 1..Len(output) : output'[n] = output[n]
      /\ \A n \in 1..Len(output') : n \in 1..Len(output) \/ n = Len(output) + 1
  <2>1. output \in Seq(Responses) /\ output' = Append(output, r)
    BY DEF TypeOK, Enqueue
  <2>2. /\ Len(output') = Len(output) + 1
        /\ output'[Len(output) + 1] = r
        /\ \A n \in 1..Len(output) : output'[n] = output[n]
    BY <2>1, Appended
  <2>3. \A n \in 1..Len(output') : n \in 1..Len(output) \/ n = Len(output) + 1
    BY <2>1, Appended, Zenon
  <2> QED
    BY <2>2, <2>3, Zenon
<1>2. CASE r.id # i
  <2>1. \A n \in 1..Len(output') :
            InChannel(i, n)' => n \in 1..Len(output) /\ InChannel(i, n)
    BY <1>1, <1>2, Zenon DEF InChannel
  <2> QED
    BY <2>1, Zenon DEF OneAnswer
<1>3. CASE r.id = i
  <2>1. \A n \in 1..Len(output) : ~InChannel(i, n)
    BY <1>3 DEF OneAnswer
  <2>2. ~WithClient(i)' /\ ~WithTable(i)' /\ ~WithUpstream(i)' /\ ~WithWriter(i)'
        /\ i \in unanswered
    BY <1>3 DEF OneAnswer
  <2>3. \A n \in 1..Len(output') : InChannel(i, n)' => n = Len(output')
    BY <1>1, <2>1, Zenon DEF InChannel
  <2> QED
    BY <2>2, <2>3, Zenon DEF OneAnswer
<1> QED
  BY <1>2, <1>3

\* The writer takes the oldest answer out of the channel.
LEMMA AnswerReceived ==
    ASSUME TypeOK, NEW i \in Ids, OneAnswer(i), WriterRecv
    PROVE  OneAnswer(i)'
<1>1. /\ Len(output) \in Nat /\ Len(output) > 0 /\ Len(output') = Len(output) - 1
      /\ writing' = output[1]
      /\ \A n \in 1..Len(output') : output'[n] = output[n + 1]
  <2>1. output \in Seq(Responses) /\ output # <<>>
    BY DEF TypeOK, WriterRecv
  <2>2. output' = Tail(output) /\ writing' = Head(output)
    BY DEF WriterRecv
  <2> QED
    BY <2>1, <2>2, TailOfChannel, Zenon
<1>2. /\ WithClient(i)' <=> WithClient(i)
      /\ WithTable(i)' <=> WithTable(i)
      /\ WithUpstream(i)' <=> WithUpstream(i)
      /\ WithWriter(i)' <=> InChannel(i, 1)
      /\ ~WithWriter(i)
      /\ UNCHANGED unanswered
  BY <1>1 DEF WriterRecv, WithClient, WithTable, WithUpstream, WithWriter, InChannel,
              clientVars, upstreamVars, inputVars
<1>3. \A n \in 1..Len(output') : InChannel(i, n)' => InChannel(i, n + 1)
  BY <1>1 DEF InChannel
<1>4. \A n \in 1..Len(output') : n + 1 \in 1..Len(output) /\ n + 1 # 1
  BY <1>1
<1>5. 1 \in 1..Len(output)
  BY <1>1
<1> QED
  BY <1>2, <1>3, <1>4, <1>5 DEF OneAnswer

\* The wallet has its answer, and there is no other.
LEMMA AnswerWritten ==
    ASSUME NEW i \in Ids, OneAnswer(i), WriterWrite
    PROVE  OneAnswer(i)'
<1>1. /\ WithClient(i)' <=> WithClient(i)
      /\ WithTable(i)' <=> WithTable(i)
      /\ WithUpstream(i)' <=> WithUpstream(i)
      /\ ~WithWriter(i)'
      /\ output' = output /\ unanswered' = unanswered \ {writing.id}
      /\ writing.id = i => WithWriter(i)
  BY DEF WriterWrite, WithClient, WithTable, WithUpstream, WithWriter, clientVars,
         upstreamVars
<1> QED
  BY <1>1 DEF OneAnswer, InChannel

\* The client task's steps: a new request has no answer anywhere yet.
LEMMA AnswerClientStep ==
    ASSUME TypeOK, LocalInv, ~WalletReusesIds, NEW i \in Ids, OneAnswer(i), ClientActs
    PROVE  OneAnswer(i)'
<1>0. i # NoId
  BY ConnectionAssumption
<1>1. WithUpstream(i)' <=> WithUpstream(i)
  BY ClientFrame DEF WithUpstream
<1>2. WithWriter(i)' <=> WithWriter(i)
  BY ClientFrame DEF WithWriter
<1>3. CASE ClientSelect \/ ClientIdle \/ ClientQuits \/ ClientWrite
  <2>1. ~WithClient(i)' /\ pending' = pending /\ UNCHANGED <<output, unanswered>>
    BY <1>3 DEF ClientSelect, ClientIdle, ClientQuits, ClientWrite, ClientGoesTo,
                AfterShutdownPoll, OnlyClient, WithClient, flowVars, inputVars
  <2> QED
    BY <1>1, <1>2, <2>1, AnswerKept DEF WithTable
<1>4. ASSUME NEW f \in WalletFrames, ClientRead(f) PROVE OneAnswer(i)'
  <2>1. /\ f.id \notin unanswered /\ unanswered' = unanswered \cup ({f.id} \cap Ids)
        /\ UNCHANGED <<pending, output>>
    BY <1>4 DEF ClientRead, flowVars
  <2>2. ~WithClient(i)
    BY <1>4 DEF ClientRead, WithClient
  <2>3. WithClient(i)' => f.id = i
    BY <1>0, <1>4 DEF ClientRead, Route, WithClient
  <2>4. WithTable(i)' <=> WithTable(i)
    BY <2>1 DEF WithTable
  <2>5. CASE f.id # i
    <3>1. ~WithClient(i)' /\ (i \in unanswered <=> i \in unanswered')
      BY <2>1, <2>3, <2>5
    <3> QED
      BY <1>1, <1>2, <2>1, <2>4, <3>1 DEF OneAnswer, InChannel
  <2>6. CASE f.id = i
    <3>1. /\ ~WithTable(i) /\ ~WithUpstream(i) /\ ~WithWriter(i)
          /\ \A n \in 1..Len(output) : ~InChannel(i, n)
      BY <2>1, <2>6 DEF OneAnswer
    <3>2. i \in unanswered'
      BY <2>1, <2>6
    <3> QED
      BY <1>1, <1>2, <2>1, <2>4, <3>1, <3>2 DEF OneAnswer, InChannel
  <2> QED
    BY <2>5, <2>6
<1>5. CASE ClientReserve
  <2>0. client = "reserve" /\ cur.id \in Ids /\ UNCHANGED <<output, unanswered>>
    BY <1>5 DEF ClientReserve, LocalInv, flowVars, inputVars
  <2>1. CASE client' = "refuse"
    <3>1. pending' = pending /\ reply'.id \in {NoId, cur.id}
      BY <1>5, <2>0, <2>1 DEF ClientReserve, ClientRefuses
    <3>2. WithClient(i)' => WithClient(i)
      BY <1>0, <2>0, <2>1, <3>1 DEF WithClient
    <3> QED
      BY <1>1, <1>2, <2>0, <3>1, <3>2, AnswerKept DEF WithTable
  <2>2. CASE client' # "refuse"
    <3>1. /\ cur' = cur /\ client' = IF cur.kind = "query" THEN "write" ELSE "relay"
          /\ pending' = [pending EXCEPT ![cur.id] =
                           IF cur.kind = "query" THEN "Upstream" ELSE "Broadcast"]
      BY <1>5, <2>2 DEF ClientReserve, ClientRefuses
    <3>2. /\ WithClient(i)' => WithClient(i)
          /\ WithTable(i)' => WithTable(i) \/ (WithClient(i) /\ ~WithClient(i)')
      BY <2>0, <3>1 DEF WithClient, WithTable, TypeOK
    <3> QED
      BY <1>1, <1>2, <2>0, <3>2 DEF OneAnswer, InChannel
  <2> QED
    BY <2>1, <2>2
<1>6. CASE ClientSubmit \/ RelayReturns \/ ClientRelease
  <2>1. /\ WithClient(i)' => WithClient(i)
        /\ WithTable(i)' => WithTable(i)
        /\ UNCHANGED <<output, unanswered>>
    BY <1>6 DEF ClientSubmit, RelayReturns, AfterRelay, ClientRelease, TableWithoutBroadcast,
                OnlyClient, WithClient, WithTable, TypeOK, flowVars, inputVars
  <2> QED
    BY <1>1, <1>2, <2>1, AnswerKept
<1>7. CASE ClientSend
  <2>1. /\ ~WithClient(i)' /\ UNCHANGED <<pending, unanswered>>
        /\ reply.id = i => WithClient(i)
        /\ reply \in Responses
    <3>1. /\ client \in {"send", "refuse"} /\ client' \in {"select", "ended"}
          /\ UNCHANGED <<pending, unanswered>>
      BY <1>7 DEF ClientSend, ClientGoesTo, inputVars
    <3>2. ~WithClient(i)'
      BY <3>1 DEF WithClient
    <3>3. (reply.id = i => WithClient(i)) /\ reply \in Responses
      BY <3>1, CurHasKey, FrameTypes DEF WithClient, LocalInv
    <3> QED
      BY <3>1, <3>2, <3>3
  <2>2. WithTable(i)' <=> WithTable(i)
    BY <2>1 DEF WithTable
  <2>3. CASE output' = output
    BY <1>1, <1>2, <2>1, <2>2, <2>3, AnswerKept
  <2>4. CASE Enqueue(reply)
    BY <1>1, <1>2, <2>1, <2>2, <2>4, AnswerEnqueued
  <2> QED
    BY <1>7, <2>3, <2>4 DEF ClientSend, flowVars
<1> QED
  BY <1>3, <1>4, <1>5, <1>6, <1>7 DEF ClientActs, ClientStep

\* The upstream task's steps: a matched entry becomes its response.
LEMMA AnswerUpstreamStep ==
    ASSUME TypeOK, LocalInv, NEW i \in Ids, OneAnswer(i), UpstreamActs
    PROVE  OneAnswer(i)'
<1>0. i # NoId
  BY ConnectionAssumption
<1>1. (WithClient(i)' <=> WithClient(i)) /\ (WithWriter(i)' <=> WithWriter(i))
  BY UpstreamFrame DEF WithClient, WithWriter
<1>2. UNCHANGED unanswered
  BY DEF UpstreamActs, UpstreamStep, UpstreamCorrelate, UpstreamSend, UpstreamCloses,
         UpstreamRead, inputVars
<1>3. CASE UpstreamCloses \/ \E k \in Keys : UpstreamRead(k)
  <2>1. ~WithUpstream(i)' /\ UNCHANGED <<pending, output>>
    BY <1>0, <1>3 DEF UpstreamCloses, UpstreamRead, WithUpstream, flowVars
  <2> QED
    BY <1>1, <1>2, <2>1, AnswerKept DEF WithTable
<1>4. CASE UpstreamCorrelate
  <2>1. /\ output' = output
        /\ WithTable(i)' => WithTable(i)
        /\ WithUpstream(i)' => WithTable(i) /\ ~WithTable(i)'
    BY <1>4 DEF UpstreamCorrelate, MatchesQuery, TableWithoutQuery, WithTable, WithUpstream,
                TypeOK, flowVars
  <2> QED
    BY <1>1, <1>2, <2>1 DEF OneAnswer, InChannel
<1>5. CASE UpstreamSend
  <2>1. /\ ~WithUpstream(i)' /\ UNCHANGED pending /\ upFrame \in Responses
        /\ upFrame.id = i => WithUpstream(i)
    BY <1>5 DEF UpstreamSend, WithUpstream, LocalInv
  <2>2. WithTable(i)' <=> WithTable(i)
    BY <2>1 DEF WithTable
  <2>3. CASE output' = output
    BY <1>1, <1>2, <2>1, <2>2, <2>3, AnswerKept
  <2>4. CASE Enqueue(upFrame)
    BY <1>1, <1>2, <2>1, <2>2, <2>4, AnswerEnqueued
  <2> QED
    BY <1>5, <2>3, <2>4 DEF UpstreamSend, flowVars
<1> QED
  BY <1>3, <1>4, <1>5 DEF UpstreamActs, UpstreamStep

\* Every step keeps each id's answer unique.
LEMMA AnswerStep ==
    ASSUME TypeOK, LocalInv, ~WalletReusesIds, NEW i \in Ids, OneAnswer(i), [Next]_vars
    PROVE  OneAnswer(i)'
<1>1. CASE WriterActs
  <2>1. CASE WriterFails \/ WriterFinishes
    <3>1. /\ WithClient(i)' <=> WithClient(i)
          /\ WithTable(i)' <=> WithTable(i)
          /\ WithUpstream(i)' <=> WithUpstream(i)
          /\ ~WithWriter(i)' /\ UNCHANGED <<output, unanswered>>
      BY <2>1 DEF WriterFails, WriterFinishes, WithClient, WithTable, WithUpstream, WithWriter,
                  clientVars, upstreamVars, flowVars, inputVars
    <3> QED
      BY <3>1, AnswerKept
  <2> QED
    BY <1>1, <2>1, AnswerReceived, AnswerWritten DEF WriterActs, WriterStep
<1>2. CASE SupervisorActs \/ UNCHANGED vars
  <2>1. UNCHANGED unanswered
    BY <1>2 DEF SupervisorActs, SupervisorStep, SupervisorSelect, SupervisorReap,
                SupervisorFlushed, SupervisorFlushExpires, SupervisorCancelled,
                ShutdownSignal, OnlySupervisor, vars, inputVars
  <2>2. /\ WithClient(i)' <=> WithClient(i)
        /\ WithTable(i)' <=> WithTable(i)
        /\ WithUpstream(i)' <=> WithUpstream(i)
        /\ WithWriter(i)' <=> WithWriter(i)
        /\ output' = output
    BY <1>2, SupervisorFrame, StutterFrame DEF WithClient, WithTable, WithUpstream, WithWriter
  <2> QED
    BY <2>1, <2>2, AnswerKept
<1>3. CASE Cancellations
  <2>1. UNCHANGED unanswered
    BY <1>3 DEF Cancellations, TaskCancelled, inputVars
  <2>2. /\ WithClient(i)' => WithClient(i)
        /\ WithTable(i)' => WithTable(i)
        /\ WithUpstream(i)' => WithUpstream(i)
        /\ WithWriter(i)' => WithWriter(i)
        /\ output' = output
    BY <1>3, CancellationFrame DEF WithClient, WithTable, WithUpstream, WithWriter
  <2> QED
    BY <2>1, <2>2, AnswerKept
<1> QED
  BY <1>1, <1>2, <1>3, AnswerClientStep, AnswerUpstreamStep, Actors

\* Only the upstream task forwards a response, the one it holds.
LEMMA ForwardedBy ==
    ASSUME TypeOK, LocalInv, [Next]_vars, NEW i \in Ids,
           tally'["forwarded"][i] # tally["forwarded"][i]
    PROVE  WithUpstream(i)
<1>0. i \in Keys /\ NoId \in Keys /\ cur.id \in Keys /\ reply.id \in Keys /\ upFrame.id \in Keys
  BY CurHasKey DEF Keys
<1>1. CASE ClientActs
  <2>1. \/ UNCHANGED tally
        \/ Count("late", NoId) \/ Count("written", cur.id) \/ Count("called", cur.id)
        \/ Count("relayed", reply.id)
        \/ Count(cur.kind, cur.id) /\ cur.kind \in {"query", "broadcast"}
    BY <1>1 DEF ClientActs, ClientStep, ClientSelect, ClientIdle, ClientReserve, ClientSubmit,
                RelayReturns, ClientRelease, ClientSend, ClientQuits, ClientWrite, ClientRead,
                OnlyClient, LocalInv
  <2> QED
    BY <1>0, <2>1, EventNames, CountEffect
<1>2. CASE UpstreamActs
  <2>1. UNCHANGED tally \/ (upstream = "send" /\ Count("forwarded", upFrame.id))
    BY <1>2 DEF UpstreamActs, UpstreamStep, UpstreamCorrelate, UpstreamSend, UpstreamCloses,
       UpstreamRead
  <2>2. CASE upstream = "send" /\ Count("forwarded", upFrame.id)
    <3>1. i = upFrame.id
      BY <1>0, <2>2, EventNames DEF Count, TypeOK
    <3> QED
      BY <2>2, <3>1 DEF WithUpstream
  <2> QED
    BY <2>1, <2>2
<1>3. CASE WriterActs \/ SupervisorActs \/ Cancellations \/ UNCHANGED vars
  BY <1>3, WriterFrame, SupervisorFrame, CancellationFrame, StutterFrame
<1> QED
  BY <1>1, <1>2, <1>3, Actors

=============================================================================
