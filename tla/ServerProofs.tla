------------------------------ MODULE ServerProofs ------------------------------
(***************************************************************************)
(* Proofs about two parts of mcp-server: the digests of unread chats       *)
(* (UnreadDigest) and the sessions of MCP clients (McpSessions).           *)
(***************************************************************************)
EXTENDS UnreadDigest, McpSessions, FiniteSetTheorems, SequenceTheorems, TLAPS

(***************************************************************************)
(* UnreadDigest.  A checkpoint is written over whatever the row has become *)
(* since it was read: that does no harm because every row a call has in    *)
(* hand, read or made, is whole by itself.                                 *)
(***************************************************************************)
Covers(r) ==
  LET n == Len(r.partials)
  IN /\ r.next = (IF n = 0 THEN 0 ELSE r.partials[n].to)
     /\ r.next <= r.total
     /\ \A i \in 1 .. n :
          /\ r.partials[i].from = (IF i = 1 THEN 0 ELSE r.partials[i - 1].to)
          /\ r.partials[i].from < r.partials[i].to
     /\ r.status = "completed" => r.next = r.total

Warned(r) ==
  /\ \A i \in 1 .. Len(r.partials) : Unreadable(r.partials[i].unreadable) \subseteq r.warnings
  /\ r.exists /\ r.total = 0 => r.warnings # {}

Whole(r) == IsRow(r) /\ Covers(r) /\ Warned(r)

InHand(q) ==
  /\ q.at \in {"none", "load", "work", "write"}
  /\ q.at = "work" => Whole(q.seen) /\ q.seen.status = "in_progress"
  /\ q.at = "write" => Whole(q.made)

DigestIInv ==
  /\ Whole(row) /\ failures \in 0 .. MaxFailures
  /\ DOMAIN call = Calls /\ \A c \in Calls : InHand(call[c])

-----------------------------------------------------------------------------
LEMMA NoRowIsWhole == Whole(NoRow)
<1>1. IsRow(NoRow)
  BY BoundsAreNatural, EmptySeq DEF IsRow, NoRow
<1>2. Len(NoRow.partials) = 0 /\ NoRow.next = 0 /\ NoRow.total = 0 /\ NoRow.status = "in_progress"
  BY EmptySeq DEF NoRow
<1>3. Covers(NoRow)
  BY <1>2 DEF Covers
<1>4. Warned(NoRow)
  BY <1>2 DEF Warned, NoRow
<1> QED
  BY <1>1, <1>3, <1>4 DEF Whole

LEMMA DigestInit == Init => DigestIInv
<1> SUFFICES ASSUME Init PROVE DigestIInv
  OBVIOUS
<1>1. Whole(row)
  BY NoRowIsWhole DEF Init
<1>2. failures \in 0 .. MaxFailures
  BY BoundsAreNatural DEF Init
<1>3. DOMAIN call = Calls /\ \A c \in Calls : InHand(call[c])
  BY DEF Init, InHand, NoCall
<1> QED
  BY <1>1, <1>2, <1>3 DEF DigestIInv

\* A row of which only the batch's size changes is as whole as it was.
LEMMA SizeAside ==
  ASSUME NEW r, Whole(r), NEW size \in 1 .. MaxBatch
  PROVE  Whole([r EXCEPT !.size = size])
<1> DEFINE s == [r EXCEPT !.size = size]
<1>1. DOMAIN r = {"exists", "total", "next", "size", "partials", "status", "warnings"}
  BY DEF Whole, IsRow, NoRow
<1>2. /\ DOMAIN s = DOMAIN r /\ s.size = size /\ s.exists = r.exists /\ s.total = r.total
      /\ s.next = r.next /\ s.partials = r.partials /\ s.status = r.status /\ s.warnings = r.warnings
  BY <1>1
<1> HIDE DEF s
<1>3. IsRow(s)
  BY <1>2 DEF Whole, IsRow
<1>4. Covers(s) /\ Warned(s)
  BY <1>2 DEF Whole, Covers, Warned
<1> QED
  BY <1>3, <1>4 DEF Whole, s

LEMMA SmallerIs ==
  \A a, b \in Nat : Smaller(a, b) \in Nat /\ Smaller(a, b) <= a /\ Smaller(a, b) <= b
                    /\ (Smaller(a, b) = a \/ Smaller(a, b) = b)
BY DEF Smaller

\* The row start() inserts: an empty queue has its warning.
LEMMA CollectedIsWhole ==
  ASSUME NEW unread \in [Platforms -> 0 .. MaxChats], NEW failed \in SUBSET Platforms,
         NEW size \in 1 .. MaxBatch
  PROVE  Whole([Collected(unread, failed) EXCEPT !.size = size])
<1> DEFINE Listed(p) == IF p \in failed THEN 0 ELSE unread[p]
           total     == Listed("whatsapp") + Listed("telegram")
           warned    == IF total = 0 /\ failed = {} THEN {NothingUnread}
                        ELSE {<<"platform", p>> : p \in failed}
           r         == Collected(unread, failed)
<1>1. total \in Nat /\ (MaxChats = 0 => total = 0)
  BY BoundsAreNatural DEF Platforms
<1>2. r = [NoRow EXCEPT !.exists = TRUE, !.total = Smaller(total, MaxChats), !.warnings = warned]
  BY DEF Collected
<1>3. total = 0 => warned # {}
  OBVIOUS
<1>4. Smaller(total, MaxChats) \in 0 .. MaxChats /\ (Smaller(total, MaxChats) = 0 => total = 0)
  BY <1>1, SmallerIs, BoundsAreNatural
<1> HIDE DEF total, warned
<1>5. /\ DOMAIN r = DOMAIN NoRow /\ r.exists = TRUE /\ r.total = Smaller(total, MaxChats)
      /\ r.warnings = warned /\ r.next = 0 /\ r.size = 1 /\ r.partials = <<>> /\ r.status = "in_progress"
  BY <1>2 DEF NoRow
<1> HIDE DEF r
<1>6. IsRow(r)
  <2>1. r.total \in 0 .. MaxChats /\ r.next \in 0 .. MaxChats /\ r.size \in 1 .. MaxBatch
    BY <1>4, <1>5, BoundsAreNatural
  <2>2. r.exists \in BOOLEAN /\ r.partials \in Seq(Batches) /\ r.status \in {"in_progress", "completed"}
    BY <1>5, EmptySeq
  <2> QED
    BY <1>5, <2>1, <2>2 DEF IsRow
<1>7. Covers(r)
  BY <1>4, <1>5, EmptySeq DEF Covers
<1>8. Warned(r)
  BY <1>3, <1>4, <1>5, EmptySeq DEF Warned
<1>9. Whole(r)
  BY <1>6, <1>7, <1>8 DEF Whole
<1> QED
  BY <1>9, SizeAside DEF r

-----------------------------------------------------------------------------
LEMMA WholeNumbers ==
  ASSUME NEW r, Whole(r)
  PROVE  /\ r.total \in Nat /\ r.next \in Nat /\ r.size \in Nat /\ r.size >= 1
         /\ r.total <= MaxChats /\ r.next <= r.total
         /\ r.partials \in Seq(Batches) /\ Len(r.partials) \in Nat
         /\ \A i \in 1 .. Len(r.partials) : r.partials[i] \in Batches
<1>1. r.total \in 0 .. MaxChats /\ r.next \in 0 .. MaxChats /\ r.size \in 1 .. MaxBatch
  BY DEF Whole, IsRow
<1>2. r.next <= r.total
  BY DEF Whole, Covers
<1>3. r.partials \in Seq(Batches)
  BY DEF Whole, IsRow
<1>4. Len(r.partials) \in Nat /\ \A i \in 1 .. Len(r.partials) : r.partials[i] \in Batches
  BY <1>3, LenProperties, ElementOfSeq
<1> QED
  BY <1>1, <1>2, <1>3, <1>4, BoundsAreNatural

\* A row with nothing left that is completed.
LEMMA CompletedIsWhole ==
  ASSUME NEW r, Whole(r), r.next >= r.total
  PROVE  Whole(Completed(r))
<1> DEFINE s == Completed(r)
<1>1. DOMAIN r = {"exists", "total", "next", "size", "partials", "status", "warnings"}
  BY DEF Whole, IsRow, NoRow
<1>2. r.next = r.total
  BY WholeNumbers
<1>3. /\ DOMAIN s = DOMAIN r /\ s.size = r.size /\ s.exists = r.exists /\ s.total = r.total
      /\ s.next = r.next /\ s.partials = r.partials /\ s.status = "completed" /\ s.warnings = r.warnings
  BY <1>1, <1>2 DEF Completed
<1> HIDE DEF s
<1>4. IsRow(s)
  BY <1>3 DEF Whole, IsRow
<1>5. Covers(s) /\ Warned(s)
  BY <1>2, <1>3 DEF Whole, Covers, Warned
<1> QED
  BY <1>4, <1>5 DEF Whole, s

\* The next batch begins where the last one ended, and is not empty.
LEMMA ProcessedIsWhole ==
  ASSUME NEW r, Whole(r), ~(r.next >= r.total),
         NEW unreadable \in SUBSET (r.next .. ToIndex(r) - 1)
  PROVE  Whole(Processed(r, unreadable))
<1> DEFINE b == Batch(r, unreadable)
           s == Processed(r, unreadable)
           n == Len(r.partials)
           last == IF b.to >= r.total THEN "completed" ELSE "in_progress"
           to == ToIndex(r)
<1>1. DOMAIN r = {"exists", "total", "next", "size", "partials", "status", "warnings"}
  BY DEF Whole, IsRow, NoRow
<1>2. /\ r.total \in Nat /\ r.next \in Nat /\ r.size \in Nat /\ r.size >= 1
      /\ r.total <= MaxChats /\ r.next <= r.total
      /\ r.partials \in Seq(Batches) /\ n \in Nat
      /\ \A i \in 1 .. n : r.partials[i] \in Batches
  BY WholeNumbers
<1>3. to \in Nat /\ r.next < to /\ to <= r.total
  BY <1>2 DEF ToIndex, Smaller
<1>4. b.from = r.next /\ b.to = to /\ b.unreadable = unreadable
  BY DEF Batch
<1>5. b \in Batches
  <2>1. unreadable \subseteq 0 .. MaxChats - 1
    BY <1>2, <1>3, BoundsAreNatural
  <2>2. r.next \in 0 .. MaxChats /\ to \in 0 .. MaxChats
    BY <1>2, <1>3, BoundsAreNatural
  <2> QED
    BY <2>1, <2>2 DEF Batches, Batch
<1>6. /\ DOMAIN s = DOMAIN r /\ s.size = r.size /\ s.exists = r.exists /\ s.total = r.total
      /\ s.next = b.to /\ s.partials = Append(r.partials, b) /\ s.status = last
      /\ s.warnings = r.warnings \cup Unreadable(unreadable)
  BY <1>1 DEF Processed
<1>7. /\ s.partials \in Seq(Batches) /\ Len(s.partials) = n + 1 /\ s.partials[n + 1] = b
      /\ \A i \in 1 .. n : s.partials[i] = r.partials[i]
  BY <1>2, <1>5, <1>6
<1>8. last \in {"in_progress", "completed"} /\ (last = "completed" => to = r.total)
  BY <1>2, <1>3, <1>4
<1> HIDE DEF s, b, to, last
<1>9. IsRow(s)
  <2>1. s.next \in 0 .. MaxChats
    BY <1>2, <1>3, <1>4, <1>6, BoundsAreNatural
  <2> QED
    BY <1>6, <1>7, <1>8, <2>1 DEF Whole, IsRow
<1>10. Covers(s)
  <2>1. r.next = (IF n = 0 THEN 0 ELSE r.partials[n].to)
    BY DEF Whole, Covers
  <2>2. s.next = s.partials[n + 1].to /\ s.next <= s.total /\ n + 1 # 0
    BY <1>2, <1>3, <1>4, <1>6, <1>7
  <2>3. ASSUME NEW i \in 1 .. n + 1
        PROVE  /\ s.partials[i].from = (IF i = 1 THEN 0 ELSE s.partials[i - 1].to)
               /\ s.partials[i].from < s.partials[i].to
    <3>1. CASE i = n + 1
      <4>1. n # 0 => s.partials[n] = r.partials[n]
        BY <1>2, <1>7
      <4>2. i # 1 => i - 1 = n /\ n # 0
        BY <1>2, <3>1
      <4>3. s.partials[i].from = r.next /\ s.partials[i].to = to
        BY <1>4, <1>7, <3>1
      <4> QED
        BY <1>2, <1>3, <2>1, <3>1, <4>1, <4>2, <4>3
    <3>2. CASE i # n + 1
      <4>1. i \in 1 .. n /\ (i # 1 => i - 1 \in 1 .. n)
        BY <1>2, <3>2
      <4>2. /\ r.partials[i].from = (IF i = 1 THEN 0 ELSE r.partials[i - 1].to)
            /\ r.partials[i].from < r.partials[i].to
        BY <4>1 DEF Whole, Covers
      <4> QED
        BY <1>7, <4>1, <4>2
    <3> QED
      BY <3>1, <3>2
  <2>4. s.status = "completed" => s.next = s.total
    BY <1>4, <1>6, <1>8
  <2> QED
    BY <1>7, <2>2, <2>3, <2>4 DEF Covers
<1>11. Warned(s)
  <2>1. ASSUME NEW i \in 1 .. n + 1
        PROVE  Unreadable(s.partials[i].unreadable) \subseteq s.warnings
    <3>1. CASE i = n + 1
      BY <1>4, <1>6, <1>7, <3>1
    <3>2. CASE i # n + 1
      <4>1. i \in 1 .. n
        BY <1>2, <3>2
      <4>2. Unreadable(r.partials[i].unreadable) \subseteq r.warnings
        BY <4>1 DEF Whole, Warned
      <4> QED
        BY <1>6, <1>7, <4>1, <4>2
    <3> QED
      BY <3>1, <3>2
  <2>2. s.exists /\ s.total = 0 => s.warnings # {}
    BY <1>6 DEF Whole, Warned
  <2> QED
    BY <1>7, <2>1, <2>2 DEF Warned
<1> QED
  BY <1>9, <1>10, <1>11 DEF Whole, s

-----------------------------------------------------------------------------
\* One call has something new in hand, the others what they had.
LEMMA OneInHand ==
  ASSUME DigestIInv, NEW c \in Calls, NEW q, InHand(q), call' = [call EXCEPT ![c] = q]
  PROVE  DOMAIN call' = Calls /\ \A d \in Calls : InHand(call'[d])
<1>1. DOMAIN call = Calls
  BY DEF DigestIInv
<1>2. DOMAIN call' = Calls /\ call'[c] = q /\ \A d \in Calls : d # c => call'[d] = call[d]
  BY <1>1
<1>3. \A d \in Calls : InHand(call[d])
  BY DEF DigestIInv
<1> QED
  BY <1>2, <1>3

LEMMA NothingInHand == InHand(NoCall) /\ InHand([at |-> "load"])
  BY DEF InHand, NoCall

LEMMA DigestStep == DigestIInv /\ [Next]_vars => DigestIInv'
<1> SUFFICES ASSUME DigestIInv, [Next]_vars PROVE DigestIInv'
  OBVIOUS
<1>0. Whole(row) /\ failures \in 0 .. MaxFailures /\ \A c \in Calls : InHand(call[c])
  BY DEF DigestIInv
<1>1. CASE Start
  <2>1. PICK unread \in [Platforms -> 0 .. MaxChats], failed \in SUBSET Platforms, size \in 1 .. MaxBatch :
          row' = [Collected(unread, failed) EXCEPT !.size = size]
    BY <1>1 DEF Start
  <2>2. Whole(row')
    BY <2>1, CollectedIsWhole
  <2>3. PICK c \in Calls : call' = [call EXCEPT ![c] = [at |-> "load"]]
    BY <1>1 DEF Start
  <2>4. DOMAIN call' = Calls /\ \A d \in Calls : InHand(call'[d])
    BY <2>3, NothingInHand, OneInHand
  <2> QED
    BY <1>0, <1>1, <2>2, <2>4 DEF Start, DigestIInv, Whole, InHand
<1>2. ASSUME NEW c \in Calls, Continue(c) PROVE DigestIInv'
  <2>1. PICK size \in 1 .. MaxBatch :
          row' = [row EXCEPT !.size = IF row.status = "in_progress" THEN size ELSE @]
    BY <1>2 DEF Continue
  <2>2. row.size \in 1 .. MaxBatch
    BY <1>0 DEF Whole, IsRow
  <2>3. PICK new \in 1 .. MaxBatch : row' = [row EXCEPT !.size = new]
    BY <2>1, <2>2
  <2>4. Whole(row')
    BY <1>0, <2>3, SizeAside
  <2>5. DOMAIN call' = Calls /\ \A d \in Calls : InHand(call'[d])
    BY <1>2, NothingInHand, OneInHand DEF Continue
  <2> QED
    BY <1>0, <1>2, <2>4, <2>5 DEF Continue, DigestIInv, Whole, InHand
<1>3. ASSUME NEW c \in Calls, Load(c) PROVE DigestIInv'
  <2>1. InHand([at |-> "work", seen |-> row]) \/ row.status = "completed"
    BY <1>0 DEF InHand, Whole, IsRow
  <2>2. DOMAIN call' = Calls /\ \A d \in Calls : InHand(call'[d])
    <3>1. CASE row.status = "completed"
      BY <1>3, <3>1, NothingInHand, OneInHand DEF Load
    <3>2. CASE row.status # "completed"
      BY <1>3, <2>1, <3>2, OneInHand DEF Load
    <3> QED
      BY <3>1, <3>2
  <2>3. row' = row /\ failures' = failures
    BY <1>3 DEF Load
  <2> QED
    BY <1>0, <2>2, <2>3 DEF DigestIInv
<1>4. ASSUME NEW c \in Calls, Summarise(c) PROVE DigestIInv'
  <2>1. Whole(call[c].seen)
    BY <1>0, <1>4 DEF Summarise, InHand
  <2>2. PICK made : call' = [call EXCEPT ![c] = [at |-> "write", made |-> made]] /\ Whole(made)
    <3>1. CASE call[c].seen.next >= call[c].seen.total
      BY <1>4, <2>1, <3>1, CompletedIsWhole DEF Summarise
    <3>2. CASE ~(call[c].seen.next >= call[c].seen.total)
      BY <1>4, <2>1, <3>2, ProcessedIsWhole DEF Summarise
    <3> QED
      BY <3>1, <3>2
  <2>3. InHand([at |-> "write", made |-> made])
    BY <2>2 DEF InHand
  <2>4. DOMAIN call' = Calls /\ \A d \in Calls : InHand(call'[d])
    BY <2>2, <2>3, OneInHand
  <2>5. row' = row /\ failures' = failures
    BY <1>4 DEF Summarise
  <2> QED
    BY <1>0, <2>4, <2>5 DEF DigestIInv
<1>5. ASSUME NEW c \in Calls, Update(c) PROVE DigestIInv'
  <2>1. Whole(call[c].made) /\ row.size \in 1 .. MaxBatch
    BY <1>0, <1>5 DEF Update, InHand, Whole, IsRow
  <2>2. Whole(row')
    BY <1>5, <2>1, SizeAside DEF Update, Written
  <2>3. DOMAIN call' = Calls /\ \A d \in Calls : InHand(call'[d])
    BY <1>5, NothingInHand, OneInHand DEF Update
  <2> QED
    BY <1>0, <1>5, <2>2, <2>3 DEF Update, DigestIInv, Whole, InHand
<1>6. ASSUME NEW c \in Calls, CallFails(c) PROVE DigestIInv'
  <2>1. DOMAIN call' = Calls /\ \A d \in Calls : InHand(call'[d])
    BY <1>6, NothingInHand, OneInHand DEF CallFails
  <2>2. row' = row /\ failures' \in 0 .. MaxFailures
    BY <1>0, <1>6, BoundsAreNatural DEF CallFails
  <2> QED
    BY <1>0, <2>1, <2>2 DEF DigestIInv
<1>7. CASE UNCHANGED vars
  BY <1>7 DEF vars, DigestIInv
<1> QED
  BY <1>1, <1>2, <1>3, <1>4, <1>5, <1>6, <1>7 DEF Next

\* Whatever calls overlap, fail or die, the row of a digest holds every chat before its checkpoint
\* in one batch, a warning for each that could not be read, and is completed with all of them.
THEOREM DigestInvariant == Spec => []DigestInv
<1>1. DigestIInv => DigestInv
  <2> SUFFICES ASSUME DigestIInv PROVE DigestInv
    OBVIOUS
  <2>1. PartialsCover
    BY DEF DigestIInv, Whole, Covers, PartialsCover
  <2>2. FailuresAreWarned
    BY DEF DigestIInv, Whole, Warned, FailuresAreWarned
  <2>3. DigestTypeOK
    BY DEF DigestIInv, Whole, InHand, DigestTypeOK
  <2> QED
    BY <2>1, <2>2, <2>3 DEF DigestInv
<1> QED
  BY <1>1, DigestInit, DigestStep, PTL DEF Spec

(***************************************************************************)
(* McpSessions.  What protects a session is a number, openStreams, while   *)
(* what must be protected is a set of responses: at every step the one is  *)
(* the size of the other.                                                  *)
(***************************************************************************)
StreamsOf(s) == {r \in mcpStreams : r[1] = s}

Counted == \A s \in Sids : IsFiniteSet(StreamsOf(s)) /\ mcpCount[s] = Cardinality(StreamsOf(s))

McpIInv == McpTypeOK /\ Counted

LEMMA McpInitHolds == McpInit => McpIInv
<1> SUFFICES ASSUME McpInit PROVE McpIInv
  OBVIOUS
<1>1. McpTypeOK
  BY SessionsAssumption DEF McpInit, McpTypeOK, Zeros
<1>2. ASSUME NEW s \in Sids
      PROVE  IsFiniteSet(StreamsOf(s)) /\ mcpCount[s] = Cardinality(StreamsOf(s))
  <2>1. StreamsOf(s) = {} /\ mcpCount[s] = 0
    BY DEF McpInit, StreamsOf, Zeros
  <2> QED
    BY <2>1, FS_EmptySet
<1> QED
  BY <1>1, <1>2 DEF McpIInv, Counted

\* What a client does next is one of the things a client does.
LEMMA DoesIsTyped ==
  ASSUME McpTypeOK, NEW c \in Clients, NEW at \in {"away", "idle", "calling"},
         NEW sid \in Sids \cup {NoSid}, Does(c, at, sid)
  PROVE  mcpClient' \in [Clients -> [at : {"away", "idle", "calling"}, sid : Sids \cup {NoSid}]]
BY DEF McpTypeOK, Does

\* A session that is touched counts its idle time from nothing.
LEMMA TouchIsTyped ==
  ASSUME McpTypeOK, NEW s \in Sids, Touch(s)
  PROVE  mcpIdle' \in [Sids -> 0 .. IdleLimit + 1]
BY SessionsAssumption DEF McpTypeOK, Touch

\* Steps that leave the responses and the count of them as they were.
LEMMA CountedStays ==
  ASSUME Counted, UNCHANGED <<mcpCount, mcpStreams>>
  PROVE  Counted'
BY DEF Counted, StreamsOf

\* Closing sessions ends their responses and forgets their count, and touches no other's.
LEMMA ClosingKeeps ==
  ASSUME McpIInv, NEW S, CloseStreamable(S)
  PROVE  /\ Counted'
         /\ mcpOpen' \subseteq Sids
         /\ mcpIdle' \in [Sids -> 0 .. IdleLimit + 1] /\ mcpAge' \in [Sids -> 0 .. AgeLimit]
         /\ mcpCount' \in [Sids -> Nat] /\ mcpStreams' \subseteq mcpOpen' \X Responses
<1>1. ASSUME NEW s \in Sids
      PROVE  IsFiniteSet(StreamsOf(s)') /\ mcpCount'[s] = Cardinality(StreamsOf(s)')
  <2>1. CASE s \in S
    <3>1. StreamsOf(s)' = {} /\ mcpCount'[s] = 0
      BY <2>1 DEF CloseStreamable, StreamsOf, Reset
    <3> QED
      BY <3>1, FS_EmptySet
  <2>2. CASE s \notin S
    <3>1. StreamsOf(s)' = StreamsOf(s)
      BY <2>2 DEF CloseStreamable, StreamsOf
    <3>2. mcpCount'[s] = mcpCount[s]
      BY <2>2 DEF CloseStreamable, Reset
    <3> QED
      BY <3>1, <3>2 DEF McpIInv, Counted
  <2> QED
    BY <2>1, <2>2
<1>2. mcpOpen' \subseteq Sids
  BY DEF McpIInv, McpTypeOK, CloseStreamable
<1>3. mcpIdle' \in [Sids -> 0 .. IdleLimit + 1] /\ mcpAge' \in [Sids -> 0 .. AgeLimit]
  BY SessionsAssumption DEF McpIInv, McpTypeOK, CloseStreamable, Reset
<1>4. mcpCount' \in [Sids -> Nat]
  BY DEF McpIInv, McpTypeOK, CloseStreamable, Reset
<1>5. mcpStreams' \subseteq mcpOpen' \X Responses
  BY DEF McpIInv, McpTypeOK, CloseStreamable
<1> QED
  BY <1>1, <1>2, <1>3, <1>4, <1>5 DEF Counted

-----------------------------------------------------------------------------
LEMMA McpInitialize == ASSUME McpIInv, NEW c \in Clients, Initialize(c) PROVE McpIInv'
<1>1. PICK s \in Sids : mcpOpen' = mcpOpen \cup {s} /\ Does(c, "idle", s)
  BY DEF Initialize
<1>2. UNCHANGED <<mcpIdle, mcpAge, mcpCount, mcpStreams>>
  BY DEF Initialize, mcpTimes
<1>3. mcpClient' \in [Clients -> [at : {"away", "idle", "calling"}, sid : Sids \cup {NoSid}]]
  BY <1>1, DoesIsTyped DEF McpIInv
<1>4. McpTypeOK'
  BY <1>1, <1>2, <1>3 DEF McpIInv, McpTypeOK
<1> QED
  BY <1>2, <1>4, CountedStays DEF McpIInv

LEMMA McpCall ==
  ASSUME McpIInv, NEW c \in Clients, Post(c) \/ CallEnds(c) \/ PostRefused(c) \/ Leaves(c)
  PROVE  McpIInv'
<1>1. Held(c) \in Sids \cup {NoSid}
  BY DEF McpIInv, McpTypeOK, Held
<1>2. UNCHANGED <<mcpOpen, mcpAge, mcpCount, mcpStreams>>
  BY DEF Post, CallEnds, PostRefused, Leaves, mcpTable, mcpTimes
<1>3. mcpIdle' \in [Sids -> 0 .. IdleLimit + 1]
  <2>1. CASE Post(c)
    <3>1. Held(c) \in Sids /\ Touch(Held(c))
      BY <2>1 DEF Post, McpIInv, McpTypeOK
    <3> QED
      BY <3>1, TouchIsTyped DEF McpIInv
  <2>2. CASE CallEnds(c) \/ PostRefused(c) \/ Leaves(c)
    BY <2>2 DEF CallEnds, PostRefused, Leaves, mcpTable, mcpTimes, McpIInv, McpTypeOK
  <2> QED
    BY <2>1, <2>2
<1>4. mcpClient' \in [Clients -> [at : {"away", "idle", "calling"}, sid : Sids \cup {NoSid}]]
  <2>1. CASE Post(c)
    BY <2>1, <1>1, DoesIsTyped DEF Post, McpIInv
  <2>2. CASE CallEnds(c)
    BY <2>2, <1>1, DoesIsTyped DEF CallEnds, McpIInv
  <2>3. CASE PostRefused(c)
    BY <2>3, DoesIsTyped DEF PostRefused, AnswerNoSession, McpIInv
  <2>4. CASE Leaves(c)
    BY <2>4, DoesIsTyped DEF Leaves, McpIInv
  <2> QED
    BY <2>1, <2>2, <2>3, <2>4
<1>5. McpTypeOK'
  BY <1>2, <1>3, <1>4 DEF McpIInv, McpTypeOK
<1> QED
  BY <1>2, <1>5, CountedStays DEF McpIInv

\* A response that opens is one more of its session and one more in its count.
LEMMA McpStreamOpens == ASSUME McpIInv, NEW c \in Clients, StreamOpens(c) PROVE McpIInv'
<1> DEFINE s == Held(c)
<1>1. s \in mcpOpen /\ s \in Sids
  BY DEF StreamOpens, McpIInv, McpTypeOK
<1>2. PICK r \in {s} \X Responses : r \notin mcpStreams /\ mcpStreams' = mcpStreams \cup {r}
  BY DEF StreamOpens
<1>3. /\ mcpCount' = [mcpCount EXCEPT ![s] = @ + 1] /\ Touch(s)
      /\ UNCHANGED <<mcpOpen, mcpAge, mcpClient>>
  BY DEF StreamOpens
<1>4. mcpCount \in [Sids -> Nat]
  BY DEF McpIInv, McpTypeOK
<1> HIDE DEF s
<1>5. McpTypeOK'
  <2>1. mcpIdle' \in [Sids -> 0 .. IdleLimit + 1]
    BY <1>1, <1>3, TouchIsTyped DEF McpIInv
  <2>2. mcpCount' \in [Sids -> Nat]
    BY <1>1, <1>3, <1>4
  <2>3. mcpStreams' \subseteq mcpOpen' \X Responses
    BY <1>1, <1>2, <1>3 DEF McpIInv, McpTypeOK
  <2> QED
    BY <1>3, <2>1, <2>2, <2>3 DEF McpIInv, McpTypeOK
<1>6. ASSUME NEW t \in Sids
      PROVE  IsFiniteSet(StreamsOf(t)') /\ mcpCount'[t] = Cardinality(StreamsOf(t)')
  <2>1. IsFiniteSet(StreamsOf(t)) /\ mcpCount[t] = Cardinality(StreamsOf(t))
    BY DEF McpIInv, Counted
  <2>2. CASE t = s
    <3>1. StreamsOf(t)' = StreamsOf(t) \cup {r}
      BY <2>2, <1>2 DEF StreamsOf
    <3>2. r \notin StreamsOf(t)
      BY <1>2 DEF StreamsOf
    <3>3. mcpCount'[t] = mcpCount[t] + 1
      BY <2>2, <1>1, <1>3, <1>4
    <3> QED
      BY <2>1, <3>1, <3>2, <3>3, FS_AddElement
  <2>3. CASE t # s
    <3>1. StreamsOf(t)' = StreamsOf(t)
      BY <2>3, <1>2 DEF StreamsOf
    <3>2. mcpCount'[t] = mcpCount[t]
      BY <2>3, <1>3, <1>4
    <3> QED
      BY <2>1, <3>1, <3>2
  <2> QED
    BY <2>2, <2>3
<1> QED
  BY <1>5, <1>6 DEF McpIInv, Counted

\* One that closes is one less: the count was not nothing, for the response was counted.
LEMMA McpStreamCloses ==
  ASSUME McpIInv, NEW r \in Sids \X Responses, StreamCloses(r)
  PROVE  McpIInv'
<1> DEFINE s == r[1]
<1>1. s \in Sids
  OBVIOUS
<1>2. /\ r \in mcpStreams /\ mcpStreams' = mcpStreams \ {r}
      /\ mcpCount' = [mcpCount EXCEPT ![s] = IF @ > 1 THEN @ - 1 ELSE 0] /\ Touch(s)
      /\ UNCHANGED <<mcpOpen, mcpAge, mcpClient>>
  BY DEF StreamCloses
<1>3. mcpCount \in [Sids -> Nat]
  BY DEF McpIInv, McpTypeOK
<1>4. IsFiniteSet(StreamsOf(s)) /\ mcpCount[s] = Cardinality(StreamsOf(s))
  BY <1>1 DEF McpIInv, Counted
<1>5. r \in StreamsOf(s)
  BY <1>2 DEF StreamsOf
<1>6. /\ IsFiniteSet(StreamsOf(s) \ {r})
      /\ Cardinality(StreamsOf(s) \ {r}) = Cardinality(StreamsOf(s)) - 1
  BY <1>4, <1>5, FS_RemoveElement
<1>7. mcpCount[s] \in Nat /\ mcpCount[s] - 1 \in Nat
  <2>1. Cardinality(StreamsOf(s) \ {r}) \in Nat
    BY <1>6, FS_CardinalityType
  <2> QED
    BY <1>1, <1>3, <1>4, <1>6, <2>1
<1>8. mcpCount'[s] = mcpCount[s] - 1
  BY <1>1, <1>2, <1>3, <1>7
<1>9. StreamsOf(s)' = StreamsOf(s) \ {r}
  BY <1>2 DEF StreamsOf
<1>10. McpTypeOK'
  <2>1. mcpIdle' \in [Sids -> 0 .. IdleLimit + 1]
    BY <1>1, <1>2, TouchIsTyped DEF McpIInv
  <2>2. mcpCount' \in [Sids -> Nat]
    BY <1>1, <1>2, <1>3
  <2> QED
    BY <1>2, <2>1, <2>2 DEF McpIInv, McpTypeOK
<1> HIDE DEF s
<1>11. ASSUME NEW t \in Sids
       PROVE  IsFiniteSet(StreamsOf(t)') /\ mcpCount'[t] = Cardinality(StreamsOf(t)')
  <2>1. CASE t = s
    BY <2>1, <1>4, <1>6, <1>8, <1>9
  <2>2. CASE t # s
    <3>1. StreamsOf(t)' = StreamsOf(t)
      BY <2>2, <1>2 DEF StreamsOf, s
    <3>2. mcpCount'[t] = mcpCount[t]
      BY <2>2, <1>2, <1>3
    <3> QED
      BY <3>1, <3>2 DEF McpIInv, Counted
  <2> QED
    BY <2>1, <2>2
<1> QED
  BY <1>10, <1>11 DEF McpIInv, Counted

LEMMA McpDeletes == ASSUME McpIInv, NEW c \in Clients, Deletes(c) PROVE McpIInv'
<1>1. CloseStreamable({Held(c)}) /\ Does(c, "idle", NoSid)
  BY DEF Deletes
<1>2. mcpClient' \in [Clients -> [at : {"away", "idle", "calling"}, sid : Sids \cup {NoSid}]]
  BY <1>1, DoesIsTyped DEF McpIInv
<1> QED
  BY <1>1, <1>2, ClosingKeeps DEF McpIInv, McpTypeOK

LEMMA McpTick == ASSUME McpIInv, Tick PROVE McpIInv'
<1>1. mcpIdle' \in [Sids -> 0 .. IdleLimit + 1]
  BY SessionsAssumption DEF Tick, Older, McpIInv, McpTypeOK
<1>2. mcpAge' \in [Sids -> 0 .. AgeLimit]
  BY SessionsAssumption DEF Tick, Older, McpIInv, McpTypeOK
<1>3. UNCHANGED <<mcpOpen, mcpCount, mcpStreams, mcpClient>>
  BY DEF Tick
<1>4. McpTypeOK'
  BY <1>1, <1>2, <1>3 DEF McpIInv, McpTypeOK
<1> QED
  BY <1>3, <1>4, CountedStays DEF McpIInv

LEMMA McpCloses ==
  ASSUME McpIInv, Sweep \/ Shutdown \/ \E s \in Sids : MaxAge(s)
  PROVE  McpIInv'
<1>1. \E S : CloseStreamable(S)
  BY DEF Sweep, Shutdown, MaxAge
<1>2. mcpClient' \in [Clients -> [at : {"away", "idle", "calling"}, sid : Sids \cup {NoSid}]]
  <2>1. CASE Shutdown
    BY <2>1 DEF Shutdown, McpIInv, McpTypeOK
  <2>2. CASE UNCHANGED mcpClient
    BY <2>2 DEF McpIInv, McpTypeOK
  <2> QED
    BY <2>1, <2>2 DEF Sweep, MaxAge
<1> QED
  BY <1>1, <1>2, ClosingKeeps DEF McpIInv, McpTypeOK

LEMMA McpStep == McpIInv /\ [McpNext]_mcpVars => McpIInv'
<1> SUFFICES ASSUME McpIInv, [McpNext]_mcpVars PROVE McpIInv'
  OBVIOUS
<1>1. CASE UNCHANGED mcpVars
  BY <1>1 DEF McpIInv, McpTypeOK, Counted, StreamsOf, mcpVars, mcpTable, mcpTimes
<1>2. ASSUME NEW c \in Clients, Initialize(c) PROVE McpIInv'
  BY <1>2, McpInitialize
<1>3. ASSUME NEW c \in Clients, Post(c) \/ CallEnds(c) \/ PostRefused(c) \/ Leaves(c) PROVE McpIInv'
  BY <1>3, McpCall
<1>4. ASSUME NEW c \in Clients, StreamOpens(c) PROVE McpIInv'
  BY <1>4, McpStreamOpens
<1>5. ASSUME NEW c \in Clients, Deletes(c) PROVE McpIInv'
  BY <1>5, McpDeletes
<1>6. ASSUME NEW r \in Sids \X Responses, StreamCloses(r) PROVE McpIInv'
  BY <1>6, McpStreamCloses
<1>7. CASE Tick
  BY <1>7, McpTick
<1>8. CASE Sweep \/ Shutdown \/ \E s \in Sids : MaxAge(s)
  BY <1>8, McpCloses
<1> QED
  BY <1>1, <1>2, <1>3, <1>4, <1>5, <1>6, <1>7, <1>8 DEF McpNext

\* The sessions of the MCP server keep their types, and `openStreams` is at every step the
\* number of a session's GET responses that are open, whatever order they open and close in.
THEOREM McpInvariant == McpSpec => []McpIInv
<1>1. McpInit /\ [][McpNext]_mcpVars => []McpIInv
  BY McpInitHolds, McpStep, PTL
<1> QED
  BY <1>1, PTL DEF McpSpec

-----------------------------------------------------------------------------
\* What the sweep closes for its idleness or for the cap has no response open.
LEMMA SweepSpares ==
  ASSUME McpIInv, Sweep, NEW r \in mcpStreams
  PROVE  r[1] \in mcpOpen'
<1>1. r[1] \in mcpOpen /\ r[1] \in Sids
  BY DEF McpIInv, McpTypeOK
<1>2. mcpCount[r[1]] # 0
  <2>1. r \in StreamsOf(r[1])
    BY DEF StreamsOf
  <2>2. IsFiniteSet(StreamsOf(r[1])) /\ mcpCount[r[1]] = Cardinality(StreamsOf(r[1]))
    BY <1>1 DEF McpIInv, Counted
  <2> QED
    BY <2>1, <2>2, FS_EmptySet
<1>3. PICK S \in OverCapacity(mcpOpen \ Idle) : CloseStreamable(Idle \cup S)
  BY DEF Sweep
<1>4. r[1] \notin Idle
  BY <1>2 DEF Idle
<1>5. r[1] \notin S
  <2>1. S = {} \/ S \subseteq {s \in mcpOpen \ Idle : mcpCount[s] = 0}
    BY <1>3 DEF OverCapacity
  <2> QED
    BY <1>2, <2>1
<1> QED
  BY <1>1, <1>3, <1>4, <1>5 DEF CloseStreamable

\* "Sessions with a live notification stream are protected" (sse-server.ts:203-204), for any
\* number of clients, sessions, responses, and any limits.
THEOREM StreamsAreSafe == McpSpec => StreamProtects
<1>1. McpIInv /\ [McpNext]_mcpVars => [Sweep => \A r \in mcpStreams : r[1] \in mcpOpen']_mcpVars
  BY SweepSpares
<1> QED
  BY <1>1, McpInvariant, PTL DEF McpSpec, StreamProtects
=============================================================================
