-------------------------- MODULE EventStream_proof --------------------------
(***************************************************************************)
(* What a client may conclude from EventStream, and with it from every     *)
(* system that implements it: nothing is duplicated or reordered, and no   *)
(* gap opens before an event it has.                                       *)
(***************************************************************************)
EXTENDS EventStream, TLAPS

\* Every event is in 1 .. published, the fetched ones are a prefix of them and
\* the delivered ones come after it one by one.
THEOREM StreamTypeCorrect == StreamSpec => []StreamTypeOK
<1>1. StreamInit => StreamTypeOK
  BY DEF StreamInit, StreamTypeOK
<1>2. StreamTypeOK /\ [StreamNext]_streamVars => StreamTypeOK'
  <2> SUFFICES ASSUME StreamTypeOK, [StreamNext]_streamVars
               PROVE  StreamTypeOK'
    OBVIOUS
  <2> USE DEF StreamTypeOK
  <2>1. CASE Publish
    <3>1. published' = published + 1 /\ 1 .. published \subseteq 1 .. published'
      BY <2>1 DEF Publish
    <3>2. delivered' \in Seq(1 .. published') /\ base' \in 0 .. published'
      BY <2>1, <3>1 DEF Publish
    <3>3. skipped' \subseteq 1 .. published'
      BY <2>1, <3>1 DEF Publish
    <3>4. QED
      BY <3>1, <3>2, <3>3
  <2>2. ASSUME NEW e \in 1 .. published, Deliver(e)
        PROVE  StreamTypeOK'
    BY <2>2 DEF Deliver
  <2>3. CASE Resync
    BY <2>3 DEF Resync
  <2>4. CASE UNCHANGED streamVars
    BY <2>4 DEF streamVars
  <2>5. QED
    BY <2>1, <2>2, <2>3, <2>4 DEF StreamNext
<1>3. QED
  BY <1>1, <1>2, PTL DEF StreamSpec

\* The order of the broadcasts is the order of the deliveries, and no event is
\* delivered twice.
THEOREM DeliveredInOrder == StreamSpec => []InOrder
<1>1. StreamInit => InOrder
  BY DEF StreamInit, InOrder
<1>2. StreamTypeOK /\ InOrder /\ [StreamNext]_streamVars => InOrder'
  <2> SUFFICES ASSUME StreamTypeOK, InOrder, [StreamNext]_streamVars
               PROVE  InOrder'
    OBVIOUS
  <2>1. CASE Publish
    BY <2>1 DEF Publish, InOrder
  <2>2. ASSUME NEW e \in 1 .. published, Deliver(e)
        PROVE  InOrder'
    <3>1. /\ Len(delivered') = Len(delivered) + 1 /\ Len(delivered) \in Nat
          /\ \A i \in 1 .. Len(delivered) : delivered'[i] = delivered[i]
          /\ delivered'[Len(delivered) + 1] = e
      BY <2>2 DEF Deliver, StreamTypeOK
    <3>2. \A i \in 1 .. Len(delivered) : delivered[i] < e
      BY <2>2 DEF Deliver
    <3>3. SUFFICES ASSUME NEW i \in 1 .. Len(delivered) + 1,
                          NEW j \in 1 .. Len(delivered) + 1, i < j
                   PROVE  delivered'[i] < delivered'[j]
      BY <3>1 DEF InOrder
    <3>4. i \in 1 .. Len(delivered)
      BY <3>1, <3>3
    <3>5. CASE j = Len(delivered) + 1
      BY <3>1, <3>2, <3>4, <3>5
    <3>6. CASE j # Len(delivered) + 1
      <4>1. j \in 1 .. Len(delivered)
        BY <3>1, <3>6
      <4>2. QED
        BY <3>1, <3>3, <3>4, <4>1 DEF InOrder
    <3>7. QED
      BY <3>5, <3>6
  <2>3. CASE Resync
    BY <2>3 DEF Resync, InOrder
  <2>4. CASE UNCHANGED streamVars
    BY <2>4 DEF streamVars, InOrder
  <2>5. QED
    BY <2>1, <2>2, <2>3, <2>4 DEF StreamNext
<1>3. QED
  BY <1>1, <1>2, StreamTypeCorrect, PTL DEF StreamSpec

\* Whatever precedes an event the client has is delivered, fetched, or one of
\* the events a reconnect in progress skipped.
THEOREM GapsAreSkipped == StreamSpec => []NoSilentGap
<1>1. StreamInit => NoSilentGap
  BY DEF StreamInit, NoSilentGap, Accounted
<1>2. StreamTypeOK /\ NoSilentGap /\ [StreamNext]_streamVars => NoSilentGap'
  <2> SUFFICES ASSUME StreamTypeOK, NoSilentGap, [StreamNext]_streamVars
               PROVE  NoSilentGap'
    OBVIOUS
  <2>1. CASE Publish
    BY <2>1 DEF Publish, NoSilentGap, Accounted
  <2>2. ASSUME NEW e \in 1 .. published, Deliver(e)
        PROVE  NoSilentGap'
    <3>1. Accounted' = Accounted \cup {e}
      <4>1. /\ base' = base /\ Len(delivered) \in Nat
            /\ Len(delivered') = Len(delivered) + 1
            /\ \A i \in 1 .. Len(delivered) : delivered'[i] = delivered[i]
            /\ delivered'[Len(delivered) + 1] = e
        BY <2>2 DEF Deliver, StreamTypeOK
      <4>2. 1 .. Len(delivered') = 1 .. Len(delivered) \cup {Len(delivered) + 1}
        BY <4>1
      <4>3. QED
        BY <4>1, <4>2 DEF Accounted
    <3>2. \A f \in 1 .. e - 1 : f \in Accounted \cup skipped
      BY <2>2 DEF Deliver
    <3>3. skipped' = skipped
      BY <2>2 DEF Deliver
    <3>4. QED
      BY <3>1, <3>2, <3>3 DEF NoSilentGap
  <2>3. CASE Resync
    <3>1. Accounted' = 1 .. published /\ published \in Nat
      BY <2>3 DEF Resync, Accounted, StreamTypeOK
    <3>2. QED
      BY <3>1 DEF NoSilentGap
  <2>4. CASE UNCHANGED streamVars
    BY <2>4 DEF streamVars, NoSilentGap, Accounted
  <2>5. QED
    BY <2>1, <2>2, <2>3, <2>4 DEF StreamNext
<1>3. QED
  BY <1>1, <1>2, StreamTypeCorrect, PTL DEF StreamSpec

=============================================================================
