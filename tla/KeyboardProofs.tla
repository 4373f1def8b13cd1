--------------------------- MODULE KeyboardProofs ---------------------------
(***************************************************************************)
(* Theorems about Keyboard, for every size of the ring, every keyboard and *)
(* every mix of calls.                                                     *)
(***************************************************************************)
EXTENDS Keyboard, SequenceTheorems, TLAPS

N == KBD_BUFFER_SIZE

-----------------------------------------------------------------------------
(* Arithmetic of the ring.                                                 *)

\* The remainder of a number below 2*SIZE, without the division.
LEMMA ModRing ==
  ASSUME NEW n \in 0..2*N-1
  PROVE  n % N = IF n < N THEN n ELSE n - N
  BY SizeAssumption DEF N

\* Stepping round the ring stays in it and wraps at its end.
LEMMA SuccessorInRing ==
  ASSUME NEW i \in Slot
  PROVE  /\ Successor(i) \in Slot
         /\ Successor(i) = IF i + 1 = N THEN 0 ELSE i + 1
  BY ModRing, SizeAssumption DEF Successor, Slot, N

-----------------------------------------------------------------------------
(* Types.                                                                  *)

\* Every key the decoder puts in the ring is a key code.
LEMMA DecodedKeys ==
  ASSUME TypeOK, NEW sc \in 0..127
  PROVE  /\ map_extended_key(sc) \in NavigationKeys \cup {KEY_NONE}
         /\ map_function_key(sc) \in FunctionKeys \cup {KEY_NONE}
         /\ Character(sc) \in 0..127
<1>1. map_extended_key(sc) \in NavigationKeys \cup {KEY_NONE}
  BY DEF map_extended_key, NavigationKeys, KEY_NONE
<1>2. map_function_key(sc) \in FunctionKeys \cup {KEY_NONE}
  BY DEF map_function_key, FunctionKeys, KEY_NONE
<1>3. Character(sc) \in 0..127
  <2>1. scancode_ascii[sc] \in 0..127 /\ scancode_shift_ascii[sc] \in 0..127
    BY TablesAssumption
  <2>2. \A c \in 0..127 : flip_case(c) \in 0..127
    BY DEF flip_case, Lower, Upper
  <2>. QED BY <2>1, <2>2 DEF Character
<1>. QED BY <1>1, <1>2, <1>3

\* buffer_put keeps the ring's types.
LEMMA PutTypes ==
  ASSUME TypeOK, NEW k \in KeyCode, buffer_put(k)
  PROVE  /\ buffer' \in [Slot -> KeyCode \cup {KEY_NONE}]
         /\ head' \in Slot
         /\ overflow' \in BOOLEAN
  BY SuccessorInRing DEF TypeOK, buffer_put

\* So does the whole handler, on any byte.
LEMMA CallbackTypes ==
  ASSUME TypeOK, NEW sc \in 0..255, keyboard_callback(sc)
  PROVE  /\ buffer' \in [Slot -> KeyCode \cup {KEY_NONE}]
         /\ head' \in Slot
         /\ overflow' \in BOOLEAN
         /\ decoder' \in BOOLEAN \X BOOLEAN \X BOOLEAN \X BOOLEAN \X BOOLEAN
<1> USE DEF decoder
<1>1. CASE sc = Prefix /\ PrefixByte
  BY <1>1 DEF PrefixByte, NoKeyPut, TypeOK
<1>2. CASE sc # Prefix /\ sc >= BreakBit /\ BreakCode(sc - BreakBit)
  BY <1>2 DEF BreakCode, NoKeyPut, TypeOK
<1>3. CASE sc < BreakBit /\ extended /\ ExtendedMake(sc)
  <2>1. sc \in 0..127
    BY <1>3 DEF BreakBit
  <2>. DEFINE k == map_extended_key(sc)
  <2>2. k \in KeyCode \cup {KEY_NONE}
    BY <2>1, DecodedKeys DEF KeyCode
  <2>3. CASE k = KEY_NONE
    BY <1>3, <2>3 DEF ExtendedMake, TypeOK
  <2>4. CASE k # KEY_NONE
    BY <1>3, <2>2, <2>4, PutTypes DEF ExtendedMake, TypeOK
  <2>. QED BY <2>3, <2>4
<1>4. CASE sc < BreakBit /\ ~extended /\ sc \in Modifiers /\ ModifierMake(sc)
  BY <1>4 DEF ModifierMake, NoKeyPut, TypeOK
<1>5. CASE sc < BreakBit /\ ~extended /\ sc \notin Modifiers /\ KeyMake(sc)
  <2>1. sc \in 0..127
    BY <1>5 DEF BreakBit
  <2>2. /\ map_function_key(sc) \in KeyCode \cup {KEY_NONE}
        /\ Character(sc) # 0 => Character(sc) \in KeyCode
        /\ KEY_CTRL_C \in KeyCode
    BY <2>1, DecodedKeys DEF KeyCode, CharKeys, KEY_CTRL_C
  <2>3. ctrl_c_pending' \in BOOLEAN
    BY <1>5 DEF KeyMake, TypeOK
  <2>4. \/ UNCHANGED <<buffer, head, overflow>>
        \/ \E k \in KeyCode : buffer_put(k)
    BY <1>5, <2>2 DEF KeyMake
  <2>. QED BY <1>5, <2>3, <2>4, PutTypes DEF KeyMake, TypeOK
<1>. QED BY <1>1, <1>2, <1>3, <1>4, <1>5 DEF keyboard_callback

\* Keyboard's type invariant, for every size of the ring and every keyboard.
THEOREM TypeCorrect == Spec => []TypeOK
<1>1. Init => TypeOK
  <2> SUFFICES ASSUME Init
               PROVE  TypeOK
    OBVIOUS
  <2>1. wire \in Seq(0..255) /\ held \subseteq PhysicalKeys
    BY DEF Init
  <2>2. /\ buffer \in [Slot -> KeyCode \cup {KEY_NONE}]
        /\ head \in Slot /\ tail \in Slot
    BY SizeAssumption DEF Init, Slot
  <2>3. /\ decoder \in BOOLEAN \X BOOLEAN \X BOOLEAN \X BOOLEAN \X BOOLEAN
        /\ overflow \in BOOLEAN
    BY DEF Init, decoder
  <2>. QED BY <2>1, <2>2, <2>3 DEF Init, TypeOK
<1>2. TypeOK /\ [Next]_vars => TypeOK'
  <2> SUFFICES ASSUME TypeOK, [Next]_vars
               PROVE  TypeOK'
    OBVIOUS
  <2> USE DEF device, ring, decoder, thread
  <2>1. ASSUME NEW k \in PhysicalKeys, NEW b \in {0, BreakBit}, SendBytes(k, b)
        PROVE  wire' \in Seq(0..255)
    <3>1. k[2] + b \in 0..255 /\ Prefix \in 0..255
      BY PhysicalKeysAssumption DEF BreakBit, Prefix
    <3>2. wire \in Seq(0..255)
      BY DEF TypeOK
    <3>3. /\ <<k[2] + b>> \in Seq(0..255)
          /\ <<Prefix>> \o <<k[2] + b>> \in Seq(0..255)
      BY <3>1
    <3>4. \/ wire' = wire \o <<k[2] + b>>
          \/ wire' = wire \o (<<Prefix>> \o <<k[2] + b>>)
      BY <2>1 DEF SendBytes
    <3>5. \A s \in Seq(0..255) : wire \o s \in Seq(0..255)
      BY <3>2, ConcatProperties
    <3>. QED BY <3>3, <3>4, <3>5
  <2>2. ASSUME NEW k \in PhysicalKeys, Press(k) \/ Release(k)
        PROVE  TypeOK'
    BY <2>1, <2>2 DEF Press, Release, TypeOK
  <2>3. CASE KeyboardIrq
    <3>1. Head(wire) \in 0..255 /\ Tail(wire) \in Seq(0..255)
      <4>1. wire \in Seq(0..255) /\ wire # << >>
        BY <2>3 DEF KeyboardIrq, TypeOK
      <4>. QED BY <4>1, HeadTailProperties
    <3>2. keyboard_callback(Head(wire)) /\ wire' = Tail(wire)
      BY <2>3 DEF KeyboardIrq
    <3>3. /\ buffer' \in [Slot -> KeyCode \cup {KEY_NONE}]
          /\ head' \in Slot
          /\ overflow' \in BOOLEAN
          /\ decoder' \in BOOLEAN \X BOOLEAN \X BOOLEAN \X BOOLEAN \X BOOLEAN
      BY <3>1, <3>2, CallbackTypes
    <3>4. /\ pc' \in {pc, "check"}
          /\ UNCHANGED <<held, tail, call, key, ret>>
      BY <2>3 DEF KeyboardIrq, Wake
    <3>. QED BY <3>1, <3>2, <3>3, <3>4 DEF TypeOK
  <2>4. CASE TimerIrq
    BY <2>4 DEF TimerIrq, Wake, TypeOK
  <2>5. ASSUME NEW c \in Calls, Call(c)
        PROVE  TypeOK'
    BY <2>5 DEF Call, TypeOK
  <2>6. CASE CheckEmpty \/ CheckNonEmpty \/ Halt
    BY <2>6 DEF CheckEmpty, CheckNonEmpty, Halt, Goto, Return, TypeOK
  <2>7. CASE ReadSlot
    BY <2>7 DEF ReadSlot, Goto, TypeOK
  <2>8. CASE AdvanceTail
    BY <2>8, SuccessorInRing DEF AdvanceTail, Return, TypeOK
  <2>9. CASE CancelTest \/ ClearPending
    BY <2>9 DEF CancelTest, ClearPending, Return, TypeOK
  <2>10. CASE UNCHANGED vars
    BY <2>10 DEF vars, TypeOK
  <2>. QED
    BY <2>2, <2>3, <2>4, <2>5, <2>6, <2>7, <2>8, <2>9, <2>10 DEF Next, ThreadStep
<1>. QED BY <1>1, <1>2, PTL DEF Spec
-----------------------------------------------------------------------------
(* The contents of the ring.                                               *)

\* Where the i-th waiting key is.
Position(i) == (tail + i - 1) % N

\* How many keys wait, without the division; none exactly when the indices agree.
LEMMA RingDistance ==
  ASSUME NEW h \in 0..N-1, NEW t \in 0..N-1
  PROVE  /\ (h + N - t) % N = IF h >= t THEN h - t ELSE h + N - t
         /\ (h + N - t) % N \in 0..N-1
         /\ (h + N - t) % N = 0 <=> h = t
<1>1. h + N - t \in 0..2*N-1
  BY SizeAssumption DEF N
<1>2. (h + N - t) % N = IF h >= t THEN h - t ELSE h + N - t
  BY <1>1, ModRing, SizeAssumption DEF N
<1>. QED BY <1>2, SizeAssumption DEF N

\* So the number of waiting keys is less than the size of the ring.
LEMMA CountInRing ==
  ASSUME TypeOK
  PROVE  /\ Count \in 0..N-1
         /\ Count = IF head >= tail THEN head - tail ELSE head + N - tail
         /\ Count = 0 <=> head = tail
  BY RingDistance DEF TypeOK, Slot, Count, N

\* Each waiting key has a slot, the oldest at tail and none at head.
LEMMA PositionInRing ==
  ASSUME TypeOK, NEW i \in 1..Count
  PROVE  /\ Position(i) \in Slot
         /\ Position(i) = IF tail + i - 1 < N THEN tail + i - 1 ELSE tail + i - 1 - N
         /\ Position(i) # head
<1>1. head \in 0..N-1 /\ tail \in 0..N-1
  BY DEF TypeOK, Slot, N
<1>2. tail + i - 1 \in 0..2*N-1
  BY <1>1, CountInRing, SizeAssumption DEF N
<1>3. Position(i) = IF tail + i - 1 < N THEN tail + i - 1 ELSE tail + i - 1 - N
  <2>1. PICK n \in 0..2*N-1 : n = tail + i - 1
    BY <1>2
  <2>2. Position(i) = n % N
    BY <2>1 DEF Position
  <2>3. n % N = IF n < N THEN n ELSE n - N
    BY ModRing
  <2>4. N \in Nat /\ i \in Int
    BY CountInRing, SizeAssumption DEF N
  <2>. QED BY <1>1, <2>1, <2>2, <2>3, <2>4
<1>4. Position(i) \in 0..N-1
  BY <1>1, <1>2, <1>3, SizeAssumption DEF N
<1>5. i <= Count /\ i >= 1 /\ i \in Int
  OBVIOUS
<1>6. Position(i) # head
  BY <1>1, <1>3, <1>5, CountInRing, SizeAssumption DEF N
<1>. QED BY <1>3, <1>4, <1>6 DEF Slot, N

\* The contents are a sequence of Count entries.
LEMMA ContentsSeq ==
  ASSUME TypeOK
  PROVE  /\ Contents \in Seq(KeyCode \cup {KEY_NONE})
         /\ Len(Contents) = Count
         /\ \A i \in 1..Count : Contents[i] = buffer[Position(i)]
<1>1. \A i \in 1..Count : buffer[Position(i)] \in KeyCode \cup {KEY_NONE}
  BY PositionInRing DEF TypeOK
<1>2. Contents = [i \in 1..Count |-> buffer[Position(i)]]
  BY DEF Contents, Position, N
<1>3. Count \in Nat
  BY CountInRing
<1>. QED BY <1>1, <1>2, <1>3, IsASeq

\* buffer_put of a key appends it, if the ring is not full.
LEMMA PutAppends ==
  ASSUME TypeOK, TypeOK', NEW k \in KeyCode,
         Successor(head) # tail,
         buffer' = [buffer EXCEPT ![head] = k], head' = Successor(head), tail' = tail
  PROVE  /\ Count < N - 1
         /\ Contents' = Append(Contents, k)
<1>1. head \in 0..N-1 /\ tail \in 0..N-1
  BY DEF TypeOK, Slot, N
<1>2. head' = IF head + 1 = N THEN 0 ELSE head + 1
  BY SuccessorInRing DEF TypeOK
<1>3. /\ Count' \in 0..N-1
      /\ Count' = IF head' >= tail THEN head' - tail ELSE head' + N - tail
  <2>1. head' \in 0..N-1
    BY DEF TypeOK, Slot, N
  <2>. QED BY <1>1, <2>1, RingDistance DEF Count, N
<1>4. Count' = Count + 1 /\ Count < N - 1
  <2>1. Count = IF head >= tail THEN head - tail ELSE head + N - tail
    BY CountInRing
  <2>2. N \in Nat /\ N > 1
    BY SizeAssumption DEF N
  <2>3. head' # tail
    OBVIOUS
  <2>. QED BY <1>1, <1>2, <1>3, <2>1, <2>2, <2>3
<1>5. \A i \in 1..Count : buffer'[Position(i)] = buffer[Position(i)]
  BY PositionInRing DEF TypeOK
<1>6. Position(Count + 1) = head /\ buffer'[head] = k
  <2>. DEFINE x == tail + (Count + 1) - 1
  <2>1. x \in 0..2*N-1 /\ x = tail + Count
    BY <1>1, CountInRing, SizeAssumption DEF N
  <2>2. Position(Count + 1) = x % N
    BY DEF Position
  <2>. HIDE DEF x
  <2>3. x % N = IF x < N THEN x ELSE x - N
    BY <2>1, ModRing
  <2>4. Position(Count + 1) = head
    BY <1>1, <2>1, <2>2, <2>3, CountInRing, SizeAssumption DEF N
  <2>. QED BY <2>4 DEF TypeOK, Slot, N
<1>7. Contents' = [i \in 1..Count+1 |-> buffer'[Position(i)]]
  BY <1>4 DEF Contents, Position, N
<1>8. Contents' = [i \in 1..Count+1 |-> IF i <= Count THEN Contents[i] ELSE k]
  BY <1>5, <1>6, <1>7, ContentsSeq, CountInRing
<1>9. Contents' = Append(Contents, k)
  <2>. DEFINE T == KeyCode \cup {KEY_NONE}
  <2>1. Contents \in Seq(T) /\ Len(Contents) = Count /\ k \in T
    BY ContentsSeq
  <2>2. /\ Append(Contents, k) \in Seq(T)
        /\ Len(Append(Contents, k)) = Count + 1
        /\ \A i \in 1..Count+1 : Append(Contents, k)[i] = IF i <= Count THEN Contents[i] ELSE k
    BY <2>1, AppendProperties, CountInRing
  <2>3. /\ Contents' \in Seq(T)
        /\ Len(Contents') = Count + 1
        /\ \A i \in 1..Count+1 : Contents'[i] = IF i <= Count THEN Contents[i] ELSE k
    <3>1. \A i \in 1..Count+1 : (IF i <= Count THEN Contents[i] ELSE k) \in T
      BY <2>1, CountInRing, ElementOfSeq
    <3>2. Count + 1 \in Nat
      BY CountInRing
    <3>. QED BY <1>8, <3>1, <3>2, IsASeq
  <2>. QED BY <2>2, <2>3, SeqEqual
<1>. QED BY <1>4, <1>9

\* The oldest waiting key is in the slot at tail.
LEMMA HeadIsAtTail ==
  ASSUME TypeOK, Contents # << >>
  PROVE  Head(Contents) = buffer[tail]
<1>1. Contents \in Seq(KeyCode \cup {KEY_NONE}) /\ Len(Contents) = Count /\ Count \in Nat
  BY ContentsSeq, CountInRing
<1>2. Count > 0
  BY <1>1, EmptySeq
<1>3. Position(1) = tail
  <2>1. Position(1) = IF tail + 1 - 1 < N THEN tail + 1 - 1 ELSE tail + 1 - 1 - N
    BY <1>1, <1>2, PositionInRing
  <2>. QED BY <2>1, SizeAssumption DEF TypeOK, Slot, N
<1>. QED BY <1>1, <1>2, <1>3, ContentsSeq

\* The ring is empty when the driver is installed.
LEMMA InitEmpty ==
  ASSUME Init
  PROVE  Contents = << >>
<1>1. head = 0 /\ tail = 0
  BY DEF Init
<1>2. Count = 0
  BY <1>1, RingDistance, SizeAssumption DEF Count, N
<1>. QED BY <1>2 DEF Contents

\* keyboard_trygetkey's update of tail removes the oldest key.
LEMMA AdvanceTakes ==
  ASSUME TypeOK, TypeOK', Contents # << >>,
         tail' = Successor(tail), head' = head, buffer' = buffer
  PROVE  /\ Head(Contents) = buffer[tail]
         /\ Contents' = Tail(Contents)
<1>. DEFINE T == KeyCode \cup {KEY_NONE}
<1>1. head \in 0..N-1 /\ tail \in 0..N-1 /\ N \in Nat /\ N > 1
  BY SizeAssumption DEF TypeOK, Slot, N
<1>2. tail' = IF tail + 1 = N THEN 0 ELSE tail + 1
  BY SuccessorInRing DEF TypeOK
<1>3. Contents \in Seq(T) /\ Len(Contents) = Count /\ Count \in Nat
  BY ContentsSeq, CountInRing
<1>4. Count > 0
  BY <1>3, EmptySeq
<1>5. Count' = Count - 1
  <2>1. Count' = IF head >= tail' THEN head - tail' ELSE head + N - tail'
    <3>1. tail' \in 0..N-1
      BY DEF TypeOK, Slot, N
    <3>. QED BY <1>1, <3>1, RingDistance DEF Count, N
  <2>2. head # tail
    BY <1>4, CountInRing
  <2>. QED BY <1>1, <1>2, <2>1, <2>2, CountInRing
<1>7. Head(Contents) = buffer[tail]
  BY HeadIsAtTail
<1>8. \A i \in 1..Count-1 : Position(i)' = Position(i + 1)
  <2>. SUFFICES ASSUME NEW i \in 1..Count-1
                PROVE  (tail' + i - 1) % N = Position(i + 1)
    BY DEF Position
  <2>1. i + 1 \in 1..Count /\ i \in 1..Count /\ i \in Int
    BY <1>3
  <2>2. Position(i + 1) = IF tail + i < N THEN tail + i ELSE tail + i - N
    <3>1. tail + (i + 1) - 1 = tail + i
      BY <1>1, <2>1
    <3>. QED BY <2>1, <3>1, PositionInRing
  <2>. DEFINE x == tail' + i - 1
  <2>3. x \in 0..2*N-1
    BY <1>1, <1>2, <2>1, CountInRing
  <2>. HIDE DEF x
  <2>4. x % N = IF x < N THEN x ELSE x - N
    BY <2>3, ModRing
  <2>5. x % N = Position(i + 1)
    BY <1>1, <1>2, <2>1, <2>2, <2>4, CountInRing DEF x
  <2>. QED BY <2>5 DEF x
<1>9. Contents' = [i \in 1..Count-1 |-> buffer[Position(i + 1)]]
  BY <1>5, <1>8 DEF Contents, Position, N
<1>10. Contents' = Tail(Contents)
  <2>1. \A i \in 1..Count-1 : buffer[Position(i + 1)] = Contents[i + 1] /\ Contents[i + 1] \in T
    BY <1>3, ContentsSeq, ElementOfSeq
  <2>2. /\ Contents' \in Seq(T)
        /\ Len(Contents') = Count - 1
        /\ \A i \in 1..Count-1 : Contents'[i] = Contents[i + 1]
    BY <1>3, <1>4, <1>9, <2>1, IsASeq
  <2>3. /\ Tail(Contents) \in Seq(T)
        /\ Len(Tail(Contents)) = Count - 1
        /\ \A i \in 1..Count-1 : Tail(Contents)[i] = Contents[i + 1]
    BY <1>3, HeadTailProperties
  <2>. QED BY <2>2, <2>3, SeqEqual
<1>. QED BY <1>7, <1>10

-----------------------------------------------------------------------------
(* The ring is a queue.                                                    *)

\* All the handler does to the ring is to put at most one key in it.
LEMMA CallbackPuts ==
  ASSUME TypeOK, NEW sc \in 0..255, keyboard_callback(sc)
  PROVE  \/ UNCHANGED <<buffer, head, overflow>>
         \/ \E k \in KeyCode : buffer_put(k)
<1>1. CASE sc >= BreakBit
  BY <1>1 DEF keyboard_callback, PrefixByte, BreakCode, NoKeyPut, Prefix, BreakBit
<1>2. CASE ~(sc >= BreakBit)
  <2>1. sc \in 0..127
    BY <1>2 DEF BreakBit
  <2>2. /\ map_extended_key(sc) \in KeyCode \cup {KEY_NONE}
        /\ map_function_key(sc) \in KeyCode \cup {KEY_NONE}
        /\ Character(sc) # 0 => Character(sc) \in KeyCode
        /\ KEY_CTRL_C \in KeyCode
    BY <2>1, DecodedKeys DEF KeyCode, CharKeys, KEY_CTRL_C
  <2>3. CASE ExtendedMake(sc)
    BY <2>2, <2>3 DEF ExtendedMake
  <2>4. CASE ModifierMake(sc)
    BY <2>4 DEF ModifierMake, NoKeyPut
  <2>5. CASE KeyMake(sc)
    BY <2>2, <2>5 DEF KeyMake
  <2>. QED BY <1>2, <2>1, <2>3, <2>4, <2>5 DEF keyboard_callback, Prefix
<1>. QED BY <1>1, <1>2

\* One step of the abstract queue, or none, for each step of the driver.
LEMMA StepEffect ==
  ASSUME TypeOK, TypeOK', SlotIsOldest, [Next]_vars
  PROVE  \/ /\ UNCHANGED <<ring, ret, overflow>>
            /\ Contents' = Contents
            /\ pc \in {"read", "advance"} => pc' \in {"read", "advance"}
            /\ pc' \in {"read", "advance"} => Contents # << >>
            /\ pc' = "advance" => key' = Head(Contents)
         \/ /\ \E k \in KeyCode : Contents' = Append(Contents, k)
            /\ Len(Contents) < N - 1
            /\ pc' = (IF pc = "halted" THEN "check" ELSE pc)
            /\ UNCHANGED <<tail, key, ret, overflow>>
         \/ /\ Len(Contents) = N - 1
            /\ Contents' = Contents
            /\ overflow' = TRUE
            /\ pc' = (IF pc = "halted" THEN "check" ELSE pc)
            /\ UNCHANGED <<ring, key, ret>>
         \/ /\ Contents # << >>
            /\ ret' = Head(Contents)
            /\ Contents' = Tail(Contents)
            /\ pc' \in {"check", "idle"}
            /\ UNCHANGED overflow
<1>0. UNCHANGED ring => Contents' = Contents
  BY DEF ring, Contents, Count
<1>. USE DEF ring
<1>1. CASE UNCHANGED ring /\ UNCHANGED <<pc, key, ret, overflow>>
  BY <1>0, <1>1 DEF SlotIsOldest
<1>2. ASSUME NEW k \in PhysicalKeys, Press(k) \/ Release(k)
      PROVE  UNCHANGED ring /\ UNCHANGED <<pc, key, ret, overflow>>
  BY <1>2 DEF Press, Release, thread
<1>3. CASE KeyboardIrq
  <2>1. Head(wire) \in 0..255
    <3>1. wire \in Seq(0..255) /\ wire # << >>
      BY <1>3 DEF KeyboardIrq, TypeOK
    <3>. QED BY <3>1, HeadTailProperties
  <2>2. /\ pc' = (IF pc = "halted" THEN "check" ELSE pc)
        /\ UNCHANGED <<tail, key, ret>>
    BY <1>3 DEF KeyboardIrq, Wake
  <2>3. CASE UNCHANGED <<buffer, head, overflow>>
    BY <1>0, <2>2, <2>3 DEF SlotIsOldest
  <2>4. ASSUME NEW k \in KeyCode, buffer_put(k), Successor(head) # tail
        PROVE  Contents' = Append(Contents, k) /\ Len(Contents) < N - 1 /\ UNCHANGED overflow
    <3>1. buffer' = [buffer EXCEPT ![head] = k] /\ head' = Successor(head) /\ UNCHANGED overflow
      BY <2>4 DEF buffer_put
    <3>. QED BY <2>2, <2>4, <3>1, PutAppends, ContentsSeq
  <2>5. ASSUME NEW k \in KeyCode, buffer_put(k), Successor(head) = tail
        PROVE  Len(Contents) = N - 1 /\ overflow' = TRUE /\ UNCHANGED <<buffer, head>>
    <3>1. overflow' = TRUE /\ UNCHANGED <<buffer, head>>
      BY <2>5 DEF buffer_put
    <3>2. Count = N - 1
      <4>1. head \in 0..N-1 /\ tail \in 0..N-1 /\ N \in Nat /\ N > 1
        BY SizeAssumption DEF TypeOK, Slot, N
      <4>2. tail = IF head + 1 = N THEN 0 ELSE head + 1
        BY <2>5, SuccessorInRing DEF TypeOK
      <4>. QED BY <4>1, <4>2, CountInRing
    <3>. QED BY <3>1, <3>2, ContentsSeq
  <2>6. \/ UNCHANGED <<buffer, head, overflow>>
        \/ \E k \in KeyCode : buffer_put(k)
    BY <1>3, <2>1, CallbackPuts DEF KeyboardIrq
  <2>. QED BY <1>0, <2>2, <2>3, <2>4, <2>5, <2>6
<1>4. CASE TimerIrq \/ CheckEmpty \/ Halt \/ CancelTest \/ ClearPending
  <2>1. UNCHANGED <<ring, key, ret, overflow>>
    BY <1>4 DEF TimerIrq, CheckEmpty, Halt, CancelTest, ClearPending
  <2>2. pc \notin {"read", "advance"} /\ pc' \notin {"read", "advance"}
    BY <1>4 DEF TimerIrq, CheckEmpty, Halt, CancelTest, ClearPending, Wake, Goto, Return
  <2>. QED BY <1>0, <2>1, <2>2
<1>5. ASSUME NEW c \in Calls, Call(c)
      PROVE  UNCHANGED <<ring, key, ret, overflow>> /\ pc = "idle" /\ pc' \notin {"read", "advance"}
  BY <1>5 DEF Call
<1>6. CASE CheckNonEmpty
  <2>1. Contents # << >>
    BY <1>6, ContentsSeq, CountInRing DEF CheckNonEmpty
  <2>. QED BY <1>0, <1>6, <2>1 DEF CheckNonEmpty, Goto
<1>7. CASE ReadSlot
  <2>1. Contents # << >> /\ Head(Contents) = buffer[tail]
    <3>1. Contents # << >>
      BY <1>7 DEF ReadSlot, Goto, SlotIsOldest
    <3>. QED BY <3>1, HeadIsAtTail
  <2>. QED BY <1>0, <1>7, <2>1 DEF ReadSlot, Goto
<1>8. CASE AdvanceTail
  <2>1. Contents # << >> /\ key = Head(Contents)
    BY <1>8 DEF AdvanceTail, SlotIsOldest
  <2>2. Contents' = Tail(Contents)
    BY <1>8, <2>1, AdvanceTakes DEF AdvanceTail
  <2>. QED BY <1>8, <2>1, <2>2 DEF AdvanceTail, Return
<1>9. CASE UNCHANGED vars
  BY <1>1, <1>9 DEF vars, thread
<1>. QED
  BY <1>0, <1>1, <1>2, <1>3, <1>4, <1>5, <1>6, <1>7, <1>8, <1>9 DEF Next, ThreadStep

\* Every waiting entry is a key, and the key the thread is in the middle of taking is
\* the oldest one, still in place: SlotIsOldest for every size of the ring.
THEOREM SlotIsOldestAlways == Spec => []SlotIsOldest
<1>1. Init => SlotIsOldest
  <2> SUFFICES ASSUME Init
               PROVE  SlotIsOldest
    OBVIOUS
  <2>1. Contents = << >>
    BY InitEmpty
  <2>. QED BY <2>1 DEF Init, SlotIsOldest
<1>2. TypeOK /\ TypeOK' /\ SlotIsOldest /\ [Next]_vars => SlotIsOldest'
  <2> SUFFICES ASSUME TypeOK, TypeOK', SlotIsOldest, [Next]_vars
               PROVE  SlotIsOldest'
    OBVIOUS
  <2>1. Contents \in Seq(KeyCode)
    BY DEF SlotIsOldest
  <2>2. CASE UNCHANGED <<ring, ret, overflow>> /\ Contents' = Contents
    BY <2>1, <2>2, StepEffect DEF SlotIsOldest
  <2>3. ASSUME NEW k \in KeyCode, Contents' = Append(Contents, k),
               pc' = (IF pc = "halted" THEN "check" ELSE pc), key' = key
        PROVE  SlotIsOldest'
    <3>1. Contents' \in Seq(KeyCode) /\ Contents' # << >>
      BY <2>1, <2>3, AppendProperties
    <3>2. Contents # << >> => Head(Contents') = Head(Contents)
      BY <2>1, <2>3
    <3>. QED BY <2>3, <3>1, <3>2 DEF SlotIsOldest
  <2>4. CASE Contents' = Contents /\ key' = key /\ pc' = (IF pc = "halted" THEN "check" ELSE pc)
    BY <2>1, <2>4 DEF SlotIsOldest
  <2>5. CASE Contents # << >> /\ Contents' = Tail(Contents) /\ pc' \in {"check", "idle"}
    BY <2>1, <2>5, HeadTailProperties DEF SlotIsOldest
  <2>. QED BY <2>2, <2>3, <2>4, <2>5, StepEffect
<1>. QED BY <1>1, <1>2, TypeCorrect, PTL DEF Spec

\* The ring with its handler and its reader implements the bounded queue of KeyQueue.
THEOREM Refinement == Spec => RefinesKeyQueue
<1>1. Init => KQ!Init
  BY InitEmpty DEF Init, KQ!Init
<1>2. TypeOK /\ TypeOK' /\ SlotIsOldest /\ [Next]_vars => [KQ!Next]_(KQ!vars)
  <2> SUFFICES ASSUME TypeOK, TypeOK', SlotIsOldest, [Next]_vars
               PROVE  [KQ!Next]_(KQ!vars)
    OBVIOUS
  <2>1. CASE UNCHANGED <<ring, ret, overflow>> /\ Contents' = Contents
    BY <2>1 DEF KQ!vars
  <2>2. CASE /\ \E k \in KeyCode : Contents' = Append(Contents, k)
             /\ Len(Contents) < N - 1
             /\ UNCHANGED <<ret, overflow>>
    BY <2>2 DEF KQ!Next, KQ!Put, N
  <2>3. CASE Len(Contents) = N - 1 /\ Contents' = Contents /\ overflow' = TRUE /\ ret' = ret
    BY <2>3 DEF KQ!Next, KQ!Drop, N
  <2>4. CASE /\ Contents # << >>
             /\ ret' = Head(Contents)
             /\ Contents' = Tail(Contents)
             /\ UNCHANGED overflow
    BY <2>4 DEF KQ!Next, KQ!Take
  <2>. QED BY <2>1, <2>2, <2>3, <2>4, StepEffect
<1>. QED
  BY <1>1, <1>2, TypeCorrect, SlotIsOldestAlways, PTL DEF Spec, RefinesKeyQueue, KQ!Spec
-----------------------------------------------------------------------------
(* Modifiers.  What a modifier's flag will be is decided by the bytes that  *)
(* wait: w stands for them and x for the flag extended.                     *)

Shifts == {LeftShift, RightShift}

\* Byte j of w, read as the second byte of a pair.
Prefixed(w, x, j) == IF j = 1 THEN x ELSE w[j - 1] = Prefix

\* Byte j is a make code in S, or a break code of one.
Makes(w, x, j, S) == w[j] \in S /\ ~Prefixed(w, x, j)
Breaks(w, j, S) == \E s \in S : w[j] = s + BreakBit

\* The flag, set or cleared by the codes in S, will be clear when w has been read.
EndsClear(w, x, down, S) ==
  \/ ~down /\ \A j \in 1..Len(w) : ~Makes(w, x, j, S)
  \/ \E i \in 1..Len(w) : Breaks(w, i, S) /\ \A j \in i+1..Len(w) : ~Makes(w, x, j, S)

\* Every prefix is followed by a byte that is none.
Paired(w, x) ==
  /\ \A j \in 1..Len(w) : Prefixed(w, x, j) => w[j] # Prefix
  /\ IF w = << >> THEN ~x ELSE w[Len(w)] # Prefix

HeldOf(S) == {<<FALSE, s>> : s \in S} \cap held

\* The inductive invariant: a modifier none of whose keys is held will be clear.
WillClear ==
  /\ Paired(wire, extended)
  /\ HeldOf(Shifts) = {} => EndsClear(wire, extended, shift_down, Shifts)
  /\ HeldOf({Ctrl}) = {} => EndsClear(wire, extended, ctrl_down, {Ctrl})

Codes == 0..255 \ {Prefix}

\* The bytes of a key: its code, with the prefix where it has one.
KeyBytes(grey, code) == IF grey THEN <<Prefix>> \o <<code>> ELSE <<code>>

LEMMA KeyAppended ==
  ASSUME TypeOK, NEW k \in PhysicalKeys, NEW b \in {0, BreakBit}, SendBytes(k, b)
  PROVE  \E grey \in BOOLEAN, c \in 0..127 :
           k = <<grey, c>> /\ c + b \in Codes /\ wire' = wire \o KeyBytes(grey, c + b)
<1>1. PICK grey \in BOOLEAN, c \in 0..127 \ {96} : k = <<grey, c>>
  BY PhysicalKeysAssumption
<1>2. k[1] = grey /\ k[2] = c
  BY <1>1
<1>3. c + b \in Codes
  BY DEF Codes, Prefix, BreakBit
<1>4. wire' = wire \o KeyBytes(grey, c + b)
  BY <1>2 DEF SendBytes, KeyBytes
<1>. QED BY <1>1, <1>3, <1>4

\* What a key adds to the waiting bytes: where the new ones are and what they are.
Added(v, w, grey, code) ==
  /\ v \in Seq(0..255) /\ v # << >> /\ Len(w) \in Nat
  /\ Len(v) = Len(w) + (IF grey THEN 2 ELSE 1)
  /\ \A j \in 1..Len(w) : v[j] = w[j]
  /\ v[Len(v)] = code
  /\ grey => v[Len(w) + 1] = Prefix

LEMMA AddedBytes ==
  ASSUME NEW w \in Seq(0..255), NEW grey \in BOOLEAN, NEW code \in Codes,
         NEW v, v = w \o KeyBytes(grey, code)
  PROVE  Added(v, w, grey, code)
<1>. DEFINE one == <<code>>
            pre == <<Prefix>>
            both == pre \o one
<1>1. Len(w) \in Nat /\ code \in 0..255 /\ Prefix \in 0..255
  BY DEF Codes, Prefix
<1>2. one \in Seq(0..255) /\ Len(one) = 1 /\ one[1] = code
  BY <1>1
<1>3. pre \in Seq(0..255) /\ Len(pre) = 1 /\ pre[1] = Prefix
  BY <1>1
<1>. HIDE DEF one, pre
<1>4. /\ both \in Seq(0..255) /\ Len(both) = 2
      /\ both[1] = Prefix /\ both[2] = code
  <2>1. /\ both \in Seq(0..255) /\ Len(both) = Len(pre) + Len(one)
        /\ \A i \in 1..Len(pre) + Len(one) :
             both[i] = IF i <= Len(pre) THEN pre[i] ELSE one[i - Len(pre)]
    BY <1>2, <1>3, ConcatProperties, ZenonT(40)
  <2>. HIDE DEF both
  <2>. QED BY <1>2, <1>3, <2>1
<1>. HIDE DEF both
<1>5. \A c \in Seq(0..255) :
        /\ w \o c \in Seq(0..255) /\ Len(w \o c) = Len(w) + Len(c)
        /\ \A j \in 1..Len(w) + Len(c) :
             (w \o c)[j] = IF j <= Len(w) THEN w[j] ELSE c[j - Len(w)]
  BY ConcatProperties
<1>6. CASE grey
  <2>1. v = w \o both
    BY <1>6 DEF KeyBytes, both, pre, one
  <2>2. /\ v \in Seq(0..255) /\ Len(v) = Len(w) + 2
        /\ \A j \in 1..Len(w) + 2 : v[j] = IF j <= Len(w) THEN w[j] ELSE both[j - Len(w)]
    <3>1. /\ v \in Seq(0..255) /\ Len(v) = Len(w) + Len(both)
          /\ \A j \in 1..Len(w) + Len(both) :
               v[j] = IF j <= Len(w) THEN w[j] ELSE both[j - Len(w)]
      BY <1>4, <1>5, <2>1, ZenonT(40)
    <3>. QED BY <1>4, <3>1
  <2>3. v[Len(w) + 1] = Prefix /\ v[Len(w) + 2] = code
    BY <1>1, <1>4, <2>2
  <2>4. Len(v) = Len(w) + (IF grey THEN 2 ELSE 1) /\ (grey => v[Len(w) + 1] = Prefix)
    BY <1>6, <2>2, <2>3, Zenon
  <2>5. v # << >> /\ v[Len(v)] = code /\ \A j \in 1..Len(w) : v[j] = w[j]
    BY <1>1, <2>2, <2>3
  <2>. QED BY <1>1, <2>2, <2>4, <2>5, Zenon DEF Added
<1>7. CASE ~grey
  <2>1. v = w \o one
    BY <1>7 DEF KeyBytes, one
  <2>2. /\ v \in Seq(0..255) /\ Len(v) = Len(w) + 1
        /\ \A j \in 1..Len(w) + 1 : v[j] = IF j <= Len(w) THEN w[j] ELSE one[j - Len(w)]
    <3>1. /\ v \in Seq(0..255) /\ Len(v) = Len(w) + Len(one)
          /\ \A j \in 1..Len(w) + Len(one) :
               v[j] = IF j <= Len(w) THEN w[j] ELSE one[j - Len(w)]
      BY <1>2, <1>5, <2>1, Zenon
    <3>. QED BY <1>2, <3>1
  <2>. QED BY <1>1, <1>2, <1>7, <2>2 DEF Added
<1>. QED BY <1>6, <1>7

\* A key's bytes leave the waiting ones in pairs: none of its codes is the prefix.
LEMMA SentPaired ==
  ASSUME NEW w \in Seq(0..255), NEW x \in BOOLEAN, Paired(w, x),
         NEW grey \in BOOLEAN, NEW code \in Codes, NEW v, v = w \o KeyBytes(grey, code)
  PROVE  Paired(v, x)
<1>0. Added(v, w, grey, code)
  BY AddedBytes
<1>. USE DEF Added
<1>1. code # Prefix
  BY DEF Codes
<1>2. ~Prefixed(v, x, Len(w) + 1)
  <2>1. CASE w = << >>
    BY <2>1 DEF Paired, Prefixed
  <2>2. CASE w # << >>
    BY <1>1, <2>2, <1>0 DEF Paired, Prefixed
  <2>. QED BY <2>1, <2>2
<1>3. ASSUME NEW j \in 1..Len(v), Prefixed(v, x, j)
      PROVE  v[j] # Prefix
  <2>1. CASE j \in 1..Len(w)
    BY <1>1, <1>3, <2>1, <1>0 DEF Paired, Prefixed
  <2>2. CASE j = Len(w) + 1
    BY <1>2, <1>3, <2>2
  <2>3. CASE j = Len(v)
    BY <1>1, <2>3, <1>0
  <2>. QED BY <1>1, <2>1, <2>2, <2>3, <1>0
<1>. QED BY <1>1, <1>3, <1>0 DEF Paired

\* A key that does not make in S leaves the flag's end as it was.
LEMMA SentEndsClear ==
  ASSUME NEW w \in Seq(0..255), NEW x \in BOOLEAN, NEW down \in BOOLEAN,
         NEW S, S \subseteq 0..127,
         NEW grey \in BOOLEAN, NEW code \in Codes, NEW v, v = w \o KeyBytes(grey, code),
         EndsClear(w, x, down, S), grey \/ code \notin S
  PROVE  EndsClear(v, x, down, S)
<1>0. Added(v, w, grey, code)
  BY AddedBytes
<1>. USE DEF Added
<1>1. Len(w) \in Nat /\ Prefix \notin S
  BY DEF Prefix
<1>2. ASSUME NEW j \in 1..Len(v), j > Len(w)
      PROVE  ~Makes(v, x, j, S)
  <2>1. CASE j = Len(v) /\ grey
    <3>1. Len(v) = Len(w) + 2 /\ v[Len(w) + 1] = Prefix
      BY <1>0, <2>1, Zenon
    <3>2. j # 1 /\ j - 1 = Len(w) + 1
      BY <1>1, <2>1, <3>1
    <3>3. v[j - 1] = Prefix
      BY <3>1, <3>2
    <3>. QED BY <3>2, <3>3, Zenon DEF Makes, Prefixed
  <2>2. CASE j = Len(v) /\ ~grey
    BY <2>2, <1>0 DEF Makes
  <2>3. CASE j # Len(v)
    BY <1>1, <1>2, <2>3, <1>0 DEF Makes
  <2>. QED BY <2>1, <2>2, <2>3
<1>3. \A j \in 1..Len(w) : Makes(v, x, j, S) <=> Makes(w, x, j, S)
  BY <1>1, <1>0 DEF Makes, Prefixed
<1>4. \A i \in 1..Len(w) : Breaks(v, i, S) <=> Breaks(w, i, S)
  BY <1>0 DEF Breaks
<1>5. Len(v) \in Nat /\ Len(v) > Len(w)
  BY <1>1, <1>0
<1>6. CASE ~down /\ \A j \in 1..Len(w) : ~Makes(w, x, j, S)
  <2>1. \A j \in 1..Len(v) : ~Makes(v, x, j, S)
    BY <1>1, <1>2, <1>3, <1>5, <1>6
  <2>. QED BY <1>6, <2>1 DEF EndsClear
<1>7. CASE \E i \in 1..Len(w) : Breaks(w, i, S) /\ \A j \in i+1..Len(w) : ~Makes(w, x, j, S)
  <2>1. PICK i \in 1..Len(w) : Breaks(w, i, S) /\ \A j \in i+1..Len(w) : ~Makes(w, x, j, S)
    BY <1>7
  <2>2. \A j \in i+1..Len(v) : ~Makes(v, x, j, S)
    BY <1>1, <1>2, <1>3, <1>5, <2>1
  <2>3. i \in 1..Len(v) /\ Breaks(v, i, S)
    BY <1>1, <1>4, <1>5, <2>1
  <2>. QED BY <2>2, <2>3 DEF EndsClear
<1>. QED BY <1>6, <1>7 DEF EndsClear

\* The release of a key of S clears the flag in the end.
LEMMA ReleasedEndsClear ==
  ASSUME NEW w \in Seq(0..255), NEW x, NEW down, NEW S,
         NEW grey \in BOOLEAN, NEW code \in Codes, NEW v, v = w \o KeyBytes(grey, code),
         NEW s \in S, code = s + BreakBit
  PROVE  EndsClear(v, x, down, S)
<1>1. /\ Len(v) \in 1..Len(v) /\ v[Len(v)] = code
      /\ \A j \in Len(v)+1..Len(v) : FALSE
  BY AddedBytes DEF Added
<1>2. Breaks(v, Len(v), S)
  BY <1>1 DEF Breaks
<1>. QED BY <1>1, <1>2 DEF EndsClear

\* The handler remembers a prefix for one byte.
LEMMA CallbackExtended ==
  ASSUME TypeOK, NEW sc \in 0..255, keyboard_callback(sc)
  PROVE  extended' = (sc = Prefix)
<1>. extended \in BOOLEAN
  BY DEF TypeOK, decoder
<1>1. CASE sc = Prefix /\ PrefixByte
  BY <1>1, Zenon DEF PrefixByte
<1>2. CASE sc # Prefix /\ sc >= BreakBit /\ BreakCode(sc - BreakBit)
  BY <1>2, Zenon DEF BreakCode
<1>3. CASE sc < BreakBit /\ extended /\ ExtendedMake(sc)
  <2>1. sc # Prefix
    BY <1>3 DEF Prefix, BreakBit
  <2>. QED BY <1>3, <2>1, Zenon DEF ExtendedMake
<1>4. CASE sc < BreakBit /\ ~extended /\ (ModifierMake(sc) \/ KeyMake(sc))
  <2>1. sc # Prefix
    BY <1>4 DEF Prefix, BreakBit
  <2>. QED BY <1>4, <2>1, Zenon DEF ModifierMake, KeyMake
<1>. QED BY <1>1, <1>2, <1>3, <1>4 DEF keyboard_callback

\* It sets a modifier's flag for a make code without prefix alone, and clears it for
\* a break code.
LEMMA CallbackFlags ==
  ASSUME TypeOK, NEW sc \in 0..255, keyboard_callback(sc)
  PROVE  /\ \A s \in Shifts : sc = s + BreakBit => ~shift_down'
         /\ ~shift_down /\ shift_down' => sc \in Shifts /\ ~extended
         /\ sc = Ctrl + BreakBit => ~ctrl_down'
         /\ ~ctrl_down /\ ctrl_down' => sc = Ctrl /\ ~extended
<1>1. CASE sc = Prefix /\ PrefixByte
  <2>1. sc \notin Shifts /\ sc # Ctrl /\ sc # Ctrl + BreakBit /\ \A s \in Shifts : sc # s + BreakBit
    BY <1>1 DEF Prefix, Shifts, LeftShift, RightShift, Ctrl, BreakBit
  <2>. QED BY <1>1, <2>1, Zenon DEF PrefixByte
<1>2. CASE sc # Prefix /\ sc >= BreakBit /\ BreakCode(sc - BreakBit)
  <2>1. /\ sc - BreakBit \in {LeftShift, RightShift} => ~shift_down'
        /\ sc - BreakBit = Ctrl => ~ctrl_down'
        /\ shift_down' => shift_down
        /\ ctrl_down' => ctrl_down
    BY <1>2, Zenon DEF BreakCode
  <2>2. /\ \A s \in Shifts : sc = s + BreakBit => sc - BreakBit \in {LeftShift, RightShift}
        /\ sc = Ctrl + BreakBit => sc - BreakBit = Ctrl
    BY DEF Shifts, LeftShift, RightShift, Ctrl, BreakBit
  <2>. QED BY <2>1, <2>2, Zenon
<1>3. ASSUME sc < BreakBit
      PROVE  sc # Ctrl + BreakBit /\ \A s \in Shifts : sc # s + BreakBit
  BY <1>3 DEF Shifts, LeftShift, RightShift, Ctrl, BreakBit
<1>4. CASE sc < BreakBit /\ (ExtendedMake(sc) \/ KeyMake(sc))
  <2>1. UNCHANGED shift_down /\ UNCHANGED ctrl_down
    BY <1>4, Zenon DEF ExtendedMake, KeyMake
  <2>. QED BY <1>3, <1>4, <2>1, Zenon
<1>5. CASE sc < BreakBit /\ ~extended /\ ModifierMake(sc)
  BY <1>3, <1>5, Zenon DEF ModifierMake, Shifts
<1>. QED BY <1>1, <1>2, <1>4, <1>5, Zenon DEF keyboard_callback


\* One byte later: the places are one less, and each is prefixed as it was.
LEMMA TailBytes ==
  ASSUME NEW w \in Seq(0..255), w # << >>, NEW x, NEW x2, x2 = (w[1] = Prefix)
  PROVE  /\ Tail(w) \in Seq(0..255) /\ Len(w) \in Nat /\ Len(w) >= 1 /\ Len(Tail(w)) = Len(w) - 1
         /\ \A j \in 1..Len(w)-1 :
              Tail(w)[j] = w[j + 1] /\ (Prefixed(Tail(w), x2, j) <=> Prefixed(w, x, j + 1))
<1>1. /\ Tail(w) \in Seq(0..255) /\ Len(w) \in Nat /\ Len(w) >= 1 /\ Len(Tail(w)) = Len(w) - 1
      /\ \A j \in 1..Len(w)-1 : Tail(w)[j] = w[j + 1]
  OBVIOUS
<1>2. ASSUME NEW j \in 1..Len(w)-1
      PROVE  Prefixed(Tail(w), x2, j) <=> Prefixed(w, x, j + 1)
  <2>1. CASE j = 1
    <3>1. j + 1 # 1 /\ j + 1 - 1 = 1
      BY <2>1
    <3>2. Prefixed(w, x, j + 1) = (w[1] = Prefix)
      BY <3>1 DEF Prefixed
    <3>3. Prefixed(Tail(w), x2, j) = x2
      BY <2>1 DEF Prefixed
    <3>. QED BY <3>2, <3>3
  <2>2. CASE j # 1
    <3>1. j - 1 \in 1..Len(w)-1 /\ j - 1 + 1 = j /\ j + 1 - 1 = j /\ j + 1 # 1
      BY <1>1, <2>2
    <3>2. Tail(w)[j - 1] = w[j]
      BY <1>1, <3>1
    <3>3. Prefixed(w, x, j + 1) = (w[j] = Prefix)
      BY <3>1 DEF Prefixed
    <3>4. Prefixed(Tail(w), x2, j) = (Tail(w)[j - 1] = Prefix)
      BY <2>2 DEF Prefixed
    <3>. QED BY <3>2, <3>3, <3>4
  <2>. QED BY <2>1, <2>2
<1>. QED BY <1>1, <1>2

LEMMA ReadPaired ==
  ASSUME NEW w \in Seq(0..255), w # << >>, NEW x \in BOOLEAN, Paired(w, x),
         NEW x2, x2 = (w[1] = Prefix)
  PROVE  Paired(Tail(w), x2)
<1>1. /\ Tail(w) \in Seq(0..255) /\ Len(w) \in Nat /\ Len(w) >= 1 /\ Len(Tail(w)) = Len(w) - 1
      /\ \A j \in 1..Len(w)-1 :
           Tail(w)[j] = w[j + 1] /\ (Prefixed(Tail(w), x2, j) <=> Prefixed(w, x, j + 1))
  BY TailBytes
<1>2. ASSUME NEW j \in 1..Len(w)-1, Prefixed(Tail(w), x2, j)
      PROVE  Tail(w)[j] # Prefix
  BY <1>1, <1>2 DEF Paired
<1>3. w[Len(w)] # Prefix
  BY DEF Paired
<1>4. CASE Tail(w) = << >>
  <2>. DEFINE rest == Tail(w)
  <2>1. rest = << >> /\ Len(rest) = Len(w) - 1 /\ Len(<< >>) = 0
    BY <1>1, <1>4
  <2>. HIDE DEF rest
  <2>2. Len(w) = 1
    <3>1. Len(w) \in Nat /\ Len(w) - 1 = 0
      BY <1>1, <2>1, Zenon
    <3>. QED BY <3>1
  <2>. QED BY <1>1, <1>2, <1>3, <1>4, <2>2 DEF Paired
<1>5. CASE Tail(w) # << >>
  <2>1. Len(w) - 1 \in 1..Len(w)-1
    BY <1>1, <1>5
  <2>2. Tail(w)[Len(w) - 1] = w[Len(w)]
    BY <1>1, <2>1
  <2>. QED BY <1>1, <1>2, <1>3, <1>5, <2>2 DEF Paired
<1>. QED BY <1>4, <1>5

\* A byte that is read does to the flag what its place in the order said.
LEMMA ReadEndsClear ==
  ASSUME NEW w \in Seq(0..255), w # << >>, NEW x \in BOOLEAN, NEW x2, x2 = (w[1] = Prefix),
         NEW down \in BOOLEAN, NEW down2 \in BOOLEAN, NEW S,
         EndsClear(w, x, down, S),
         \A s \in S : w[1] = s + BreakBit => ~down2,
         ~down /\ down2 => w[1] \in S /\ ~x
  PROVE  EndsClear(Tail(w), x2, down2, S)
<1>1. /\ Tail(w) \in Seq(0..255) /\ Len(w) \in Nat /\ Len(w) >= 1 /\ Len(Tail(w)) = Len(w) - 1
      /\ \A j \in 1..Len(w)-1 :
           Tail(w)[j] = w[j + 1] /\ (Prefixed(Tail(w), x2, j) <=> Prefixed(w, x, j + 1))
  BY TailBytes
<1>2. \A j \in 1..Len(w)-1 : Makes(Tail(w), x2, j, S) <=> Makes(w, x, j + 1, S)
  BY <1>1 DEF Makes
<1>3. \A j \in 1..Len(w)-1 : Breaks(Tail(w), j, S) <=> Breaks(w, j + 1, S)
  BY <1>1 DEF Breaks
<1>4. ASSUME ~down2, \A j \in 2..Len(w) : ~Makes(w, x, j, S)
      PROVE  EndsClear(Tail(w), x2, down2, S)
  <2>1. \A j \in 1..Len(Tail(w)) : ~Makes(Tail(w), x2, j, S)
    BY <1>1, <1>2, <1>4
  <2>. QED BY <1>4, <2>1 DEF EndsClear
<1>5. CASE ~down /\ \A j \in 1..Len(w) : ~Makes(w, x, j, S)
  <2>1. ~Makes(w, x, 1, S) /\ \A j \in 2..Len(w) : ~Makes(w, x, j, S)
    BY <1>1, <1>5
  <2>2. ~down2
    BY <1>5, <2>1 DEF Makes, Prefixed
  <2>. QED BY <1>4, <2>1, <2>2
<1>6. CASE \E i \in 1..Len(w) : Breaks(w, i, S) /\ \A j \in i+1..Len(w) : ~Makes(w, x, j, S)
  <2>1. PICK i \in 1..Len(w) : Breaks(w, i, S) /\ \A j \in i+1..Len(w) : ~Makes(w, x, j, S)
    BY <1>6
  <2>2. CASE i = 1
    <3>1. ~down2
      BY <2>1, <2>2 DEF Breaks
    <3>. QED BY <1>4, <2>1, <2>2, <3>1
  <2>3. CASE i # 1
    <3>1. i - 1 \in 1..Len(w)-1 /\ i - 1 + 1 = i
      BY <1>1, <2>3
    <3>2. Breaks(Tail(w), i - 1, S)
      BY <1>3, <2>1, <3>1
    <3>3. \A j \in i-1+1..Len(Tail(w)) : ~Makes(Tail(w), x2, j, S)
      BY <1>1, <1>2, <2>1, <3>1
    <3>. QED BY <1>1, <3>1, <3>2, <3>3 DEF EndsClear
  <2>. QED BY <2>2, <2>3
<1>. QED BY <1>5, <1>6 DEF EndsClear


\* A key that goes down or up, or repeats.
LEMMA KeyWillClear ==
  ASSUME TypeOK, WillClear, NEW k \in PhysicalKeys, Press(k) \/ Release(k)
  PROVE  WillClear'
<1>1. PICK b \in {0, BreakBit} : /\ SendBytes(k, b)
                                 /\ held' = IF b = 0 THEN held \cup {k} ELSE held \ {k}
  BY DEF Press, Release, BreakBit
<1>2. PICK grey \in BOOLEAN, c \in 0..127 :
        k = <<grey, c>> /\ c + b \in Codes /\ wire' = wire \o KeyBytes(grey, c + b)
  BY <1>1, KeyAppended
<1>3. wire \in Seq(0..255) /\ extended \in BOOLEAN /\ shift_down \in BOOLEAN /\ ctrl_down \in BOOLEAN
  BY DEF TypeOK, decoder
<1>4. UNCHANGED extended /\ UNCHANGED shift_down /\ UNCHANGED ctrl_down
  BY Zenon DEF Press, Release, decoder
<1>5. Paired(wire', extended)
  BY <1>2, <1>3, SentPaired DEF WillClear
<1>6. ASSUME NEW S, S \subseteq 0..127, NEW down \in BOOLEAN, HeldOf(S)' = {},
             HeldOf(S) = {} => EndsClear(wire, extended, down, S)
      PROVE  EndsClear(wire', extended, down, S)
  <2>1. CASE HeldOf(S) # {}
    <3>1. b = BreakBit /\ grey = FALSE /\ c \in S
      <4>1. PICK s \in S : <<FALSE, s>> \in held
        BY <2>1 DEF HeldOf
      <4>2. <<FALSE, s>> \notin held'
        BY <1>6, <4>1 DEF HeldOf
      <4>3. b = BreakBit /\ k = <<FALSE, s>>
        BY <1>1, <4>1, <4>2
      <4>4. k[1] = FALSE /\ k[2] = s
        BY <4>3
      <4>5. k[1] = grey /\ k[2] = c
        BY <1>2
      <4>. QED BY <4>1, <4>3, <4>4, <4>5, Zenon
    <3>. QED BY <1>2, <1>3, <3>1, ReleasedEndsClear
  <2>2. CASE HeldOf(S) = {}
    <3>1. b = 0 => grey = TRUE \/ c \notin S
      BY <1>1, <1>2, <1>6 DEF HeldOf
    <3>2. b = BreakBit => c + b \notin S
      BY <1>6 DEF BreakBit
    <3>3. grey \/ c + b \notin S
      BY <1>1, <3>1, <3>2
    <3>. QED BY <1>2, <1>3, <1>6, <2>2, <3>3, SentEndsClear
  <2>. QED BY <2>1, <2>2
<1>7. Shifts \subseteq 0..127 /\ {Ctrl} \subseteq 0..127
  BY DEF Shifts, LeftShift, RightShift, Ctrl
<1>8. HeldOf(Shifts)' = {} => EndsClear(wire', extended', shift_down', Shifts)
  BY <1>3, <1>4, <1>6, <1>7 DEF WillClear
<1>9. HeldOf({Ctrl})' = {} => EndsClear(wire', extended', ctrl_down', {Ctrl})
  BY <1>3, <1>4, <1>6, <1>7 DEF WillClear
<1>. QED BY <1>4, <1>5, <1>8, <1>9 DEF WillClear

\* The handler reads a byte.
LEMMA IrqWillClear ==
  ASSUME TypeOK, TypeOK', WillClear, KeyboardIrq
  PROVE  WillClear'
<1>1. /\ wire \in Seq(0..255) /\ extended \in BOOLEAN
      /\ shift_down \in BOOLEAN /\ ctrl_down \in BOOLEAN
      /\ shift_down' \in BOOLEAN /\ ctrl_down' \in BOOLEAN
  BY DEF TypeOK, decoder
<1>2. wire # << >> /\ wire' = Tail(wire) /\ held' = held
  BY DEF KeyboardIrq
<1>3. wire[1] \in 0..255 /\ keyboard_callback(wire[1])
  <2>1. Head(wire) = wire[1]
    <3>1. wire \in Seq(0..255) /\ wire # << >>
      BY <1>1, <1>2
    <3>. QED BY <3>1, SMT
  <2>2. Head(wire) \in 0..255
    BY <1>1, <1>2, HeadTailProperties
  <2>. QED BY <2>1, <2>2, Zenon DEF KeyboardIrq
<1>4. extended' = (wire[1] = Prefix)
  BY <1>3, CallbackExtended
<1>5. /\ \A s \in Shifts : wire[1] = s + BreakBit => ~shift_down'
      /\ ~shift_down /\ shift_down' => wire[1] \in Shifts /\ ~extended
      /\ \A s \in {Ctrl} : wire[1] = s + BreakBit => ~ctrl_down'
      /\ ~ctrl_down /\ ctrl_down' => wire[1] \in {Ctrl} /\ ~extended
  BY <1>3, CallbackFlags
<1>6. Paired(wire', extended')
  BY <1>1, <1>2, <1>4, ReadPaired DEF WillClear
<1>7. EndsClear(wire, extended, shift_down, Shifts) => EndsClear(wire', extended', shift_down', Shifts)
  BY <1>1, <1>2, <1>4, <1>5, ReadEndsClear
<1>8. EndsClear(wire, extended, ctrl_down, {Ctrl}) => EndsClear(wire', extended', ctrl_down', {Ctrl})
  BY <1>1, <1>2, <1>4, <1>5, ReadEndsClear
<1>9. \A S : HeldOf(S)' = HeldOf(S)
  BY <1>2 DEF HeldOf
<1>. QED BY <1>6, <1>7, <1>8, <1>9 DEF WillClear

\* No modifier is stuck when all its keys are up and every byte has been read, for every
\* keyboard and any order of presses, repeats and releases.
THEOREM NoModifierIsStuck == Spec => []NoStuckModifier
<1>1. Init => WillClear
  <2> SUFFICES ASSUME Init
               PROVE  WillClear
    OBVIOUS
  <2>1. wire = << >> /\ Len(wire) = 0 /\ extended = FALSE /\ shift_down = FALSE /\ ctrl_down = FALSE
    BY DEF Init
  <2>2. Paired(wire, extended)
    BY <2>1 DEF Paired
  <2>3. EndsClear(wire, extended, shift_down, Shifts) /\ EndsClear(wire, extended, ctrl_down, {Ctrl})
    BY <2>1 DEF EndsClear
  <2>. QED BY <2>2, <2>3 DEF WillClear
<1>2. TypeOK /\ TypeOK' /\ WillClear /\ [Next]_vars => WillClear'
  <2> SUFFICES ASSUME TypeOK, TypeOK', WillClear, [Next]_vars
               PROVE  WillClear'
    OBVIOUS
  <2>1. ASSUME NEW k \in PhysicalKeys, Press(k) \/ Release(k)
        PROVE  WillClear'
    BY <2>1, KeyWillClear
  <2>2. CASE KeyboardIrq
    BY <2>2, IrqWillClear
  <2>3. ASSUME UNCHANGED <<held, wire, shift_down, ctrl_down, extended>>
        PROVE  WillClear'
    BY <2>3 DEF WillClear, HeldOf
  <2>4. CASE TimerIrq \/ UNCHANGED vars \/ \E c \in Calls : Call(c)
    BY <2>3, <2>4, Zenon DEF TimerIrq, Call, vars, device, decoder
  <2>5. CASE ThreadStep
    BY <2>3, <2>5, Zenon DEF ThreadStep, CheckEmpty, CheckNonEmpty, ReadSlot, AdvanceTail, Halt,
         CancelTest, ClearPending, device, decoder
  <2>. QED BY <2>1, <2>2, <2>4, <2>5 DEF Next
<1>3. WillClear => NoStuckModifier
  <2> SUFFICES ASSUME WillClear, wire = << >>
               PROVE  /\ ~extended
                      /\ shift_down => {<<FALSE, LeftShift>>, <<FALSE, RightShift>>} \cap held # {}
                      /\ ctrl_down => <<FALSE, Ctrl>> \in held
    BY DEF NoStuckModifier
  <2>1. \A d, S : EndsClear(wire, extended, d, S) => ~d
    BY DEF EndsClear
  <2>2. HeldOf(Shifts) = {<<FALSE, LeftShift>>, <<FALSE, RightShift>>} \cap held
    BY DEF HeldOf, Shifts
  <2>3. HeldOf({Ctrl}) # {} => <<FALSE, Ctrl>> \in held
    BY DEF HeldOf
  <2>. QED BY <2>1, <2>2, <2>3 DEF WillClear, Paired
<1>. QED BY <1>1, <1>2, <1>3, TypeCorrect, PTL DEF Spec

=============================================================================
