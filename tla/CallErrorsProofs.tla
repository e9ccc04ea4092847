--------------------------- MODULE CallErrorsProofs ---------------------------
(* For any nesting of calls, errors and panics: the thread-local counter and  *)
(* stack match the call stack, and a silenced error has a caller to take it.  *)
EXTENDS CallErrors, FiniteSetTheorems, SequenceTheorems, TLAPS

(* Arguments are converted in the innermost frame only, and a panic there     *)
(* meets the boundary of the Rust function that made the call.  An error      *)
(* raised before that call began is not under it.                             *)
ConvertingOnTop ==
  \A d \in DOMAIN stack : stack[d] = "converting" =>
    d = Len(stack) /\ d > 1 /\ stack[d - 1] \in Inbound

NotUnderConverting == Top = "converting" => Len(stack) \notin slot.under

IInv == TypeOK /\ TlsMatchesStack /\ SilencedErrorIsPending
          /\ ConvertingOnTop /\ NotUnderConverting
-----------------------------------------------------------------------------
(* What a call and a return do to the places of the frames of some kinds.     *)
PlacesIn(s, kinds) == {d \in DOMAIN s : s[d] \in kinds}

LEMMA FrontFacts ==
  ASSUME NEW S, NEW s \in Seq(S), s # <<>>
  PROVE  /\ Len(s) \in Nat \ {0} /\ Last(s) = s[Len(s)] /\ Last(s) \in S
         /\ Front(s) \in Seq(S) /\ Len(Front(s)) = Len(s) - 1
         /\ \A i \in 1 .. Len(s) - 1 : Front(s)[i] = s[i]
<1>1. /\ Len(s) \in Nat \ {0} /\ Last(s) = s[Len(s)]
      /\ \A i \in 1 .. Len(s) : s[i] \in S
  BY DEF Last
<1>2. /\ SubSeq(s, 1, Len(s) - 1) \in Seq(S)
      /\ Len(SubSeq(s, 1, Len(s) - 1)) = IF 1 <= Len(s) - 1 THEN Len(s) - 1 - 1 + 1 ELSE 0
      /\ \A i \in 1 .. Len(s) - 1 - 1 + 1 : SubSeq(s, 1, Len(s) - 1)[i] = s[1 + i - 1]
  <2>1. /\ 1 \in Int /\ Len(s) - 1 \in Int
        /\ \A i \in 1 .. Len(s) - 1 : s[i] \in S
    BY <1>1
  <2>2. QED
    BY ONLY <2>1, SubSeqProperties
<1>3. \A i \in 1 .. Len(s) - 1 : 1 + i - 1 = i
  BY <1>1
<1>4. Len(s) - 1 - 1 + 1 = Len(s) - 1
  BY <1>1
<1>5. QED
  BY <1>1, <1>2, <1>3, <1>4 DEF Front

LEMMA PlacesFinite ==
  ASSUME NEW s \in Seq(Frames), NEW kinds
  PROVE  /\ PlacesIn(s, kinds) \subseteq 1 .. Len(s)
         /\ IsFiniteSet(PlacesIn(s, kinds))
         /\ Cardinality(PlacesIn(s, kinds)) \in 0 .. Len(s)
<1>1. PlacesIn(s, kinds) \in SUBSET (1 .. Len(s)) /\ Len(s) \in Nat
  BY DEF PlacesIn
<1>2. IsFiniteSet(1 .. Len(s)) /\ Cardinality(1 .. Len(s)) = Len(s)
  <2>1. 1 \in Int /\ Len(s) \in Int
    BY <1>1
  <2>2. IsFiniteSet(1 .. Len(s)) /\ Cardinality(1 .. Len(s)) = IF 1 > Len(s) THEN 0 ELSE Len(s) - 1 + 1
    BY <2>1, FS_Interval
  <2>3. QED
    BY <1>1, <2>2
<1>3. /\ IsFiniteSet(PlacesIn(s, kinds))
      /\ Cardinality(PlacesIn(s, kinds)) <= Len(s)
  BY <1>1, <1>2, FS_Subset
<1>4. Cardinality(PlacesIn(s, kinds)) \in Nat
  BY <1>3, FS_CardinalityType
<1>5. QED
  BY <1>1, <1>3, <1>4

LEMMA PlacesPushed ==
  ASSUME NEW s \in Seq(Frames), NEW f \in Frames, NEW kinds
  PROVE  /\ PlacesIn(Append(s, f), kinds) =
              IF f \in kinds THEN PlacesIn(s, kinds) \cup {Len(s) + 1}
              ELSE PlacesIn(s, kinds)
         /\ Cardinality(PlacesIn(Append(s, f), kinds)) =
              Cardinality(PlacesIn(s, kinds)) + (IF f \in kinds THEN 1 ELSE 0)
<1>1. PlacesIn(Append(s, f), kinds) =
        IF f \in kinds THEN PlacesIn(s, kinds) \cup {Len(s) + 1}
        ELSE PlacesIn(s, kinds)
  <2>1. /\ Len(s) \in Nat /\ DOMAIN Append(s, f) = DOMAIN s \cup {Len(s) + 1}
        /\ \A i \in DOMAIN s : Append(s, f)[i] = s[i]
        /\ Append(s, f)[Len(s) + 1] = f
    OBVIOUS
  <2>2. QED
    BY <2>1 DEF PlacesIn
<1>2. IsFiniteSet(PlacesIn(s, kinds)) /\ Len(s) + 1 \notin PlacesIn(s, kinds)
  BY PlacesFinite
<1>3. Cardinality(PlacesIn(s, kinds)) \in Nat
  BY <1>2, FS_CardinalityType
<1>4. Cardinality(PlacesIn(s, kinds) \cup {Len(s) + 1}) = Cardinality(PlacesIn(s, kinds)) + 1
  BY <1>2, FS_AddElement
<1>5. QED
  BY <1>1, <1>3, <1>4

LEMMA PlacesPopped ==
  ASSUME NEW s \in Seq(Frames), s # <<>>, NEW kinds
  PROVE  /\ PlacesIn(Front(s), kinds) = PlacesIn(s, kinds) \ {Len(s)}
         /\ Len(s) \in PlacesIn(s, kinds) <=> Last(s) \in kinds
         /\ Cardinality(PlacesIn(Front(s), kinds)) =
              Cardinality(PlacesIn(s, kinds)) - (IF Last(s) \in kinds THEN 1 ELSE 0)
<1>1. /\ PlacesIn(Front(s), kinds) = PlacesIn(s, kinds) \ {Len(s)}
      /\ Len(s) \in PlacesIn(s, kinds) <=> Last(s) \in kinds
  <2>0. /\ Len(s) \in Nat \ {0} /\ Last(s) = s[Len(s)]
        /\ Front(s) \in Seq(Frames) /\ Len(Front(s)) = Len(s) - 1
        /\ \A i \in 1 .. Len(s) - 1 : Front(s)[i] = s[i]
    BY FrontFacts
  <2>1. DOMAIN s = 1 .. Len(s) /\ DOMAIN Front(s) = 1 .. Len(s) - 1
    BY <2>0
  <2>2. QED
    BY <2>0, <2>1 DEF PlacesIn
<1>2. IsFiniteSet(PlacesIn(s, kinds))
  BY PlacesFinite
<1>3. Cardinality(PlacesIn(s, kinds)) \in Nat
  BY <1>2, FS_CardinalityType
<1>4. Cardinality(PlacesIn(s, kinds) \ {Len(s)}) =
        IF Len(s) \in PlacesIn(s, kinds) THEN Cardinality(PlacesIn(s, kinds)) - 1
        ELSE Cardinality(PlacesIn(s, kinds))
  BY <1>2, FS_RemoveElement
<1>5. QED
  BY <1>1, <1>3, <1>4
-----------------------------------------------------------------------------
(* The kinds of frames, and what is known of the innermost one.               *)
LEMMA Kinds ==
  /\ Func \subseteq Inbound /\ Inbound \subseteq Frames /\ Guarded \subseteq Frames
  /\ Inbound \cap Guarded = {} /\ "outPtrcall" \notin Inbound \cup Guarded
  /\ "callback" \in Inbound /\ "converting" \in Guarded /\ "outVarcall" \in Guarded
  /\ "outPtrcall" \in Frames /\ "engine" \notin Frames
BY DEF Func, Inbound, Guarded, Frames

LEMMA TopFacts ==
  ASSUME TypeOK, Top \in Frames
  PROVE  /\ stack # <<>> /\ Top = Last(stack)
         /\ Len(stack) \in Nat \ {0} /\ Top = stack[Len(stack)]
         /\ Front(stack) \in Seq(Frames) /\ Len(Front(stack)) = Len(stack) - 1
         /\ \A i \in 1 .. Len(stack) - 1 : Front(stack)[i] = stack[i]
<1>1. stack # <<>> /\ Top = Last(stack) /\ stack \in Seq(Frames)
  BY Kinds DEF Top, TypeOK
<1>2. QED
  BY <1>1, FrontFacts

(* A frame whose arguments are converted has a Rust function below it.        *)
LEMMA BelowConverting ==
  ASSUME TypeOK, ConvertingOnTop, Top = "converting"
  PROVE  /\ Len(stack) > 1 /\ stack[Len(stack) - 1] \in Inbound
         /\ Front(stack) # <<>> /\ Last(Front(stack)) = stack[Len(stack) - 1]
<1>1. /\ Len(stack) \in Nat \ {0} /\ stack[Len(stack)] = "converting"
      /\ Front(stack) \in Seq(Frames) /\ Len(Front(stack)) = Len(stack) - 1
      /\ \A i \in 1 .. Len(stack) - 1 : Front(stack)[i] = stack[i]
  BY TopFacts, Kinds
<1>2. Len(stack) \in DOMAIN stack
  BY <1>1 DEF TypeOK
<1>3. Len(stack) > 1 /\ stack[Len(stack) - 1] \in Inbound
  BY <1>1, <1>2 DEF ConvertingOnTop
<1>4. Front(stack) # <<>> /\ Last(Front(stack)) = Front(stack)[Len(stack) - 1]
  BY <1>1, <1>3 DEF Last
<1>5. QED
  BY <1>1, <1>3, <1>4
-----------------------------------------------------------------------------
(* Calls nest as the code nests them.                                         *)
LEMMA NextStack ==
  ASSUME TypeOK, ConvertingOnTop, Next
  PROVE  stack' \in Seq(Frames) /\ Len(stack') <= MaxDepth /\ ConvertingOnTop'
<1> USE Kinds, DepthAssumption
<1>0. stack \in Seq(Frames) /\ Len(stack) <= MaxDepth /\ Len(stack) \in Nat
  BY DEF TypeOK
<1>1. ASSUME NEW f \in Frames, Push(f), Top # "converting",
             f = "converting" => Top \in Inbound
      PROVE  stack' \in Seq(Frames) /\ Len(stack') <= MaxDepth /\ ConvertingOnTop'
  <2>1. /\ stack' \in Seq(Frames) /\ Len(stack') = Len(stack) + 1
        /\ Len(stack') <= MaxDepth /\ stack'[Len(stack) + 1] = f
        /\ \A d \in 1 .. Len(stack) : stack'[d] = stack[d]
    BY <1>0, <1>1 DEF Push
  <2>2. \A d \in 1 .. Len(stack) : stack[d] # "converting"
    BY <1>0, <1>1 DEF ConvertingOnTop, Top, Last
  <2>3. f = "converting" => Len(stack) > 0 /\ stack[Len(stack)] \in Inbound
    BY <1>0, <1>1 DEF Top, Last
  <2>4. ConvertingOnTop'
    BY <1>0, <2>1, <2>2, <2>3 DEF ConvertingOnTop
  <2>5. QED
    BY <2>1, <2>4
<1>2. ASSUME Top \in Frames, Top # "converting", stack' = Front(stack)
      PROVE  stack' \in Seq(Frames) /\ Len(stack') <= MaxDepth /\ ConvertingOnTop'
  <2>1. /\ Len(stack) \in Nat \ {0} /\ stack' \in Seq(Frames)
        /\ Len(stack') = Len(stack) - 1
        /\ \A d \in 1 .. Len(stack') : stack'[d] = stack[d]
    BY <1>2, TopFacts
  <2>2. \A d \in 1 .. Len(stack) : stack[d] # "converting"
    BY <1>0, <1>2, TopFacts DEF ConvertingOnTop
  <2>3. QED
    BY <1>0, <2>1, <2>2 DEF ConvertingOnTop
<1>3. ASSUME Top = "converting"
      PROVE  \A d \in 1 .. Len(stack) - 1 : stack[d] # "converting"
  BY <1>0, <1>3 DEF ConvertingOnTop
<1>4. ASSUME NEW frame \in Inbound, Enter(frame)
      PROVE  stack' \in Seq(Frames) /\ Len(stack') <= MaxDepth /\ ConvertingOnTop'
  BY <1>1, <1>4 DEF Enter, EngineRuns, RustRuns
<1>5. ASSUME Return \/ Fail \/ Panic
      PROVE  stack' \in Seq(Frames) /\ Len(stack') <= MaxDepth /\ ConvertingOnTop'
  BY <1>2, <1>5 DEF Return, Fail, Panic, RustRuns
<1>6. ASSUME OutVarcall \/ OutPtrcall
      PROVE  stack' \in Seq(Frames) /\ Len(stack') <= MaxDepth /\ ConvertingOnTop'
  BY <1>1, <1>6 DEF OutVarcall, OutPtrcall, RustRuns
<1>7. ASSUME EnterEngine
      PROVE  stack' \in Seq(Frames) /\ Len(stack') <= MaxDepth /\ ConvertingOnTop'
  <2>1. stack' = Append(Front(stack), "outVarcall") /\ Top = "converting"
    BY <1>7 DEF EnterEngine
  <2>2. /\ Len(stack) \in Nat \ {0} /\ Front(stack) \in Seq(Frames)
        /\ Len(Front(stack)) = Len(stack) - 1
        /\ \A i \in 1 .. Len(stack) - 1 : Front(stack)[i] = stack[i]
    BY <2>1, TopFacts
  <2>3. /\ stack' \in Seq(Frames) /\ Len(stack') = Len(stack)
        /\ stack'[Len(stack)] = "outVarcall"
        /\ \A i \in 1 .. Len(stack) - 1 : stack'[i] = stack[i]
    BY <2>1, <2>2
  <2>4. QED
    BY <1>0, <1>3, <2>1, <2>2, <2>3 DEF ConvertingOnTop
<1>8. ASSUME ConversionPanics
      PROVE  stack' \in Seq(Frames) /\ Len(stack') <= MaxDepth /\ ConvertingOnTop'
  <2>1. stack' = Front(Front(stack)) /\ Top = "converting"
    BY <1>8 DEF ConversionPanics
  <2>2. /\ Front(stack) # <<>> /\ Len(stack) > 1 /\ Front(stack) \in Seq(Frames)
        /\ Len(Front(stack)) = Len(stack) - 1
        /\ \A i \in 1 .. Len(stack) - 1 : Front(stack)[i] = stack[i]
    BY <2>1, TopFacts, BelowConverting
  <2>3. /\ Front(Front(stack)) \in Seq(Frames)
        /\ Len(Front(Front(stack))) = Len(Front(stack)) - 1
        /\ \A i \in 1 .. Len(Front(stack)) - 1 : Front(Front(stack))[i] = Front(stack)[i]
    BY ONLY <2>2, FrontFacts
  <2>4. Len(stack') = Len(stack) - 2 /\ stack' \in Seq(Frames)
    BY <1>0, <2>1, <2>2, <2>3
  <2>5. \A i \in 1 .. Len(stack) - 2 : stack'[i] = stack[i]
    BY <1>0, <2>1, <2>2, <2>3
  <2>6. \A i \in DOMAIN stack' : stack'[i] # "converting"
    BY <1>0, <1>3, <2>1, <2>4, <2>5
  <2>7. QED
    BY <1>0, <2>4, <2>6 DEF ConvertingOnTop
<1>9. ASSUME NEW ok \in BOOLEAN, OutVarcallReturns(ok) \/ OutPtrcallReturns
      PROVE  stack' \in Seq(Frames) /\ Len(stack') <= MaxDepth /\ ConvertingOnTop'
  BY <1>2, <1>9 DEF OutVarcallReturns, OutPtrcallReturns
<1>10. QED
  BY <1>4, <1>5, <1>6, <1>7, <1>8, <1>9 DEF Next

(* What each step does to the places of the frames of some kinds.             *)
LEMMA EnterPlaces ==
  ASSUME TypeOK, NEW f \in Frames, Push(f), NEW kinds
  PROVE  /\ DepthsOf(kinds)' = IF f \in kinds THEN DepthsOf(kinds) \cup {Len(stack) + 1}
                               ELSE DepthsOf(kinds)
         /\ Cardinality(DepthsOf(kinds))' =
              Cardinality(DepthsOf(kinds)) + (IF f \in kinds THEN 1 ELSE 0)
<1>1. stack' = Append(stack, f) /\ stack \in Seq(Frames)
  BY DEF Push, TypeOK
<1>2. /\ DepthsOf(kinds) = PlacesIn(stack, kinds)
      /\ DepthsOf(kinds)' = PlacesIn(Append(stack, f), kinds)
  BY <1>1 DEF DepthsOf, PlacesIn
<1>3. QED
  BY <1>1, <1>2, PlacesPushed

LEMMA LeavePlaces ==
  ASSUME TypeOK, Top \in Frames, stack' = Front(stack), NEW kinds
  PROVE  /\ DepthsOf(kinds)' = DepthsOf(kinds) \ {Len(stack)}
         /\ Len(stack) \in DepthsOf(kinds) <=> Top \in kinds
         /\ Cardinality(DepthsOf(kinds))' =
              Cardinality(DepthsOf(kinds)) - (IF Top \in kinds THEN 1 ELSE 0)
<1>1. stack # <<>> /\ Top = Last(stack) /\ stack \in Seq(Frames)
  BY TopFacts DEF TypeOK
<1>2. /\ DepthsOf(kinds) = PlacesIn(stack, kinds)
      /\ DepthsOf(kinds)' = PlacesIn(Front(stack), kinds)
  BY <1>1 DEF DepthsOf, PlacesIn
<1>3. QED
  BY <1>1, <1>2, PlacesPopped

LEMMA EnterEnginePlaces ==
  ASSUME TypeOK, EnterEngine
  PROVE  DepthsOf(Guarded)' = DepthsOf(Guarded) /\ DepthsOf(Inbound)' = DepthsOf(Inbound)
<1>1. stack' = Append(Front(stack), "outVarcall") /\ Top = "converting"
  BY DEF EnterEngine
<1>2. /\ Len(stack) \in Nat \ {0} /\ Front(stack) \in Seq(Frames)
      /\ Len(Front(stack)) = Len(stack) - 1 /\ stack[Len(stack)] = "converting"
      /\ \A i \in 1 .. Len(stack) - 1 : Front(stack)[i] = stack[i]
  BY <1>1, TopFacts, Kinds
<1>3. /\ DOMAIN stack' = DOMAIN stack /\ stack'[Len(stack)] = "outVarcall"
      /\ \A i \in 1 .. Len(stack) - 1 : stack'[i] = stack[i]
  BY <1>1, <1>2 DEF TypeOK
<1>4. \A i \in DOMAIN stack : i = Len(stack) \/ i \in 1 .. Len(stack) - 1
  BY <1>2 DEF TypeOK
<1>5. QED
  BY <1>2, <1>3, <1>4, Kinds DEF DepthsOf

LEMMA ConversionPlaces ==
  ASSUME TypeOK, ConvertingOnTop, ConversionPanics
  PROVE  /\ DepthsOf(Guarded)' = DepthsOf(Guarded) \ {Len(stack)}
         /\ Len(stack) \in DepthsOf(Guarded)
         /\ Cardinality(DepthsOf(Guarded))' = Cardinality(DepthsOf(Guarded)) - 1
         /\ DepthsOf(Inbound)' = DepthsOf(Inbound) \ {Len(stack) - 1}
         /\ Len(stack) - 1 \in DepthsOf(Inbound)
         /\ Cardinality(DepthsOf(Inbound))' = Cardinality(DepthsOf(Inbound)) - 1
         /\ \A d \in DepthsOf(Inbound) : d <= Len(stack) - 1
         /\ Len(stack) \in Nat /\ Last(Front(stack)) \in Inbound
<1>1. stack' = Front(Front(stack)) /\ Top = "converting" /\ stack \in Seq(Frames)
  BY DEF ConversionPanics, TypeOK
<1>2. /\ stack # <<>> /\ Last(stack) = "converting" /\ Len(stack) \in Nat
      /\ Front(stack) \in Seq(Frames) /\ Len(Front(stack)) = Len(stack) - 1
  BY <1>1, TopFacts, Kinds
<1>3. Front(stack) # <<>> /\ Last(Front(stack)) \in Inbound
  BY <1>1, BelowConverting
<1>4. ASSUME NEW kinds
      PROVE  /\ PlacesIn(Front(stack), kinds) = PlacesIn(stack, kinds) \ {Len(stack)}
             /\ Len(stack) \in PlacesIn(stack, kinds) <=> "converting" \in kinds
             /\ Cardinality(PlacesIn(Front(stack), kinds)) =
                  Cardinality(PlacesIn(stack, kinds)) - (IF "converting" \in kinds THEN 1 ELSE 0)
  BY <1>1, <1>2, PlacesPopped
<1>5. ASSUME NEW kinds
      PROVE  /\ PlacesIn(Front(Front(stack)), kinds) = PlacesIn(Front(stack), kinds) \ {Len(stack) - 1}
             /\ Len(stack) - 1 \in PlacesIn(Front(stack), kinds) <=> Last(Front(stack)) \in kinds
             /\ Cardinality(PlacesIn(Front(Front(stack)), kinds)) =
                  Cardinality(PlacesIn(Front(stack), kinds))
                    - (IF Last(Front(stack)) \in kinds THEN 1 ELSE 0)
  BY <1>2, <1>3, PlacesPopped
<1>6. ASSUME NEW kinds
      PROVE  /\ DepthsOf(kinds) = PlacesIn(stack, kinds)
             /\ DepthsOf(kinds)' = PlacesIn(Front(Front(stack)), kinds)
             /\ DepthsOf(kinds) \subseteq 1 .. Len(stack)
             /\ Cardinality(DepthsOf(kinds)) \in Nat
  <2>1. DepthsOf(kinds) = PlacesIn(stack, kinds)
    BY DEF DepthsOf, PlacesIn
  <2>2. DepthsOf(kinds)' = PlacesIn(Front(Front(stack)), kinds)
    BY <1>1 DEF DepthsOf, PlacesIn
  <2>3. /\ PlacesIn(stack, kinds) \subseteq 1 .. Len(stack)
        /\ Cardinality(PlacesIn(stack, kinds)) \in 0 .. Len(stack)
    BY <1>1, PlacesFinite
  <2>4. QED
    BY <1>2, <2>1, <2>2, <2>3
<1>7. "converting" \in Guarded /\ "converting" \notin Inbound /\ Last(Front(stack)) \notin Guarded
  BY <1>3, Kinds
<1>8. DepthsOf(Guarded)' = DepthsOf(Guarded) \ {Len(stack)} /\ Len(stack) \in DepthsOf(Guarded)
  BY <1>4, <1>5, <1>6, <1>7
<1>9. DepthsOf(Inbound)' = DepthsOf(Inbound) \ {Len(stack) - 1}
  BY <1>4, <1>5, <1>6, <1>7
<1>10. Len(stack) - 1 \in DepthsOf(Inbound) /\ Len(stack) \notin DepthsOf(Inbound)
  BY <1>3, <1>4, <1>5, <1>6, <1>7
<1>11. Cardinality(DepthsOf(Guarded))' = Cardinality(DepthsOf(Guarded)) - 1
  BY <1>4, <1>5, <1>6, <1>7
<1>12. Cardinality(DepthsOf(Inbound))' = Cardinality(DepthsOf(Inbound)) - 1
  BY <1>3, <1>4, <1>5, <1>6, <1>7
<1>13. \A d \in DepthsOf(Inbound) : d <= Len(stack) - 1
  BY <1>2, <1>6, <1>10
<1>14. QED
  BY <1>2, <1>3, <1>8, <1>9, <1>10, <1>11, <1>12, <1>13
-----------------------------------------------------------------------------
(* The guards, or the boundaries, on the stack are finitely many.             *)
LEMMA Places ==
  ASSUME TypeOK, NEW kinds
  PROVE  /\ DepthsOf(kinds) \subseteq 1 .. Len(stack)
         /\ IsFiniteSet(DepthsOf(kinds)) /\ Cardinality(DepthsOf(kinds)) \in 0 .. Len(stack)
BY PlacesFinite DEF DepthsOf, PlacesIn, TypeOK

(* The counter follows the guards.                                            *)
LEMMA NextDepth ==
  ASSUME TypeOK, ConvertingOnTop, DepthCountsGuards, Next
  PROVE  DepthCountsGuards'
<1> USE Kinds DEF DepthCountsGuards, Guards
<1>0. Cardinality(DepthsOf(Guarded)) \in Nat
  BY Places DEF TypeOK
<1>1. ASSUME NEW frame \in Inbound, Enter(frame) PROVE DepthCountsGuards'
  <2>1. frame \in Frames /\ frame \notin Guarded /\ Push(frame) /\ UNCHANGED outDepth
    BY <1>1 DEF Enter
  <2>2. QED
    BY <1>0, <2>1, EnterPlaces
<1>2. ASSUME Return \/ Fail \/ Panic PROVE DepthCountsGuards'
  <2>1. /\ Top \in Frames /\ Top \notin Guarded /\ stack' = Front(stack)
        /\ UNCHANGED outDepth
    BY <1>2 DEF Return, Fail, Panic, RustRuns
  <2>2. QED
    BY <1>0, <2>1, LeavePlaces
<1>3. ASSUME OutVarcall PROVE DepthCountsGuards'
  <2>1. Push("converting") /\ outDepth' = outDepth + 1
    BY <1>3 DEF OutVarcall
  <2>2. QED
    BY <1>0, <2>1, EnterPlaces
<1>4. ASSUME OutPtrcall PROVE DepthCountsGuards'
  <2>1. Push("outPtrcall") /\ UNCHANGED outDepth
    BY <1>4 DEF OutPtrcall
  <2>2. QED
    BY <1>0, <2>1, EnterPlaces
<1>5. ASSUME EnterEngine PROVE DepthCountsGuards'
  BY <1>5, EnterEnginePlaces DEF EnterEngine
<1>6. ASSUME ConversionPanics PROVE DepthCountsGuards'
  BY <1>6, ConversionPlaces DEF ConversionPanics, DropGuard
<1>7. ASSUME NEW ok \in BOOLEAN, OutVarcallReturns(ok) PROVE DepthCountsGuards'
  <2>1. /\ Top \in Frames /\ Top \in Guarded /\ stack' = Front(stack)
        /\ outDepth' = outDepth - 1
    BY <1>7 DEF OutVarcallReturns, DropGuard
  <2>2. QED
    BY <1>0, <2>1, LeavePlaces
<1>8. ASSUME OutPtrcallReturns PROVE DepthCountsGuards'
  <2>1. /\ Top \in Frames /\ Top \notin Guarded /\ stack' = Front(stack)
        /\ UNCHANGED outDepth
    BY <1>8 DEF OutPtrcallReturns
  <2>2. QED
    BY <1>0, <2>1, LeavePlaces
<1>9. QED
  BY <1>1, <1>2, <1>3, <1>4, <1>5, <1>6, <1>7, <1>8 DEF Next

(* The context pushed last is that of the innermost boundary, for the others  *)
(* are of boundaries below it.                                                *)
LEMMA PoppedContext ==
  ASSUME TypeOK, ContextsAreLive, contexts' = Front(contexts), NEW top \in DepthsOf(Inbound),
         \A d \in DepthsOf(Inbound) : d <= top,
         DepthsOf(Inbound)' = DepthsOf(Inbound) \ {top},
         Cardinality(DepthsOf(Inbound))' = Cardinality(DepthsOf(Inbound)) - 1
  PROVE  contexts' \in Seq(Depths) /\ ContextsAreLive'
<1>0. DepthsOf(Inbound) \subseteq Nat /\ contexts \in Seq(Depths)
  BY Places DEF TypeOK
<1>1. contexts # <<>>
  <2>1. IsFiniteSet(DepthsOf(Inbound)) /\ DepthsOf(Inbound) # {}
    BY Places
  <2>2. Cardinality(DepthsOf(Inbound)) # 0
    BY <2>1, FS_EmptySet
  <2>3. QED
    BY <2>2 DEF ContextsAreLive
<1>2. /\ Len(contexts) \in Nat \ {0} /\ contexts' \in Seq(Depths)
      /\ Len(contexts') = Len(contexts) - 1
      /\ \A i \in 1 .. Len(contexts) - 1 : contexts'[i] = contexts[i]
  BY <1>0, <1>1, FrontFacts
<1>3. \A i \in 1 .. Len(contexts) - 1 : contexts[i] \in DepthsOf(Inbound) \ {top}
  <2> SUFFICES ASSUME NEW i \in 1 .. Len(contexts) - 1
               PROVE  contexts[i] \in DepthsOf(Inbound) /\ contexts[i] # top
    OBVIOUS
  <2>1. /\ contexts[i] \in DepthsOf(Inbound) /\ contexts[Len(contexts)] \in DepthsOf(Inbound)
        /\ contexts[i] < contexts[Len(contexts)]
    BY <1>0, <1>2 DEF ContextsAreLive
  <2>2. QED
    BY <1>0, <2>1
<1>4. QED
  BY <1>0, <1>2, <1>3 DEF ContextsAreLive

(* The context stack follows the boundaries.                                  *)
LEMMA NextContexts ==
  ASSUME TypeOK, ConvertingOnTop, ContextsAreLive, Next
  PROVE  contexts' \in Seq(Depths) /\ ContextsAreLive'
<1> USE Kinds
<1>0. /\ contexts \in Seq(Depths) /\ stack \in Seq(Frames)
      /\ Len(stack) \in Nat /\ Len(contexts) \in Nat
      /\ DepthsOf(Inbound) \subseteq 1 .. Len(stack)
      /\ Cardinality(DepthsOf(Inbound)) \in Nat
  <2>1. Cardinality(DepthsOf(Inbound)) \in 0 .. Len(stack)
    BY Places
  <2>2. QED
    BY <2>1, Places DEF TypeOK
<1>1. ASSUME NEW frame \in Inbound, Enter(frame)
      PROVE  contexts' \in Seq(Depths) /\ ContextsAreLive'
  <2>1. /\ frame \in Frames /\ Push(frame) /\ Len(stack) < MaxDepth
        /\ contexts' = Append(contexts, Len(stack) + 1)
    BY <1>1 DEF Enter, Push
  <2>2. /\ DepthsOf(Inbound)' = DepthsOf(Inbound) \cup {Len(stack) + 1}
        /\ Cardinality(DepthsOf(Inbound))' = Cardinality(DepthsOf(Inbound)) + 1
    BY <2>1, EnterPlaces
  <2>3. Len(stack) + 1 \in Depths
    BY <1>0, <2>1, DepthAssumption DEF Depths
  <2>4. /\ contexts' \in Seq(Depths) /\ Len(contexts') = Len(contexts) + 1
        /\ contexts'[Len(contexts) + 1] = Len(stack) + 1
        /\ \A i \in 1 .. Len(contexts) : contexts'[i] = contexts[i]
    BY <1>0, <2>1, <2>3
  <2>5. \A i \in 1 .. Len(contexts) : contexts[i] \in DepthsOf(Inbound) /\ contexts[i] <= Len(stack)
    BY <1>0 DEF ContextsAreLive
  <2>6. \A i \in DOMAIN contexts' : contexts'[i] \in DepthsOf(Inbound)'
    <3> SUFFICES ASSUME NEW i \in DOMAIN contexts'
                 PROVE  contexts'[i] \in DepthsOf(Inbound) \cup {Len(stack) + 1}
      BY <2>2
    <3>1. i \in 1 .. Len(contexts) \/ i = Len(contexts) + 1
      BY <1>0, <2>4
    <3>2. QED
      BY <2>4, <2>5, <3>1
  <2>7. \A i, j \in DOMAIN contexts' : i < j => contexts'[i] < contexts'[j]
    <3> SUFFICES ASSUME NEW i \in DOMAIN contexts', NEW j \in DOMAIN contexts', i < j
                 PROVE  contexts'[i] < contexts'[j]
      OBVIOUS
    <3>1. i \in 1 .. Len(contexts)
      BY <1>0, <2>4
    <3>2. CASE j = Len(contexts) + 1
      BY <1>0, <2>4, <2>5, <3>1, <3>2
    <3>3. CASE j # Len(contexts) + 1
      BY <1>0, <2>4, <3>1, <3>3 DEF ContextsAreLive
    <3>4. QED
      BY <3>2, <3>3
  <2>8. QED
    BY <1>0, <2>2, <2>4, <2>6, <2>7 DEF ContextsAreLive
<1>2. ASSUME Return \/ Fail \/ Panic
      PROVE  contexts' \in Seq(Depths) /\ ContextsAreLive'
  <2>1. /\ Top \in Frames /\ Top \in Inbound /\ stack' = Front(stack)
        /\ contexts' = Front(contexts)
    BY <1>2 DEF Return, Fail, Panic, RustRuns, PopContext, CatchPanic
  <2>2. /\ DepthsOf(Inbound)' = DepthsOf(Inbound) \ {Len(stack)}
        /\ Len(stack) \in DepthsOf(Inbound)
        /\ Cardinality(DepthsOf(Inbound))' = Cardinality(DepthsOf(Inbound)) - 1
    BY <2>1, LeavePlaces
  <2>3. \A d \in DepthsOf(Inbound) : d <= Len(stack)
    BY <1>0
  <2>4. QED
    BY <2>1, <2>2, <2>3, PoppedContext
<1>3. ASSUME ConversionPanics
      PROVE  contexts' \in Seq(Depths) /\ ContextsAreLive'
  <2>1. contexts' = Front(contexts)
    BY <1>3 DEF ConversionPanics, CatchPanic, PopContext
  <2>2. QED
    BY <1>3, <2>1, ConversionPlaces, PoppedContext
<1>4. ASSUME UNCHANGED contexts, DepthsOf(Inbound)' = DepthsOf(Inbound)
      PROVE  contexts' \in Seq(Depths) /\ ContextsAreLive'
  BY <1>0, <1>4 DEF ContextsAreLive
<1>5. ASSUME OutVarcall \/ OutPtrcall
      PROVE  DepthsOf(Inbound)' = DepthsOf(Inbound) /\ UNCHANGED contexts
  <2>1. UNCHANGED contexts
    BY <1>5 DEF OutVarcall, OutPtrcall
  <2>2. CASE OutVarcall
    BY <2>1, <2>2, EnterPlaces DEF OutVarcall
  <2>3. CASE OutPtrcall
    BY <2>1, <2>3, EnterPlaces DEF OutPtrcall
  <2>4. QED
    BY <1>5, <2>2, <2>3
<1>6. ASSUME NEW ok \in BOOLEAN, OutVarcallReturns(ok) \/ OutPtrcallReturns
      PROVE  DepthsOf(Inbound)' = DepthsOf(Inbound) /\ UNCHANGED contexts
  <2>1. /\ Top \in Frames /\ Top \notin Inbound /\ stack' = Front(stack)
        /\ UNCHANGED contexts
    BY <1>6 DEF OutVarcallReturns, OutPtrcallReturns
  <2>2. /\ DepthsOf(Inbound)' = DepthsOf(Inbound) \ {Len(stack)}
        /\ Len(stack) \notin DepthsOf(Inbound)
    BY <2>1, LeavePlaces
  <2>3. DepthsOf(Inbound) \ {Len(stack)} = DepthsOf(Inbound)
    BY <2>2
  <2>4. QED
    BY <2>1, <2>2, <2>3
<1>7. ASSUME EnterEngine
      PROVE  DepthsOf(Inbound)' = DepthsOf(Inbound) /\ UNCHANGED contexts
  BY <1>7, EnterEnginePlaces DEF EnterEngine
<1>8. QED
  BY <1>1, <1>2, <1>3, <1>4, <1>5, <1>6, <1>7 DEF Next

(* The calls in progress of an error and the report of one.                   *)
LEMMA ErrorTyped ==
  ASSUME TypeOK, NEW printed \in BOOLEAN
  PROVE  /\ Guards \subseteq Depths
         /\ Error(printed) \in Errors /\ NoError \in Errors
         /\ NoReport \in [source : Errors, own : BOOLEAN]
<1>1. Guards \subseteq 1 .. Len(stack) /\ Len(stack) \in Nat /\ Len(stack) <= MaxDepth
  BY Places DEF TypeOK, Guards
<1>2. Guards \subseteq Depths
  BY <1>1, DepthAssumption DEF Depths
<1>3. Error(printed) \in Errors /\ NoError \in Errors
  BY <1>2 DEF Error, NoError, Errors
<1>4. QED
  BY <1>2, <1>3 DEF NoReport

(* The stored error stays under calls in progress, and a silenced one under   *)
(* at least one.                                                              *)
LEMMA NextSlot ==
  ASSUME TypeOK, DepthCountsGuards, ConvertingOnTop, NotUnderConverting,
         SilencedErrorIsPending, Next
  PROVE  /\ slot' \in Errors /\ slot'.under \subseteq Guards'
         /\ report' \in [source : Errors, own : BOOLEAN]
         /\ SilencedErrorIsPending' /\ NotUnderConverting'
<1> USE Kinds
<1> DEFINE Good == /\ slot' \in Errors /\ slot'.under \subseteq Guards'
                   /\ report' \in [source : Errors, own : BOOLEAN]
                   /\ SilencedErrorIsPending' /\ NotUnderConverting'
<1>0. /\ slot \in Errors /\ slot.under \subseteq Guards
      /\ Guards = DepthsOf(Guarded) /\ Guards' = DepthsOf(Guarded)'
      /\ Guards \subseteq 1 .. Len(stack) /\ Len(stack) \in Nat
      /\ NoReport \in [source : Errors, own : BOOLEAN]
  BY ErrorTyped, Places DEF TypeOK, Guards
<1>1. ASSUME UNCHANGED slot, report' = NoReport, slot.under \subseteq Guards',
             Top' = "converting" => Len(stack') \notin slot.under
      PROVE  Good
  BY <1>0, <1>1 DEF SilencedErrorIsPending, NotUnderConverting
<1>2. ASSUME NEW f \in Frames, Push(f)
      PROVE  Guards \subseteq Guards' /\ Len(stack') \notin slot.under /\ Top' = f
  <2>1. DepthsOf(Guarded)' = IF f \in Guarded THEN DepthsOf(Guarded) \cup {Len(stack) + 1}
                             ELSE DepthsOf(Guarded)
    BY <1>2, EnterPlaces
  <2>2. stack' = Append(stack, f) /\ stack \in Seq(Frames)
    BY <1>2 DEF Push, TypeOK
  <2>3. Len(stack') = Len(stack) + 1 /\ stack' # <<>> /\ stack'[Len(stack)+ 1] = f
    BY <2>2
  <2>4. QED
    BY <1>0, <2>1, <2>3 DEF Top, Last
<1>3. ASSUME Enter("callback") \/ Enter("varcall") \/ Enter("ptrcall")
      PROVE  Good
  <2>1. PICK f \in Inbound : Enter(f)
    BY <1>3 DEF Inbound, Func
  <2>2. f \in Frames /\ f # "converting" /\ Push(f) /\ UNCHANGED slot /\ report' = NoReport
    BY <2>1 DEF Enter
  <2>3. QED
    BY <1>0, <1>1, <1>2, <2>2
<1>4. ASSUME OutVarcall \/ OutPtrcall
      PROVE  Good
  <2>1. PICK f \in {"converting", "outPtrcall"} : Push(f)
    BY <1>4 DEF OutVarcall, OutPtrcall
  <2>2. f \in Frames /\ UNCHANGED slot /\ report' = NoReport
    BY <1>4 DEF OutVarcall, OutPtrcall
  <2>3. QED
    BY <1>0, <1>1, <1>2, <2>1, <2>2
<1>5. ASSUME Top \in Frames, Top # "converting", stack' = Front(stack)
      PROVE  /\ Guards' = Guards \ {Len(stack)} /\ Top' # "converting"
             /\ Top \notin Guarded => Guards' = Guards
  <2>1. /\ DepthsOf(Guarded)' = DepthsOf(Guarded) \ {Len(stack)}
        /\ Len(stack) \in DepthsOf(Guarded) <=> Top \in Guarded
    BY <1>5, LeavePlaces
  <2>2. Top \notin Guarded => Guards \ {Len(stack)} = Guards
    BY <1>0, <2>1
  <2>3. /\ Len(stack) \in Nat \ {0} /\ Top = stack[Len(stack)]
        /\ Len(stack') = Len(stack) - 1 /\ stack' \in Seq(Frames)
        /\ \A i \in 1 .. Len(stack) - 1 : stack'[i] = stack[i]
    BY <1>5, TopFacts
  <2>4. \A i \in 1 .. Len(stack) - 1 : stack[i] # "converting"
    BY <1>0, <1>5, TopFacts DEF ConvertingOnTop, TypeOK
  <2>5. Top' # "converting"
    <3>1. CASE stack' = <<>>
      BY <3>1 DEF Top
    <3>2. CASE stack' # <<>>
      <4>1. Len(stack') \in 1 .. Len(stack) - 1
        BY <2>3, <3>2
      <4>2. stack'[Len(stack')] # "converting"
        BY <2>3, <2>4, <4>1
      <4>3. QED
        BY <3>2, <4>2 DEF Top, Last
    <3>3. QED
      BY <3>1, <3>2
  <2>6. QED
    BY <1>0, <2>1, <2>2, <2>5
<1>6. ASSUME Return PROVE Good
  <2>1. /\ Top \in Frames /\ Top # "converting" /\ Top \notin Guarded
        /\ stack' = Front(stack) /\ UNCHANGED slot /\ report' = NoReport
    BY <1>6 DEF Return, RustRuns
  <2>2. QED
    BY <1>0, <1>1, <1>5, <2>1
<1>7. ASSUME Fail PROVE Good
  <2>1. /\ Top \in Frames /\ Top # "converting" /\ Top \notin Guarded
        /\ stack' = Front(stack) /\ slot' = Error(Printed) /\ report' = NoReport
    BY <1>7 DEF Fail
  <2>2. Printed <=> Guards = {}
    BY Places, FS_EmptySet, <1>0 DEF DepthCountsGuards, Printed
  <2>3. Printed \in BOOLEAN
    BY DEF Printed
  <2>4. slot' \in Errors /\ slot'.under = Guards /\ slot'.printed = Printed
    BY <2>1, <2>3, ErrorTyped DEF Error
  <2>5. Guards' = Guards /\ Top' # "converting"
    BY <1>5, <2>1
  <2>6. QED
    BY <1>0, <2>1, <2>2, <2>4, <2>5 DEF SilencedErrorIsPending, NotUnderConverting
<1>8. ASSUME NEW frame, CatchPanic(frame), Top' # "converting",
             Guards \ {Len(stack)} \subseteq Guards',
             frame \notin Func => slot.under \subseteq Guards'
      PROVE  Good
  <2>1. CASE frame \in Func
    <3>1. slot' = [Error(TRUE) EXCEPT !.under = @ \ {Len(stack)}] /\ report' = NoReport
      BY <1>8, <2>1 DEF CatchPanic
    <3>2. slot' = [under |-> Guards \ {Len(stack)}, printed |-> TRUE, set |-> TRUE]
      BY <3>1 DEF Error
    <3>3. slot' \in Errors
      BY <3>2, ErrorTyped DEF Errors
    <3>4. report' = NoReport
      BY <3>1
    <3>5. slot'.printed /\ slot'.under \subseteq Guards'
      BY <1>8, <3>2
    <3>6. QED
      BY <1>0, <1>8, <3>3, <3>4, <3>5 DEF SilencedErrorIsPending, NotUnderConverting
  <2>2. CASE frame \notin Func
    <3>1. UNCHANGED slot /\ report' = NoReport
      BY <1>8, <2>2 DEF CatchPanic
    <3>2. QED
      BY <1>1, <1>8, <2>2, <3>1
  <2>3. QED
    BY <2>1, <2>2
<1>9. ASSUME Panic PROVE Good
  <2>1. /\ Top \in Frames /\ Top # "converting" /\ Top \notin Guarded
        /\ stack' = Front(stack) /\ CatchPanic(Top)
    BY <1>9 DEF Panic, RustRuns
  <2>2. QED
    BY <1>0, <1>5, <1>8, <2>1
<1>10. ASSUME ConversionPanics PROVE Good
  <2>1. Top = "converting" /\ CatchPanic(Last(Front(stack))) /\ stack' = Front(Front(stack))
    BY <1>10 DEF ConversionPanics
  <2>2. Guards' = Guards \ {Len(stack)}
    BY <1>0, <1>10, ConversionPlaces
  <2>3. slot.under \subseteq Guards'
    BY <1>0, <2>1, <2>2 DEF NotUnderConverting
  <2>4. Top' # "converting"
    <3>1. stack' \in Seq(Frames) /\ ConvertingOnTop' /\ Len(stack') \in Nat
      BY NextStack
    <3>2. Len(stack) \in Guards /\ \A d \in Guards' : d # Len(stack)
      BY <1>0, <1>10, <2>2, ConversionPlaces
    <3>3. /\ Len(stack) > 1 /\ Front(stack) \in Seq(Frames) /\ Front(stack) # <<>>
          /\ Len(Front(stack)) = Len(stack) - 1
          /\ \A i \in 1 .. Len(stack) - 1 : Front(stack)[i] = stack[i]
      BY <2>1, TopFacts, BelowConverting
    <3>4. /\ Len(stack') = Len(Front(stack)) - 1
          /\ \A i \in 1 .. Len(Front(stack)) - 1 : stack'[i] = Front(stack)[i]
      BY ONLY <2>1, <3>3, FrontFacts
    <3>5. \A i \in 1 .. Len(stack) - 2 : stack'[i] = stack[i]
      BY <1>0, <3>3, <3>4
    <3>6. \A i \in 1 .. Len(stack) - 1 : stack[i] # "converting"
      BY <1>0 DEF ConvertingOnTop, TypeOK
    <3>7. CASE stack' = <<>>
      BY <3>7 DEF Top
    <3>8. CASE stack' # <<>>
      <4>1. Len(stack') \in 1 .. Len(stack) - 2
        BY <1>0, <3>1, <3>3, <3>4, <3>8
      <4>2. stack'[Len(stack')] # "converting"
        BY <1>0, <3>5, <3>6, <4>1
      <4>3. QED
        BY <3>8, <4>2 DEF Top, Last
    <3>9. QED
      BY <3>7, <3>8
  <2>5. QED
    BY <1>8, <2>1, <2>2, <2>3, <2>4
<1>11. ASSUME EnterEngine PROVE Good
  <2>1. /\ UNCHANGED slot /\ report' = NoReport /\ Top = "converting"
        /\ stack' = Append(Front(stack), "outVarcall")
    BY <1>11 DEF EnterEngine
  <2>2. Guards' = Guards
    BY <1>0, <1>11, EnterEnginePlaces
  <2>3. Front(stack) \in Seq(Frames)
    BY <2>1, TopFacts
  <2>4. stack' # <<>> /\ stack'[Len(stack')] = "outVarcall"
    BY <2>1, <2>3
  <2>5. Top' = "outVarcall"
    BY <2>4 DEF Top, Last
  <2>6. QED
    BY <1>0, <1>1, <2>1, <2>2, <2>5
<1>12. ASSUME NEW ok \in BOOLEAN, OutVarcallReturns(ok) PROVE Good
  <2>1. /\ Top \in Frames /\ Top # "converting" /\ stack' = Front(stack)
        /\ slot' = NoError
        /\ report' = IF ok \/ ~slot.set THEN NoReport
                     ELSE [source |-> slot, own |-> Len(stack) \in slot.under]
    BY <1>12 DEF OutVarcallReturns, TakeError
  <2>2. Top' # "converting"
    BY <1>5, <2>1
  <2>3. report' \in [source : Errors, own : BOOLEAN]
    BY <1>0, <2>1
  <2>4. NoError \in Errors /\ NoError.under = {} /\ NoError.printed
    BY ErrorTyped DEF NoError
  <2>5. QED
    BY <2>1, <2>2, <2>3, <2>4 DEF SilencedErrorIsPending, NotUnderConverting
<1>13. ASSUME OutPtrcallReturns PROVE Good
  <2>1. /\ Top \in Frames /\ Top # "converting" /\ Top \notin Guarded
        /\ stack' = Front(stack) /\ UNCHANGED slot /\ report' = NoReport
    BY <1>13 DEF OutPtrcallReturns
  <2>2. QED
    BY <1>0, <1>1, <1>5, <2>1
<1>14. Good
  BY <1>3, <1>4, <1>6, <1>7, <1>9, <1>10, <1>11, <1>12, <1>13 DEF Next, Inbound, Func
<1>15. QED
  BY <1>14
-----------------------------------------------------------------------------
(* The inductive invariant.                                                   *)
LEMMA InitIInv == Init => IInv
<1> SUFFICES ASSUME Init PROVE IInv
  OBVIOUS
<1>1. /\ stack = <<>> /\ outDepth = 0 /\ contexts = <<>>
      /\ slot = NoError /\ report = NoReport
  BY DEF Init
<1>2. DepthsOf(Guarded) = {} /\ DepthsOf(Inbound) = {} /\ Cardinality({}) = 0
  BY <1>1, FS_EmptySet DEF DepthsOf
<1>3. NoError \in Errors /\ NoReport \in [source : Errors, own : BOOLEAN]
  BY DEF NoError, NoReport, Errors
<1>4. TypeOK
  BY <1>1, <1>3, DepthAssumption DEF TypeOK, NoError
<1>5. TlsMatchesStack
  BY <1>1, <1>2 DEF TlsMatchesStack, DepthCountsGuards, ContextsAreLive, Guards
<1>6. SilencedErrorIsPending /\ ConvertingOnTop /\ NotUnderConverting
  BY <1>1 DEF SilencedErrorIsPending, ConvertingOnTop, NotUnderConverting, NoError, Top
<1>7. QED
  BY <1>4, <1>5, <1>6 DEF IInv

LEMMA NextIInv == IInv /\ [Next]_vars => IInv'
<1> SUFFICES ASSUME IInv, [Next]_vars PROVE IInv'
  OBVIOUS
<1> USE DEF IInv, TlsMatchesStack
<1>1. CASE Next
  <2>1. /\ stack' \in Seq(Frames) /\ Len(stack') <= MaxDepth /\ ConvertingOnTop'
    BY <1>1, NextStack
  <2>2. DepthCountsGuards'
    BY <1>1, NextDepth
  <2>3. contexts' \in Seq(Depths) /\ ContextsAreLive'
    BY <1>1, NextContexts
  <2>4. /\ slot' \in Errors /\ slot'.under \subseteq Guards'
        /\ report' \in [source : Errors, own : BOOLEAN]
        /\ SilencedErrorIsPending' /\ NotUnderConverting'
    BY <1>1, NextSlot
  <2>5. outDepth' \in 0 .. MaxDepth
    <3>1. /\ Guards' = PlacesIn(stack', Guarded) /\ outDepth' = Cardinality(Guards')
          /\ Len(stack') \in Nat
      BY <2>1, <2>2 DEF DepthCountsGuards, Guards, DepthsOf, PlacesIn
    <3>2. Cardinality(PlacesIn(stack', Guarded)) \in 0 .. Len(stack')
      BY ONLY <2>1, PlacesFinite
    <3>3. QED
      BY <2>1, <3>1, <3>2, DepthAssumption
  <2>6. TypeOK'
    BY <2>1, <2>3, <2>4, <2>5 DEF TypeOK
  <2>7. QED
    BY <2>1, <2>2, <2>3, <2>4, <2>6
<1>2. CASE UNCHANGED vars
  BY <1>2 DEF vars, TypeOK, DepthCountsGuards, ContextsAreLive, SilencedErrorIsPending,
              ConvertingOnTop, NotUnderConverting, Guards, DepthsOf, Top
<1>3. QED
  BY <1>1, <1>2

LEMMA SpecIInv == Spec => []IInv
<1>1. QED
  BY InitIInv, NextIInv, PTL DEF Spec

(* For every bound on nesting, the variables keep their types: the counter    *)
(* of out-calls never goes below zero.                                        *)
THEOREM SpecTypeOK == Spec => []TypeOK
<1>1. IInv => TypeOK
  BY DEF IInv
<1>2. QED
  BY <1>1, SpecIInv, PTL

(* However calls nest and whatever panics, in user code or while arguments    *)
(* are converted, OUT_CALL_DEPTH counts the live guards and the panic         *)
(* contexts are those of the boundaries on the stack.                         *)
THEOREM SpecTlsMatchesStack == Spec => []TlsMatchesStack
<1>1. IInv => TlsMatchesStack
  BY DEF IInv
<1>2. QED
  BY <1>1, SpecIInv, PTL

(* An error that report_call_error kept from the console is always under an   *)
(* out-call in progress, whose check_out_varcall takes it.                    *)
THEOREM SpecSilencedErrorIsPending == Spec => []SilencedErrorIsPending
<1>1. IInv => SilencedErrorIsPending
  BY DEF IInv
<1>2. QED
  BY <1>1, SpecIInv, PTL
=============================================================================
