------------------------- MODULE ClientPagesProofs -------------------------
(***************************************************************************)
(* Two pages of the client: the image editor tells its callers the truth,  *)
(* names the image it shows and implements the undo log; the admin pages   *)
(* show the user's own writes, seed their forms from them and guard edits  *)
(* that are not saved.                                                     *)
(***************************************************************************)
EXTENDS ImageEditor, ResourceAdmin, SequenceTheorems, TLAPS

-----------------------------------------------------------------------------
(* The image editor.  Its edit states are told apart from the values that   *)
(* computing may give by EditOK; which of them the history, the gestures    *)
(* and the canvas hold is kept as one set, so that a step that moves a      *)
(* state from one to another preserves it at once.                          *)

(* Every remembered edit state is one of the editor's. *)
EditsIn(S) ==
    /\ \A e \in S : EditOK(e)
    /\ past \in Seq(S) /\ future \in Seq(S)
    /\ edit \in S /\ initial \in S
    /\ preStraighten = <<>> \/ \E e \in S : preStraighten = <<e>>
    /\ drag = <<>> \/ \E h \in Handles, e \in S : drag = <<[handle |-> h, orig |-> e]>>

(* The states the editor holds at the moment. *)
Held == {edit, initial} \cup Range(past) \cup Range(future) \cup Range(preStraighten)
           \cup {d.orig : d \in Range(drag)}

(* Until gestures overlap there is one at a time. *)
OneGesture == mixed = "none" => preStraighten = <<>> \/ drag = <<>>

RestOK ==
    /\ flags \in [canUndo : BOOLEAN, canRedo : BOOLEAN, isDirty : BOOLEAN, isDragging : BOOLEAN]
    /\ view \in Views
    /\ status \in {"idle", "loading", "loaded", "error"}
    /\ mounted \in {"never", "mounted", "unmounted", "destroyed"}
    /\ mixed \in {"none", "edit", "image"}

EditorInv ==
    EditsIn(Held) /\ RestOK /\ HistoryTold /\ DirtyTold /\ ShownIsNamed /\ OneGesture

(* Fractions are pairs, whatever is computed with them. *)
LEMMA FractionsArePairs ==
  /\ Len(NaN) = 2 /\ Len(Zero) = 2 /\ Len(One) = 2
  /\ \A n, d : Len(Frac(n, d)) = 2
  /\ \A a, b : Len(Over(a, b)) = 2
  /\ \A a : Len(Neg(a)) = 2
  <1>1. Len(NaN) = 2 /\ Len(Zero) = 2 /\ Len(One) = 2
    BY DEF NaN, Zero, One, Int2Frac
  <1>2. ASSUME NEW n, NEW d PROVE Len(Frac(n, d)) = 2
    BY <1>1 DEF Frac
  <1>3. ASSUME NEW a, NEW b PROVE Len(Over(a, b)) = 2
    BY <1>1, <1>2 DEF Over
  <1>4. ASSUME NEW a PROVE Len(Neg(a)) = 2
    BY DEF Neg
  <1> QED BY <1>1, <1>2, <1>3, <1>4

(* Math.max and Math.min answer one of their arguments or NaN. *)
LEMMA ExtremesArePairs ==
  ASSUME NEW a, NEW b, Len(a) = 2, Len(b) = 2
  PROVE  Len(Larger(a, b)) = 2 /\ Len(Smaller(a, b)) = 2
  BY FractionsArePairs DEF Larger, Smaller

(* computeMinScale answers a fraction, *)
LEMMA ScaleIsPair ==
  ASSUME NEW w, NEW h, NEW img, NEW c, NEW s PROVE Len(computeMinScale(w, h, img, c, s)) = 2
  BY FractionsArePairs, ExtremesArePairs DEF computeMinScale

(* computeTranslationBounds two of them, *)
LEMMA BoundsArePairs ==
  ASSUME NEW w, NEW h, NEW img, NEW scale, NEW c, NEW s
  PROVE  /\ Len(computeTranslationBounds(w, h, img, scale, c, s).tx) = 2
         /\ Len(computeTranslationBounds(w, h, img, scale, c, s).ty) = 2
  BY FractionsArePairs, ExtremesArePairs DEF computeTranslationBounds

(* and a shift that is clamped stays one. *)
LEMMA ClampIsPair ==
  ASSUME NEW x, NEW max, Len(x) = 2, Len(max) = 2 PROVE Len(clampTranslation(x, max)) = 2
  BY FractionsArePairs, ExtremesArePairs DEF clampTranslation

(* A window and a scale fitted to an edit make an edit. *)
LEMMA FitIsEdit == ASSUME NEW e, EditOK(e), NEW w, NEW h PROVE EditOK(Fit(e, w, h))
  <1>1. PICK scale : scale = Larger(e.scale, computeMinScale(w, h, image, Angle(e).c, Angle(e).s))
    OBVIOUS
  <1>2. Len(scale) = 2
    BY <1>1, ScaleIsPair, ExtremesArePairs DEF EditOK
  <1>3. PICK max : max = computeTranslationBounds(w, h, image, scale, Angle(e).c, Angle(e).s)
    OBVIOUS
  <1>4. Len(max.tx) = 2 /\ Len(max.ty) = 2
    BY <1>3, BoundsArePairs
  <1>5. PICK tx, ty : tx = clampTranslation(e.tx, max.tx) /\ ty = clampTranslation(e.ty, max.ty)
    OBVIOUS
  <1>6. Len(tx) = 2 /\ Len(ty) = 2
    BY <1>4, <1>5, ClampIsPair DEF EditOK
  <1>7. Fit(e, w, h) = [e EXCEPT !.w = w, !.h = h, !.scale = scale, !.tx = tx, !.ty = ty]
    BY <1>1, <1>3, <1>5 DEF Fit, EditOK, Fresh
  <1> QED BY <1>2, <1>6, <1>7 DEF EditOK, Fresh

(* The states that are held are the ones some set of edits contains. *)
LEMMA HeldNext == ASSUME NEW S, EditsIn(S)' PROVE EditsIn(Held)'
  <1> DEFINE H == {edit', initial'} \cup Range(past') \cup Range(future') \cup Range(preStraighten')
                     \cup {d.orig : d \in Range(drag')}
  <1>1. past' \in Seq(S) /\ future' \in Seq(S)
    BY DEF EditsIn
  <1>2. past' \in Seq(Range(past')) /\ future' \in Seq(Range(future'))
    BY <1>1, SeqOfRange
  <1>3. Range(past') \subseteq H /\ Range(future') \subseteq H
    OBVIOUS
  <1>4. past' \in Seq(H) /\ future' \in Seq(H)
    <2> HIDE DEF H
    <2> QED BY <1>2, <1>3, SeqMonotonic
  <1>5. preStraighten' = <<>> \/ \E e \in S \cap H : preStraighten' = <<e>>
    <2>1. CASE preStraighten' = <<>>
      BY <2>1
    <2>2. CASE preStraighten' # <<>>
      <3>1. PICK e \in S : preStraighten' = <<e>>
        BY <2>2 DEF EditsIn
      <3>2. e \in Range(preStraighten')
        BY <3>1 DEF Range
      <3> QED BY <3>1, <3>2
    <2> QED BY <2>1, <2>2
  <1>6. drag' = <<>> \/ \E h \in Handles, e \in S \cap H : drag' = <<[handle |-> h, orig |-> e]>>
    <2>1. CASE drag' = <<>>
      BY <2>1
    <2>2. CASE drag' # <<>>
      <3>1. PICK h \in Handles, e \in S : drag' = <<[handle |-> h, orig |-> e]>>
        BY <2>2 DEF EditsIn
      <3>2. [handle |-> h, orig |-> e] \in Range(drag')
        BY <3>1 DEF Range
      <3>3. e \in {d.orig : d \in Range(drag')}
        BY <3>2
      <3> QED BY <3>1, <3>3
    <2> QED BY <2>1, <2>2
  <1>7. H \subseteq S
    <2>1. Range(past') \subseteq S /\ Range(future') \subseteq S
      BY <1>1, RangeOfSeq
    <2>2. Range(preStraighten') \subseteq S
      BY <1>5 DEF Range
    <2>3. {d.orig : d \in Range(drag')} \subseteq S
      BY <1>6 DEF Range
    <2>4. edit' \in S /\ initial' \in S
      BY DEF EditsIn
    <2> QED BY <2>1, <2>2, <2>3, <2>4
  <1>8. \A e \in H : EditOK(e)
    BY <1>7 DEF EditsIn
  <1>9. edit' \in H /\ initial' \in H
    OBVIOUS
  <1>10. Held' = H
    BY DEF Held
  <1> HIDE DEF H
  <1> QED BY <1>4, <1>5, <1>6, <1>8, <1>9, <1>10 DEF EditsIn

(* One more edit state may be held. *)
LEMMA MoreEdits ==
  ASSUME NEW S, EditsIn(S), NEW e, EditOK(e)
  PROVE  EditsIn(S \cup {e})
  <1>1. past \in Seq(S \cup {e}) /\ future \in Seq(S \cup {e})
    <2>1. PICK T : T = S \cup {e}
      OBVIOUS
    <2>2. S \subseteq T /\ past \in Seq(S) /\ future \in Seq(S)
      BY <2>1 DEF EditsIn
    <2> QED BY <2>1, <2>2, SeqMonotonic
  <1> QED BY <1>1 DEF EditsIn

(* What pushing onto the history does to it. *)
LEMMA Pushed ==
  ASSUME NEW S, EditsIn(S), HistoryTold, NEW e \in S, pushHistory(e)
  PROVE  /\ past' \in Seq(S) /\ past' # <<>> /\ future' = <<>>
         /\ Len(past') + Len(future') <= MaxHistory
  <1>1. past \in Seq(S) /\ future \in Seq(S) /\ MaxHistory \in Nat \ {0}
    BY EditorAssumption DEF EditsIn
  <1>2. Len(past) \in Nat /\ Len(future) \in Nat /\ Len(past) <= MaxHistory
    BY <1>1 DEF HistoryTold
  <1>3. future' = <<>> /\ Len(future') = 0
    BY DEF pushHistory
  <1>4. CASE Len(past) = MaxHistory
    <2>1. past # <<>>
      BY <1>1, <1>4
    <2>2. PICK q : q = Tail(past)
      OBVIOUS
    <2>3. q \in Seq(S) /\ Len(q) = Len(past) - 1
      BY <1>1, <2>1, <2>2, HeadTailProperties
    <2>4. past' = Append(q, e)
      BY <1>4, <2>2 DEF pushHistory
    <2>5. past' \in Seq(S) /\ past' # <<>> /\ Len(past') = Len(q) + 1
      BY <2>3, <2>4, AppendProperties
    <2> QED BY <1>1, <1>2, <1>3, <1>4, <2>3, <2>5
  <1>5. CASE Len(past) # MaxHistory
    <2>1. past' = Append(past, e)
      BY <1>5 DEF pushHistory
    <2>2. past' \in Seq(S) /\ past' # <<>> /\ Len(past') = Len(past) + 1
      BY <1>1, <2>1, AppendProperties
    <2> QED BY <1>1, <1>2, <1>3, <1>5, <2>2
  <1> QED BY <1>4, <1>5

(* The editor as it is made. *)
LEMMA EditorStarts == Init => EditorInv
  <1> SUFFICES ASSUME Init PROVE EditorInv
    OBVIOUS
  <1>1. EditOK(edit)
    BY FractionsArePairs, EditorAssumption DEF Init, EditOK, Fresh, Templates
  <1>2. EditsIn(Held)
    <2>1. /\ past = <<>> /\ future = <<>> /\ preStraighten = <<>> /\ drag = <<>> /\ initial = edit
      BY DEF Init
    <2>2. Range(<<>>) = {}
      BY DEF Range
    <2>3. Held = {edit}
      BY <2>1, <2>2 DEF Held
    <2> QED BY <1>1, <2>1, <2>3, EmptySeq DEF EditsIn
  <1>3. RestOK
    BY DEF Init, RestOK, Quiet, FitView, Views, ZoomMin, ZoomMax
  <1>4. HistoryTold
    <2>1. Len(past) = 0 /\ Len(future) = 0 /\ past = <<>> /\ future = <<>>
      BY DEF Init
    <2> QED BY <2>1, EditorAssumption DEF Init, HistoryTold, Quiet
  <1>5. DirtyTold
    BY DEF Init, DirtyTold, Quiet, Differs, Fresh, One, Zero, NaN, Int2Frac
  <1>6. ShownIsNamed /\ OneGesture
    BY DEF Init, ShownIsNamed, OneGesture
  <1> QED BY <1>2, <1>3, <1>4, <1>5, <1>6 DEF EditorInv

(* One undoable step to an edit e, whichever button or key asks for it. *)
LEMMA UpdateStep ==
  ASSUME EditorInv, NEW e, EditOK(e), pushHistoryAndUpdate(e), Rest PROVE EditorInv'
  <1> USE DEF Rest, load, gesture
  <1>1. PICK S : S = Held \cup {e} /\ EditsIn(S)
    BY MoreEdits DEF EditorInv
  <1>2. /\ past' \in Seq(S) /\ past' # <<>> /\ future' = <<>>
        /\ Len(past') + Len(future') <= MaxHistory
    <2>1. edit \in S
      BY <1>1 DEF EditsIn
    <2> QED BY <1>1, <2>1, Pushed DEF EditorInv, pushHistoryAndUpdate
  <1>3. EditsIn(S)'
    <2>1. edit' \in S /\ initial' = initial /\ preStraighten' = preStraighten /\ drag' = drag
      BY <1>1 DEF pushHistoryAndUpdate
    <2>2. future' \in Seq(S)
      BY <1>2, EmptySeq
    <2> QED BY <1>1, <1>2, <2>1, <2>2 DEF EditsIn
  <1>4. /\ flags' \in [canUndo : BOOLEAN, canRedo : BOOLEAN, isDirty : BOOLEAN, isDragging : BOOLEAN]
        /\ flags'.canUndo = TRUE /\ flags'.canRedo = FALSE /\ flags'.isDirty = Differs(e, initial)
    <2>1. flags' = [flags EXCEPT !.canUndo = TRUE, !.canRedo = FALSE, !.isDirty = Differs(e, initial)]
      BY DEF pushHistoryAndUpdate
    <2>2. Differs(e, initial) \in BOOLEAN
      BY DEF Differs
    <2> QED BY <2>1, <2>2 DEF EditorInv, RestOK
  <1>5. mixed' \in {mixed, "edit"}
    BY DEF pushHistoryAndUpdate, Overlap
  <1>6. RestOK'
    BY <1>4, <1>5 DEF EditorInv, RestOK
  <1>7. HistoryTold'
    BY <1>2, <1>4 DEF HistoryTold
  <1>8. DirtyTold'
    BY <1>4 DEF DirtyTold, pushHistoryAndUpdate
  <1>9. ShownIsNamed' /\ OneGesture'
    BY <1>5 DEF EditorInv, ShownIsNamed, OneGesture
  <1> QED BY <1>3, <1>6, <1>7, <1>8, <1>9, HeldNext DEF EditorInv

(* The buttons and keys that edit in one step. *)
LEMMA OneStepEdits ==
  ASSUME EditorInv,
         \/ \E m \in {"crop", "cover", "fit"} : setResizeMode(m)
         \/ \E by \in {90, 270} : rotate(by)
         \/ toggleFlipHorizontal \/ toggleFlipVertical \/ reset
         \/ \E t \in Templates : applyTemplate(t)
  PROVE  EditorInv'
  <1>1. EditOK(edit) /\ EditOK(initial)
    BY DEF EditorInv, EditsIn
  <1>2. ASSUME NEW m \in {"crop", "cover", "fit"}, setResizeMode(m) PROVE EditorInv'
    <2>1. PICK e : e = [edit EXCEPT !.resizeMode = m]
      OBVIOUS
    <2>2. EditOK(e)
      BY <1>1, <2>1 DEF EditOK, Fresh
    <2> QED BY <1>2, <2>1, <2>2, UpdateStep DEF setResizeMode
  <1>3. ASSUME NEW by \in {90, 270}, rotate(by) PROVE EditorInv'
    <2>1. PICK turned : turned = [edit EXCEPT !.rotation = quarterTurn(edit.rotation + by)]
      OBVIOUS
    <2>2. quarterTurn(edit.rotation + by) \in {0, 90, 180, 270}
      BY <1>1 DEF EditOK, quarterTurn
    <2>3. EditOK(turned)
      BY <1>1, <2>1, <2>2 DEF EditOK, Fresh
    <2>4. PICK e : e = Fit(turned, edit.w, edit.h) /\ EditOK(e)
      BY <2>3, FitIsEdit
    <2>5. pushHistoryAndUpdate(e) /\ Rest
      BY <1>1, <1>3, <2>1, <2>4 DEF rotate, EditOK, Fresh
    <2> QED BY <2>4, <2>5, UpdateStep
  <1>4. CASE toggleFlipHorizontal
    <2>1. PICK e : e = [edit EXCEPT !.flipH = ~edit.flipH]
      OBVIOUS
    <2>2. EditOK(e)
      BY <1>1, <2>1 DEF EditOK, Fresh
    <2>3. pushHistoryAndUpdate(e) /\ Rest
      BY <1>1, <1>4, <2>1 DEF toggleFlipHorizontal, EditOK, Fresh
    <2> QED BY <2>2, <2>3, UpdateStep
  <1>5. CASE toggleFlipVertical
    <2>1. PICK e : e = [edit EXCEPT !.flipV = ~edit.flipV]
      OBVIOUS
    <2>2. EditOK(e)
      BY <1>1, <2>1 DEF EditOK, Fresh
    <2>3. pushHistoryAndUpdate(e) /\ Rest
      BY <1>1, <1>5, <2>1 DEF toggleFlipVertical, EditOK, Fresh
    <2> QED BY <2>2, <2>3, UpdateStep
  <1>6. CASE reset
    BY <1>1, <1>6, UpdateStep DEF reset
  <1>7. ASSUME NEW t \in Templates, applyTemplate(t) PROVE EditorInv'
    <2>1. PICK e : e = [edit EXCEPT !.template = IF edit.template = t THEN None ELSE t]
      OBVIOUS
    <2>2. EditOK(e)
      BY <1>1, <2>1 DEF EditOK, Fresh
    <2>3. PICK box : box = applyCropTemplate(Ratio[t], image)
      OBVIOUS
    <2>4. EditOK(Fit(e, box.w, box.h))
      BY <2>2, FitIsEdit
    <2>5. PICK x : /\ x = IF edit.template = t \/ Ratio[t] = Zero THEN e ELSE Fit(e, box.w, box.h)
                   /\ EditOK(x)
      BY <2>2, <2>4
    <2>6. pushHistoryAndUpdate(x) /\ Rest
      BY <1>7, <2>1, <2>3, <2>5 DEF applyTemplate
    <2> QED BY <2>5, <2>6, UpdateStep
  <1> QED BY <1>2, <1>3, <1>4, <1>5, <1>6, <1>7

(* The slider moves: a gesture is under way, and isDirty waits for its end. *)
LEMMA StraightenStep ==
  ASSUME EditorInv, NEW d \in Straightens, setStraighten(d) PROVE EditorInv'
  <1> USE DEF load, history
  <1>1. EditOK(edit)
    BY DEF EditorInv, EditsIn
  <1>2. PICK e : e = [edit EXCEPT !.straighten = d]
    OBVIOUS
  <1>3. EditOK(e)
    BY <1>1, <1>2 DEF EditOK, Fresh
  <1>4. PICK x : x = Fit(e, edit.w, edit.h) /\ EditOK(x)
    BY <1>3, FitIsEdit
  <1>5. edit' = x
    BY <1>2, <1>4 DEF setStraighten
  <1>6. PICK S : S = Held \cup {x} /\ EditsIn(S)
    BY <1>4, MoreEdits DEF EditorInv
  <1>7. preStraighten' = <<edit>> \/ (preStraighten # <<>> /\ preStraighten' = preStraighten)
    BY DEF setStraighten
  <1>8. EditsIn(S)'
    <2>1. \E y \in S : preStraighten' = <<y>>
      BY <1>6, <1>7 DEF EditsIn
    <2>2. UNCHANGED <<initial, past, future, drag>> /\ edit' \in S
      BY <1>5, <1>6 DEF setStraighten
    <2> QED BY <1>6, <2>1, <2>2 DEF EditsIn
  <1>9. preStraighten' # <<>>
    BY <1>7
  <1>10. /\ UNCHANGED <<past, future, flags, view, image, status, src, mounted, drag>>
         /\ mixed' = Overlap(drag # <<>>)
    BY DEF setStraighten
  <1>11. RestOK' /\ HistoryTold' /\ ShownIsNamed'
    BY <1>10 DEF EditorInv, RestOK, HistoryTold, ShownIsNamed, Overlap
  <1>12. DirtyTold'
    BY <1>9 DEF DirtyTold, Open
  <1>13. OneGesture'
    BY <1>10 DEF OneGesture, Overlap
  <1> QED BY <1>8, <1>11, <1>12, <1>13, HeldNext DEF EditorInv

(* A gesture ends: the state before it becomes the undoable one. *)
LEMMA CommitStep ==
  ASSUME EditorInv, NEW S, EditsIn(S), NEW pre \in S, NEW dragging, Commit(pre, dragging),
         dragging = FALSE \/ dragging = flags.isDragging,
         \/ preStraighten' = <<>> /\ drag' = drag
         \/ drag' = <<>> /\ preStraighten' = preStraighten,
         mixed' \in {mixed, "edit"}, view' = view
  PROVE  EditorInv'
  <1> USE DEF load
  <1>1. /\ past' \in Seq(S) /\ past' # <<>> /\ future' = <<>>
        /\ Len(past') + Len(future') <= MaxHistory
    BY Pushed DEF Commit, Before, EditorInv
  <1>2. EditsIn(S)'
    <2>1. future' \in Seq(S)
      BY <1>1, EmptySeq
    <2>2. edit' = edit /\ initial' = initial
      BY DEF Commit
    <2> QED BY <1>1, <2>1, <2>2 DEF EditsIn
  <1>3. /\ flags' \in [canUndo : BOOLEAN, canRedo : BOOLEAN, isDirty : BOOLEAN, isDragging : BOOLEAN]
        /\ flags'.canUndo = TRUE /\ flags'.canRedo = FALSE
        /\ flags'.isDirty = Differs(edit, initial)
    <2>1. flags' = [flags EXCEPT !.canUndo = TRUE, !.canRedo = FALSE, !.isDragging = dragging,
                                 !.isDirty = Differs(edit, initial)]
      BY DEF Commit
    <2>2. Differs(edit, initial) \in BOOLEAN
      BY DEF Differs
    <2> QED BY <2>1, <2>2 DEF EditorInv, RestOK
  <1>4. RestOK'
    BY <1>3 DEF Commit, EditorInv, RestOK
  <1>5. HistoryTold'
    BY <1>1, <1>3 DEF HistoryTold
  <1>6. DirtyTold'
    BY <1>3 DEF DirtyTold, Commit
  <1>7. ShownIsNamed' /\ OneGesture'
    BY DEF Commit, EditorInv, ShownIsNamed, OneGesture
  <1> QED BY <1>2, <1>4, <1>5, <1>6, <1>7, HeldNext DEF EditorInv

(* The slider is released. *)
LEMMA ReleaseStep == ASSUME EditorInv, commitStraighten PROVE EditorInv'
  <1>1. PICK S : S = Held /\ EditsIn(S)
    BY DEF EditorInv
  <1>2. PICK pre \in S : preStraighten = <<pre>>
    BY <1>1 DEF EditsIn, commitStraighten
  <1>3. preStraighten[1] = pre
    BY <1>2
  <1>4. PICK dragging : dragging = flags.isDragging
    OBVIOUS
  <1>6. Commit(pre, dragging) /\ preStraighten' = <<>> /\ drag' = drag /\ view' = view
    BY <1>3, <1>4 DEF commitStraighten
  <1>5. mixed' \in {mixed, "edit"}
    BY DEF commitStraighten, Overlap
  <1> QED BY <1>1, <1>4, <1>5, <1>6, CommitStep

(* Undo takes the last state of the past. *)
LEMMA UndoStep == ASSUME EditorInv, undo PROVE EditorInv'
  <1> USE DEF Rest, load, gesture
  <1>1. PICK S : S = Held /\ EditsIn(S)
    BY DEF EditorInv
  <1>2. past \in Seq(S) /\ past # <<>> /\ future \in Seq(S) /\ edit \in S
    BY <1>1 DEF EditsIn, undo
  <1>3. Len(past) \in Nat \ {0} /\ Len(future) \in Nat
    BY <1>2, EmptySeq
  <1>4. edit' \in S /\ edit' = past[Len(past)]
    BY <1>2, <1>3, ElementOfSeq DEF undo
  <1>5. past' \in Seq(S) /\ Len(past') = Len(past) - 1
    <2>1. PICK n \in Int : n = Len(past) - 1
      BY <1>3
    <2>2. \A i \in 1 .. n : past[i] \in S
      BY <1>2, <1>3, <2>1, ElementOfSeq
    <2>3. past' = SubSeq(past, 1, n)
      BY <2>1 DEF undo
    <2> QED BY <1>3, <2>1, <2>2, <2>3, SubSeqProperties
  <1>6. future' \in Seq(S) /\ Len(future') = Len(future) + 1
    <2>1. <<edit>> \in Seq(S) /\ Len(<<edit>>) = 1
      BY <1>2
    <2>2. future' = <<edit>> \o future
      BY DEF undo
    <2> QED BY <1>2, <1>3, <2>1, <2>2, ConcatProperties
  <1>7. (past' # <<>> <=> Len(past) > 1) /\ future' # <<>>
    BY <1>3, <1>5, <1>6
  <1>8. EditsIn(S)'
    BY <1>1, <1>4, <1>5, <1>6 DEF EditsIn, undo
  <1>9. /\ flags' \in [canUndo : BOOLEAN, canRedo : BOOLEAN, isDirty : BOOLEAN, isDragging : BOOLEAN]
        /\ flags'.canUndo = (Len(past) > 1) /\ flags'.canRedo = TRUE
        /\ flags'.isDirty = Differs(edit', initial)
    <2>1. flags' = [flags EXCEPT !.canUndo = Len(past) > 1, !.canRedo = TRUE,
                                 !.isDirty = Differs(edit', initial)]
      BY DEF undo
    <2>2. Differs(edit', initial) \in BOOLEAN /\ (Len(past) > 1) \in BOOLEAN
      BY DEF Differs
    <2> QED BY <2>1, <2>2 DEF EditorInv, RestOK
  <1>10. mixed' \in {mixed, "edit"}
    BY DEF undo, Overlap
  <1>11. RestOK'
    BY <1>9, <1>10 DEF undo, EditorInv, RestOK
  <1>12. HistoryTold'
    <2>1. Len(past) + Len(future) <= MaxHistory
      BY DEF EditorInv, HistoryTold
    <2>2. Len(past') + Len(future') <= MaxHistory
      BY <1>3, <1>5, <1>6, <2>1, EditorAssumption
    <2> QED BY <1>7, <1>9, <2>2 DEF HistoryTold
  <1>13. DirtyTold'
    BY <1>9 DEF DirtyTold, undo
  <1>14. ShownIsNamed' /\ OneGesture'
    BY <1>10 DEF undo, EditorInv, ShownIsNamed, OneGesture
  <1> QED BY <1>8, <1>11, <1>12, <1>13, <1>14, HeldNext DEF EditorInv

(* Redo takes the first state of the future. *)
LEMMA RedoStep == ASSUME EditorInv, redo PROVE EditorInv'
  <1> USE DEF Rest, load, gesture
  <1>1. PICK S : S = Held /\ EditsIn(S)
    BY DEF EditorInv
  <1>2. past \in Seq(S) /\ future # <<>> /\ future \in Seq(S) /\ edit \in S
    BY <1>1 DEF EditsIn, redo
  <1>3. Len(past) \in Nat /\ Len(future) \in Nat \ {0}
    BY <1>2, EmptySeq
  <1>4. edit' \in S /\ future' \in Seq(S) /\ Len(future') = Len(future) - 1
    BY <1>2, HeadTailProperties DEF redo
  <1>5. past' \in Seq(S) /\ Len(past') = Len(past) + 1 /\ past' # <<>>
    BY <1>2, AppendProperties DEF redo
  <1>6. future' # <<>> <=> Len(future) > 1
    BY <1>3, <1>4
  <1>7. EditsIn(S)'
    BY <1>1, <1>4, <1>5 DEF EditsIn, redo
  <1>8. /\ flags' \in [canUndo : BOOLEAN, canRedo : BOOLEAN, isDirty : BOOLEAN, isDragging : BOOLEAN]
        /\ flags'.canUndo = TRUE /\ flags'.canRedo = (Len(future) > 1)
        /\ flags'.isDirty = Differs(edit', initial)
    <2>1. flags' = [flags EXCEPT !.canUndo = TRUE, !.canRedo = Len(future) > 1,
                                 !.isDirty = Differs(edit', initial)]
      BY DEF redo
    <2>2. Differs(edit', initial) \in BOOLEAN /\ (Len(future) > 1) \in BOOLEAN
      BY DEF Differs
    <2> QED BY <2>1, <2>2 DEF EditorInv, RestOK
  <1>9. mixed' \in {mixed, "edit"}
    BY DEF redo, Overlap
  <1>10. RestOK'
    BY <1>8, <1>9 DEF redo, EditorInv, RestOK
  <1>11. HistoryTold'
    <2>1. Len(past) + Len(future) <= MaxHistory
      BY DEF EditorInv, HistoryTold
    <2>2. Len(past') + Len(future') <= MaxHistory
      BY <1>3, <1>4, <1>5, <2>1, EditorAssumption
    <2> QED BY <1>5, <1>6, <1>8, <2>2 DEF HistoryTold
  <1>12. DirtyTold'
    BY <1>8 DEF DirtyTold, redo
  <1>13. ShownIsNamed' /\ OneGesture'
    BY <1>9 DEF redo, EditorInv, ShownIsNamed, OneGesture
  <1> QED BY <1>7, <1>10, <1>11, <1>12, <1>13, HeldNext DEF EditorInv

(* Steps that leave the edits and the gestures alone. *)
LEMMA ViewStep ==
  ASSUME EditorInv, UNCHANGED <<edit, initial, past, future, preStraighten, drag, flags, mixed>>,
         RestOK', ShownIsNamed'
  PROVE  EditorInv'
  <1>1. EditsIn(Held)'
    BY DEF EditorInv, EditsIn, Held
  <1>2. HistoryTold' /\ DirtyTold' /\ OneGesture'
    BY DEF EditorInv, HistoryTold, DirtyTold, OneGesture, Open, Differs
  <1> QED BY <1>1, <1>2 DEF EditorInv

(* Zoom, mode and pan. *)
LEMMA LookStep ==
  ASSUME EditorInv,
         \/ \E z \in Int : ZoomTo(z)
         \/ zoomToFit \/ enterCropMode \/ exitCropMode \/ PanDown \/ PanMove
  PROVE  EditorInv'
  <1> USE DEF history, gesture, load, Look
  <1>1. view \in Views
    BY DEF EditorInv, RestOK
  <1>2. ASSUME NEW z \in Int, ZoomTo(z) PROVE view' \in Views
    <2>1. Bounded(z) \in ZoomMin..ZoomMax
      BY DEF Bounded, ZoomMin, ZoomMax
    <2> QED BY <1>1, <1>2, <2>1 DEF ZoomTo, Views
  <1>3. ASSUME zoomToFit \/ enterCropMode \/ exitCropMode \/ PanDown \/ PanMove
        PROVE  view' \in Views
    <2>1. CASE zoomToFit
      <3>1. 100 \in ZoomMin..ZoomMax
        BY DEF ZoomMin, ZoomMax
      <3>2. view' = [view EXCEPT !.zoom = 100, !.zoomMode = "fit", !.panned = FALSE]
        BY <2>1 DEF zoomToFit
      <3> QED BY <1>1, <3>1, <3>2 DEF Views
    <2>2. CASE enterCropMode \/ exitCropMode
      BY <1>1, <2>2 DEF enterCropMode, exitCropMode, Views
    <2>3. CASE PanDown \/ PanMove
      BY <1>1, <2>3 DEF PanDown, PanMove, Views
    <2> QED BY <1>3, <2>1, <2>2, <2>3
  <1>4. /\ UNCHANGED <<edit, initial, past, future, preStraighten, drag, flags, mixed>>
        /\ UNCHANGED <<image, status, src, mounted>>
    BY DEF ZoomTo, zoomToFit, enterCropMode, exitCropMode, PanDown, PanMove
  <1>5. RestOK' /\ ShownIsNamed'
    BY <1>2, <1>3, <1>4 DEF EditorInv, RestOK, ShownIsNamed
  <1> QED BY <1>4, <1>5, ViewStep

(* A handle is pressed: a drag is under way. *)
LEMMA PointerDownStep ==
  ASSUME EditorInv, NEW handle \in Handles, PointerDown(handle) PROVE EditorInv'
  <1> USE DEF history, load
  <1>1. PICK S : S = Held /\ EditsIn(S)
    BY DEF EditorInv
  <1>2. /\ UNCHANGED <<edit, initial, past, future, preStraighten, view, image, status, src, mounted>>
        /\ drag' = <<[handle |-> handle, orig |-> edit]>>
        /\ flags' = [flags EXCEPT !.isDragging = TRUE]
        /\ mixed' = Overlap(Open)
    BY DEF PointerDown
  <1>3. EditsIn(S)'
    <2>1. edit \in S
      BY <1>1 DEF EditsIn
    <2>2. drag' = <<>> \/ \E h \in Handles, e \in S : drag' = <<[handle |-> h, orig |-> e]>>
      BY <1>2, <2>1
    <2> QED BY <1>1, <1>2, <2>2 DEF EditsIn
  <1>4. /\ flags' \in [canUndo : BOOLEAN, canRedo : BOOLEAN, isDirty : BOOLEAN, isDragging : BOOLEAN]
        /\ flags'.canUndo = flags.canUndo /\ flags'.canRedo = flags.canRedo
    BY <1>2 DEF EditorInv, RestOK
  <1>5. RestOK' /\ HistoryTold' /\ ShownIsNamed'
    BY <1>2, <1>4 DEF EditorInv, RestOK, HistoryTold, ShownIsNamed, Overlap
  <1>6. DirtyTold'
    BY <1>2 DEF DirtyTold, Open
  <1>7. OneGesture'
    BY <1>2 DEF OneGesture, Overlap, Open
  <1> QED BY <1>3, <1>5, <1>6, <1>7, HeldNext DEF EditorInv

(* The pointer moves: the drag goes on. *)
LEMMA PointerMoveStep ==
  ASSUME EditorInv, NEW dx, NEW dy, PointerMove(dx, dy) PROVE EditorInv'
  <1> USE DEF history, gesture, load
  <1>1. EditOK(edit) /\ drag # <<>>
    BY DEF EditorInv, EditsIn, PointerMove
  <1>2. EditOK(Moved(dx, dy))
    <2>1. PICK max : max = computeTranslationBounds(edit.w, edit.h, image, edit.scale,
                                                    Angle(edit).c, Angle(edit).s)
      OBVIOUS
    <2>2. Len(max.tx) = 2 /\ Len(max.ty) = 2
      BY <2>1, BoundsArePairs
    <2>3. PICK tx, ty : /\ tx = clampTranslation(Plus(dragOrigin.orig.tx, Int2Frac(dx)), max.tx)
                        /\ ty = clampTranslation(Plus(dragOrigin.orig.ty, Int2Frac(dy)), max.ty)
      OBVIOUS
    <2>4. Len(tx) = 2 /\ Len(ty) = 2
      BY <2>2, <2>3, FractionsArePairs, ClampIsPair DEF Plus
    <2>5. Moved(dx, dy) = [edit EXCEPT !.tx = tx, !.ty = ty]
      BY <2>1, <2>3 DEF Moved
    <2> QED BY <1>1, <2>4, <2>5 DEF EditOK, Fresh
  <1>3. ASSUME NEW box PROVE EditOK(Resized(box))
    <2>1. PICK least : least = computeMinScale(box.w, box.h, image, Angle(edit).c, Angle(edit).s)
      OBVIOUS
    <2>2. PICK scale : scale = IF Leq(edit.scale, dragOrigin.orig.scale) THEN least
                               ELSE Larger(least, edit.scale)
      OBVIOUS
    <2>3. Len(scale) = 2
      BY <1>1, <2>1, <2>2, ScaleIsPair, ExtremesArePairs DEF EditOK
    <2>4. PICK e : e = [edit EXCEPT !.scale = scale]
      OBVIOUS
    <2>5. EditOK(e)
      BY <1>1, <2>3, <2>4 DEF EditOK, Fresh
    <2>6. Resized(box) = Fit(e, box.w, box.h)
      BY <2>1, <2>2, <2>4 DEF Resized
    <2> QED BY <2>5, <2>6, FitIsEdit
  <1>4. EditOK(Resized(Pulled(dx, dy)))
    <2>1. PICK box : box = Pulled(dx, dy)
      OBVIOUS
    <2> QED BY <1>3, <2>1
  <1>5. PICK x : EditOK(x) /\ edit' = x
    BY <1>2, <1>4 DEF PointerMove
  <1>6. PICK S : S = Held \cup {x} /\ EditsIn(S)
    BY <1>5, MoreEdits DEF EditorInv
  <1>7. UNCHANGED <<initial, past, future, preStraighten, drag, flags, view, image, status, src,
                    mounted, mixed>>
    BY DEF PointerMove
  <1>8. EditsIn(S)'
    BY <1>5, <1>6, <1>7 DEF EditsIn
  <1>9. RestOK' /\ HistoryTold' /\ ShownIsNamed' /\ OneGesture'
    BY <1>7 DEF EditorInv, RestOK, HistoryTold, ShownIsNamed, OneGesture
  <1>10. DirtyTold'
    BY <1>1, <1>7 DEF DirtyTold, Open
  <1> QED BY <1>8, <1>9, <1>10, HeldNext DEF EditorInv

(* The pointer is released: a pan or a drag ends, or nothing was pressed.   *)
LEMMA PointerUpStep == ASSUME EditorInv, PointerUp PROVE EditorInv'
  <1> USE DEF history, load
  <1>1. CASE view.isPanning
    <2>1. /\ UNCHANGED <<edit, initial, past, future, preStraighten, drag, flags, mixed>>
          /\ UNCHANGED <<image, status, src, mounted>>
          /\ view' = [view EXCEPT !.isPanning = FALSE]
      BY <1>1 DEF PointerUp
    <2>2. view' \in Views
      BY <2>1 DEF EditorInv, RestOK, Views
    <2>3. RestOK' /\ ShownIsNamed'
      BY <2>1, <2>2 DEF EditorInv, RestOK, ShownIsNamed
    <2> QED BY <2>1, <2>3, ViewStep
  <1>2. CASE ~view.isPanning /\ drag = <<>>
    <2>1. /\ UNCHANGED <<edit, initial, past, future, preStraighten, drag, flags, mixed>>
          /\ UNCHANGED <<image, status, src, mounted, view>>
      BY <1>2 DEF PointerUp
    <2>2. RestOK' /\ ShownIsNamed'
      BY <2>1 DEF EditorInv, RestOK, ShownIsNamed
    <2> QED BY <2>1, <2>2, ViewStep
  <1>3. CASE ~view.isPanning /\ drag # <<>>
    <2>1. PICK S : S = Held /\ EditsIn(S)
      BY DEF EditorInv
    <2>2. PICK h \in Handles, e \in S : drag = <<[handle |-> h, orig |-> e]>>
      BY <1>3, <2>1 DEF EditsIn
    <2>3. dragOrigin.orig = e
      BY <2>2 DEF dragOrigin
    <2>4. PICK dragging : dragging = FALSE
      OBVIOUS
    <2>6. Commit(e, dragging) /\ drag' = <<>> /\ preStraighten' = preStraighten /\ view' = view
      BY <1>3, <2>3, <2>4 DEF PointerUp
    <2>5. mixed' \in {mixed, "edit"}
      BY <1>3 DEF PointerUp, Overlap
    <2> QED BY <2>1, <2>4, <2>5, <2>6, CommitStep
  <1> QED BY <1>1, <1>2, <1>3

(* An image is shown, untouched, whatever was under way. *)
LEMMA LoadedStep == ASSUME EditorInv, NEW s, Loaded(s) PROVE EditorInv'
  <1> USE DEF gesture
  <1>1. PICK e : e = Fresh(Size[s].w, Size[s].h, edit.template)
    OBVIOUS
  <1>2. EditOK(e)
    <2>1. edit.template \in Templates \cup {None}
      BY DEF EditorInv, EditsIn, EditOK
    <2> QED BY <1>1, <2>1, FractionsArePairs, EditorAssumption DEF EditOK, Fresh
  <1>3. PICK S : S = Held \cup {e} /\ EditsIn(S)
    BY <1>2, MoreEdits DEF EditorInv
  <1>4. /\ edit' = e /\ initial' = e /\ past' = <<>> /\ future' = <<>> /\ flags' = Quiet
        /\ view' = FitView /\ status' = "loaded" /\ image' = Size[s] /\ src' = s
        /\ mixed' = (IF Open THEN "image" ELSE "none")
        /\ UNCHANGED <<preStraighten, drag, mounted>>
    BY <1>1 DEF Loaded, Names
  <1>5. EditsIn(S)'
    BY <1>3, <1>4, EmptySeq DEF EditsIn
  <1>6. RestOK'
    <2>1. Quiet \in [canUndo : BOOLEAN, canRedo : BOOLEAN, isDirty : BOOLEAN, isDragging : BOOLEAN]
      BY DEF Quiet
    <2>2. FitView \in Views
      BY DEF FitView, Views, ZoomMin, ZoomMax
    <2> QED BY <1>4, <2>1, <2>2 DEF EditorInv, RestOK
  <1>7. HistoryTold'
    <2>1. Len(past') = 0 /\ Len(future') = 0
      BY <1>4
    <2> QED BY <1>4, <2>1, EditorAssumption DEF HistoryTold, Quiet
  <1>8. DirtyTold'
    BY <1>1, <1>4 DEF DirtyTold, Quiet, Differs, Fresh, One, Zero, NaN, Int2Frac
  <1>9. ShownIsNamed' /\ OneGesture'
    BY <1>4 DEF ShownIsNamed, OneGesture, Open
  <1> QED BY <1>5, <1>6, <1>7, <1>8, <1>9, HeldNext DEF EditorInv

(* The other steps of loading and mounting. *)
LEMMA LoadStep ==
  ASSUME EditorInv,
         \/ \E s \in Sources : loadImage(s) \/ LoadFailed(s)
         \/ Mount \/ Unmount \/ destroy
  PROVE  EditorInv'
  <1> USE DEF history, gesture, load
  <1>1. /\ UNCHANGED <<edit, initial, past, future, preStraighten, drag, flags, mixed, view>>
        /\ status' \in {"loading", "error"} \/ UNCHANGED <<status, image, src>>
        /\ mounted' \in {mounted, "mounted", "unmounted", "destroyed"}
    BY DEF loadImage, LoadFailed, Mount, Unmount, destroy, Begin
  <1>2. RestOK' /\ ShownIsNamed'
    BY <1>1 DEF EditorInv, RestOK, ShownIsNamed
  <1> QED BY <1>1, <1>2, ViewStep

(* Every step of the user, the pointer and the loads. *)
LEMMA EditorStep == EditorInv /\ [Next]_vars => EditorInv'
  <1> SUFFICES ASSUME EditorInv, [Next]_vars PROVE EditorInv'
    OBVIOUS
  <1>1. view.zoom \in Int /\ Zooms \subseteq Int
    BY EditorAssumption DEF EditorInv, RestOK, Views, ZoomMin, ZoomMax
  <1>2. CASE ZoomControls
    <2>1. ASSUME NEW by \in {ZoomStep, -ZoomStep}, ZoomTo(view.zoom + by) PROVE EditorInv'
      <3>1. PICK z \in Int : z = view.zoom + by
        BY <1>1 DEF ZoomStep
      <3> QED BY <2>1, <3>1, LookStep
    <2> QED BY <1>2, <2>1, LookStep DEF ZoomControls
  <1>3. CASE Controls
    BY <1>2, <1>3, OneStepEdits, StraightenStep, ReleaseStep, UndoStep, RedoStep, LookStep
       DEF Controls, ResizeModePicker, TemplatePicker, RotateControls, FlipControls,
           UndoRedoControls, ResetButton, CropButton, CloseCropButton
  <1>4. CASE Shortcut
    BY <1>2, <1>4, OneStepEdits, UndoStep, RedoStep DEF Shortcut
  <1>5. CASE Pointer
    BY <1>5, LookStep, PointerDownStep, PointerMoveStep, PointerUpStep DEF Pointer
  <1>6. CASE \E z \in Zooms : ZoomTo(z)
    BY <1>1, <1>6, LookStep
  <1>7. CASE \E s \in Sources : loadImage(s) \/ Loaded(s) \/ LoadFailed(s)
    BY <1>7, LoadedStep, LoadStep
  <1>8. CASE Mount \/ Unmount \/ destroy
    BY <1>8, LoadStep
  <1>9. CASE UNCHANGED vars
    <2>1. /\ UNCHANGED <<edit, initial, past, future, preStraighten, drag, flags, mixed>>
          /\ UNCHANGED <<image, status, src, mounted, view>>
      BY <1>9 DEF vars, history, gesture, load
    <2>2. RestOK' /\ ShownIsNamed'
      BY <2>1 DEF EditorInv, RestOK, ShownIsNamed
    <2> QED BY <2>1, <2>2, ViewStep
  <1> QED BY <1>3, <1>4, <1>5, <1>6, <1>7, <1>8, <1>9 DEF Next

(* The editor's invariant holds in every behaviour. *)
THEOREM EditorCorrect == Spec => []EditorInv
  <1> QED BY EditorStarts, EditorStep, PTL DEF Spec

(* What the editor tells its callers is what it holds, for any history      *)
(* limit, templates, handles and images: the buttons of undo, redo and      *)
(* reset are live when there is something to undo, to redo and to reset.    *)
THEOREM EditorTells == Spec => []Told
  <1>1. EditorInv => Told
    <2> SUFFICES ASSUME EditorInv PROVE Told
      OBVIOUS
    <2>1. PICK S : EditsIn(S)
      BY DEF EditorInv
    <2>2. TypeOK
      <3>1. Range(past) \subseteq S /\ Range(future) \subseteq S
        BY <2>1, RangeOfSeq DEF EditsIn
      <3>2. Range(preStraighten) \subseteq S
        BY <2>1 DEF EditsIn, Range
      <3>3. \A d \in Range(drag) : d.handle \in Handles /\ EditOK(d.orig)
        BY <2>1 DEF EditsIn, Range
      <3>4. \A e \in {edit, initial} \cup Range(past) \cup Range(future) \cup Range(preStraighten) :
               EditOK(e)
        BY <2>1, <3>1, <3>2 DEF EditsIn
      <3> QED BY <3>3, <3>4 DEF TypeOK, EditorInv, RestOK
    <2> QED BY <2>2 DEF EditorInv, Told
  <1> QED BY <1>1, EditorCorrect, PTL

(* An image that is shown is the one src names, however loads overlap. *)
THEOREM ImageIsNamed == Spec => []ShownIsNamed
  <1>1. EditorInv => ShownIsNamed
    BY DEF EditorInv
  <1> QED BY <1>1, EditorCorrect, PTL

-----------------------------------------------------------------------------
(* The editor implements the undo log. *)

(* A log is a past, the state at the cursor and a future. *)
LEMMA LogParts ==
  ASSUME NEW S, NEW p \in Seq(S), NEW c \in S, NEW f \in Seq(S)
  PROVE  /\ p \o <<c>> \o f \in Seq(S)
         /\ Len(p \o <<c>> \o f) = Len(p) + 1 + Len(f)
         /\ \A i \in 1 .. Len(p) + 1 + Len(f) :
               (p \o <<c>> \o f)[i] = IF i <= Len(p) THEN p[i]
                                      ELSE IF i = Len(p) + 1 THEN c ELSE f[i - (Len(p) + 1)]
  <1>1. <<c>> \in Seq(S) /\ Len(<<c>>) = 1 /\ <<c>>[1] = c
    OBVIOUS
  <1>2. Len(p) \in Nat /\ Len(f) \in Nat
    OBVIOUS
  <1>3. PICK q : q = p \o <<c>>
    OBVIOUS
  <1>4. /\ q \in Seq(S) /\ Len(q) = Len(p) + 1
        /\ \A i \in 1 .. Len(p) + 1 : q[i] = IF i <= Len(p) THEN p[i] ELSE <<c>>[i - Len(p)]
    BY <1>1, <1>3, ConcatProperties
  <1>5. \A i \in 1 .. Len(p) + 1 : q[i] = IF i <= Len(p) THEN p[i] ELSE c
    <2> SUFFICES ASSUME NEW i \in 1 .. Len(p) + 1, ~(i <= Len(p)) PROVE q[i] = c
      BY <1>4
    <2>1. i - Len(p) = 1
      BY <1>2
    <2> QED BY <1>1, <1>4, <2>1
  <1>6. /\ q \o f \in Seq(S) /\ Len(q \o f) = Len(q) + Len(f)
        /\ \A i \in 1 .. Len(q) + Len(f) : (q \o f)[i] = IF i <= Len(q) THEN q[i] ELSE f[i - Len(q)]
    <2>1. q \in Seq(S) /\ f \in Seq(S)
      BY <1>4
    <2> QED BY <2>1, ConcatProperties
  <1>7. ASSUME NEW i \in 1 .. Len(p) + 1 + Len(f)
        PROVE  (q \o f)[i] = IF i <= Len(p) THEN p[i]
                             ELSE IF i = Len(p) + 1 THEN c ELSE f[i - (Len(p) + 1)]
    <2>1. (q \o f)[i] = IF i <= Len(p) + 1 THEN q[i] ELSE f[i - (Len(p) + 1)]
      BY <1>2, <1>4, <1>6
    <2>2. CASE i <= Len(p) + 1
      <3>1. i \in 1 .. Len(p) + 1
        BY <1>2, <2>2
      <3> QED BY <1>2, <1>5, <2>1, <2>2, <3>1
    <2>3. CASE ~(i <= Len(p) + 1)
      BY <1>2, <2>1, <2>3
    <2> QED BY <2>2, <2>3
  <1> QED BY <1>3, <1>4, <1>6, <1>7

(* A part of a sequence that leaves its first element out. *)
LEMMA SubSeqFromTwo ==
  ASSUME NEW S, NEW l \in Seq(S), NEW n \in Int, 1 < n, n <= Len(l), NEW s, s = SubSeq(l, 2, n)
  PROVE  s \in Seq(S) /\ Len(s) = n - 1 /\ \A i \in 1 .. n - 1 : s[i] = l[i + 1]
  BY SMT

(* What pushHistory keeps of a past p when c is pushed. *)
Kept(p, c) == IF Len(p) = MaxHistory THEN Append(Tail(p), c) ELSE Append(p, c)

(* It is the log up to the cursor, without its first entry at the limit. *)
LEMMA KeptOfLog ==
  ASSUME NEW S, NEW p \in Seq(S), NEW c \in S, NEW f \in Seq(S), NEW l, l = p \o <<c>> \o f,
         Len(p) + Len(f) <= MaxHistory
  PROVE  /\ Kept(p, c) \in {SubSeq(l, 1, Len(p) + 1), SubSeq(l, 2, Len(p) + 1)}
         /\ Kept(p, c) \in Seq(S)
         /\ Len(Kept(p, c)) = IF Len(p) = MaxHistory THEN Len(p) ELSE Len(p) + 1
  <1>1. MaxHistory \in Nat \ {0} /\ Len(p) \in Nat /\ Len(f) \in Nat
    BY EditorAssumption
  <1>2. PICK n \in Nat : n = Len(p) + 1
    BY <1>1
  <1>3. /\ l \in Seq(S) /\ Len(l) = n + Len(f)
        /\ \A i \in 1 .. n : l[i] \in S /\ l[i] = IF i <= Len(p) THEN p[i] ELSE c
    <2>1. /\ l \in Seq(S) /\ Len(l) = Len(p) + 1 + Len(f)
          /\ \A i \in 1 .. Len(p) + 1 + Len(f) :
                l[i] = IF i <= Len(p) THEN p[i] ELSE IF i = Len(p) + 1 THEN c ELSE f[i - (Len(p) + 1)]
      BY LogParts
    <2>2. \A i \in 1 .. n : i \in 1 .. Len(p) + 1 + Len(f) /\ (~(i <= Len(p)) => i = Len(p) + 1)
      BY <1>1, <1>2
    <2>3. \A i \in 1 .. n : l[i] = IF i <= Len(p) THEN p[i] ELSE c
      BY <2>1, <2>2
    <2>4. \A i \in 1 .. n : i <= Len(p) => p[i] \in S
      BY <1>1, ElementOfSeq
    <2> QED BY <1>2, <2>1, <2>3, <2>4
  <1>4. CASE Len(p) = MaxHistory
    <2>1. PICK q : q = Tail(p)
      OBVIOUS
    <2>2. q \in Seq(S) /\ Len(q) = Len(p) - 1 /\ \A i \in 1 .. Len(q) : q[i] = p[i + 1]
      <3>1. p # <<>>
        BY <1>1, <1>4
      <3> QED BY <2>1, <3>1, HeadTailProperties
    <2>3. PICK k : k = Append(q, c)
      OBVIOUS
    <2>4. /\ k \in Seq(S) /\ Len(k) = Len(q) + 1
          /\ \A i \in 1 .. Len(q) : k[i] = q[i]
          /\ k[Len(q) + 1] = c
      BY <2>2, <2>3, AppendProperties
    <2>5. PICK s : s = SubSeq(l, 2, n)
      OBVIOUS
    <2>6. s \in Seq(S) /\ Len(s) = Len(p) /\ \A i \in 1 .. Len(p) : s[i] = l[i + 1]
      <3>1. 1 < n /\ n <= Len(l) /\ n - 1 = Len(p)
        BY <1>1, <1>2, <1>3, <1>4
      <3> QED BY <1>3, <2>5, <3>1, SubSeqFromTwo
    <2>7. ASSUME NEW i \in 1 .. Len(p) PROVE s[i] = k[i]
      <3>1. i + 1 \in 1 .. n /\ s[i] = l[i + 1]
        BY <1>1, <1>2, <2>6
      <3>2. CASE i = Len(p)
        <4>1. k[i] = c /\ ~(i + 1 <= Len(p))
          BY <1>1, <2>2, <2>4, <3>2
        <4> QED BY <1>3, <3>1, <4>1
      <3>3. CASE i # Len(p)
        <4>1. i \in 1 .. Len(q) /\ i + 1 <= Len(p)
          BY <1>1, <2>2, <3>3
        <4> QED BY <1>3, <2>2, <2>4, <3>1, <4>1
      <3> QED BY <3>2, <3>3
    <2>8. Len(k) = Len(p)
      BY <1>1, <2>2, <2>4
    <2>9. s = k
      BY <2>4, <2>6, <2>7, <2>8, SeqEqual
    <2> QED BY <1>2, <1>4, <2>1, <2>3, <2>4, <2>5, <2>8, <2>9 DEF Kept
  <1>5. CASE Len(p) # MaxHistory
    <2>1. PICK k : k = Append(p, c)
      OBVIOUS
    <2>2. /\ k \in Seq(S) /\ Len(k) = n
          /\ \A i \in 1 .. Len(p) : k[i] = p[i]
          /\ k[n] = c
      BY <1>2, <2>1, AppendProperties
    <2>3. PICK s : s = SubSeq(l, 1, n)
      OBVIOUS
    <2>4. s \in Seq(S) /\ Len(s) = n /\ \A i \in 1 .. n : s[i] = l[i]
      <3>1. /\ s \in Seq(S) /\ Len(s) = IF 1 <= n THEN n - 1 + 1 ELSE 0
            /\ \A i \in 1 .. n - 1 + 1 : s[i] = l[1 + i - 1]
        BY <1>3, <2>3, SubSeqProperties
      <3>2. n - 1 + 1 = n /\ 1 <= n /\ \A i \in 1 .. n : 1 + i - 1 = i
        BY <1>1, <1>2
      <3> QED BY <3>1, <3>2
    <2>5. ASSUME NEW i \in 1 .. n PROVE s[i] = k[i]
      <3>1. CASE i = n
        <4>1. ~(i <= Len(p))
          BY <1>1, <1>2, <3>1
        <4> QED BY <1>3, <2>2, <2>4, <3>1, <4>1
      <3>2. CASE i # n
        <4>1. i \in 1 .. Len(p) /\ i <= Len(p)
          BY <1>1, <1>2, <3>2
        <4>2. s[i] = l[i] /\ l[i] = p[i] /\ k[i] = p[i]
          BY <1>3, <2>2, <2>4, <4>1
        <4> QED BY <4>2
      <3> QED BY <3>1, <3>2
    <2>6. s = k
      BY <2>2, <2>4, <2>5, SeqEqual
    <2> QED BY <1>2, <1>5, <2>1, <2>2, <2>3, <2>6 DEF Kept
  <1> QED BY <1>4, <1>5

(* A sequence is its first element and the rest, and what precedes its last *)
(* element and that.                                                        *)
LEMMA EndsOfSeq ==
  ASSUME NEW S, NEW p \in Seq(S), p # <<>>
  PROVE  /\ SubSeq(p, 1, Len(p) - 1) \in Seq(S) /\ Len(SubSeq(p, 1, Len(p) - 1)) = Len(p) - 1
         /\ p[Len(p)] \in S
         /\ SubSeq(p, 1, Len(p) - 1) \o <<p[Len(p)]>> = p
         /\ Head(p) \in S /\ Tail(p) \in Seq(S)
         /\ <<Head(p)>> \o Tail(p) = p
  <1>1. Len(p) \in Nat \ {0}
    BY EmptySeq
  <1>2. PICK n \in Nat : n = Len(p) - 1
    BY <1>1
  <1>3. PICK q, x : q = SubSeq(p, 1, n) /\ x = p[Len(p)]
    OBVIOUS
  <1>4. q \in Seq(S) /\ Len(q) = n /\ \A i \in 1 .. n : q[i] = p[i]
    BY <1>1, <1>2, <1>3
  <1>5. x \in S
    BY <1>1, <1>3, ElementOfSeq
  <1>6. q \o <<x>> = p
    <2>1. PICK k : k = Append(q, x)
      OBVIOUS
    <2>2. k \in Seq(S) /\ Len(k) = n + 1 /\ (\A i \in 1 .. n : k[i] = q[i]) /\ k[n + 1] = x
      BY <1>4, <1>5, <2>1, AppendProperties
    <2>3. Len(k) = Len(p)
      BY <1>1, <1>2, <2>2
    <2>4. ASSUME NEW i \in 1 .. Len(k) PROVE k[i] = p[i]
      <3>1. CASE i = n + 1
        BY <1>1, <1>2, <1>3, <2>2, <3>1
      <3>2. CASE i # n + 1
        <4>1. i \in 1 .. n
          BY <1>2, <2>2, <3>2
        <4> QED BY <1>4, <2>2, <4>1
      <3> QED BY <3>1, <3>2
    <2>5. k = p
      BY <2>2, <2>3, <2>4, SeqEqual
    <2> QED BY <1>4, <1>5, <2>1, <2>5, AppendIsConcat
  <1>7. PICK y, t : y = Head(p) /\ t = Tail(p)
    OBVIOUS
  <1>8. y \in S /\ t \in Seq(S) /\ Len(t) = n /\ (\A i \in 1 .. n : t[i] = p[i + 1]) /\ y = p[1]
    BY <1>1, <1>2, <1>7, HeadTailProperties
  <1>9. <<y>> \o t = p
    <2>1. <<y>> \in Seq(S) /\ Len(<<y>>) = 1 /\ <<y>>[1] = y
      BY <1>8
    <2>2. PICK k : k = <<y>> \o t
      OBVIOUS
    <2>3. /\ k \in Seq(S) /\ Len(k) = 1 + n
          /\ \A i \in 1 .. 1 + n : k[i] = IF i <= 1 THEN <<y>>[i] ELSE t[i - 1]
      BY <1>8, <2>1, <2>2, ConcatProperties
    <2>4. Len(k) = Len(p)
      BY <1>1, <1>2, <2>3
    <2>5. ASSUME NEW i \in 1 .. Len(k) PROVE k[i] = p[i]
      <3>1. CASE i = 1
        BY <1>8, <2>1, <2>3, <3>1
      <3>2. CASE i # 1
        <4>1. i - 1 \in 1 .. n /\ ~(i <= 1) /\ i - 1 + 1 = i
          BY <2>3, <3>2
        <4> QED BY <1>8, <2>3, <4>1
      <3> QED BY <3>1, <3>2
    <2> QED BY <1>8, <2>2, <2>3, <2>4, <2>5, SeqEqual
  <1> QED BY <1>2, <1>3, <1>4, <1>5, <1>6, <1>7, <1>8, <1>9

(* An element moves from the front of a future to the end of a past. *)
LEMMA CursorMoves ==
  ASSUME NEW S, NEW p \in Seq(S), NEW c \in S, NEW d \in S, NEW f \in Seq(S)
  PROVE  (p \o <<c>>) \o <<d>> \o f = p \o <<c>> \o (<<d>> \o f)
  <1>1. <<c>> \in Seq(S) /\ <<d>> \in Seq(S)
    OBVIOUS
  <1>2. PICK q : q = p \o <<c>>
    OBVIOUS
  <1>3. q \in Seq(S)
    BY <1>1, <1>2, ConcatProperties
  <1>4. (q \o <<d>>) \o f = q \o (<<d>> \o f)
    BY <1>1, <1>3, ConcatAssociative
  <1> QED BY <1>2, <1>4

(* A sequence is the part of a longer one that it agrees with. *)
LEMMA PrefixIsSubSeq ==
  ASSUME NEW S, NEW m \in Seq(S), NEW k \in Seq(S), Len(k) <= Len(m),
         \A i \in 1 .. Len(k) : m[i] = k[i]
  PROVE  SubSeq(m, 1, Len(k)) = k
  <1>1. PICK n \in Nat : n = Len(k)
    OBVIOUS
  <1>2. PICK s : s = SubSeq(m, 1, n)
    OBVIOUS
  <1>3. s \in Seq(S) /\ Len(s) = n /\ \A i \in 1 .. n : s[i] = m[i]
    BY <1>1, <1>2
  <1> QED BY <1>1, <1>2, <1>3, SeqEqual

(* The state of the last edit is one that is held. *)
LEMMA CommittedIn == ASSUME NEW S, EditsIn(S) PROVE committed \in S
  <1>1. CASE drag # <<>>
    <2>1. PICK h \in Handles, e \in S : drag = <<[handle |-> h, orig |-> e]>>
      BY <1>1 DEF EditsIn
    <2>2. dragOrigin.orig = e
      BY <2>1 DEF dragOrigin
    <2> QED BY <1>1, <2>2 DEF committed
  <1>2. CASE drag = <<>> /\ preStraighten # <<>>
    <2>1. PICK e \in S : preStraighten = <<e>>
      BY <1>2 DEF EditsIn
    <2>2. preStraighten[1] = e
      BY <2>1
    <2> QED BY <1>2, <2>2 DEF committed
  <1>3. CASE drag = <<>> /\ preStraighten = <<>>
    BY <1>3 DEF committed, EditsIn
  <1> QED BY <1>1, <1>2, <1>3

(* What a step of the editor is in the undo log. *)
LogStep == Log!Next \/ UNCHANGED Log!vars

(* A gesture that is overlapped ends the promise. *)
LEMMA OverlapInLog == ASSUME mixed' # "none" PROVE LogStep
  BY DEF LogStep, Log!Next, Log!Overlap, undoLog, cursor

(* A step that leaves the history and the last edit alone. *)
LEMMA SameLog == ASSUME UNCHANGED <<past, future, mixed, committed>> PROVE LogStep
  BY DEF LogStep, Log!vars, undoLog, cursor

(* pushHistory of the last edit is an edit of the log: what lies after the  *)
(* cursor goes, and at the limit so does the oldest state.                  *)
LEMMA EditInLog ==
  ASSUME EditorInv, mixed = "none", mixed' = "none", pushHistory(committed)
  PROVE  LogStep
  <1>1. PICK H : EditsIn(H)
    BY DEF EditorInv
  <1>2. PICK c, d, T : c = committed /\ d = committed' /\ T = H \cup {d}
    OBVIOUS
  <1>3. past \in Seq(T) /\ future \in Seq(T) /\ c \in T /\ d \in T /\ <<>> \in Seq(T)
    <2>1. c \in H
      BY <1>1, <1>2, CommittedIn
    <2>2. H \subseteq T /\ past \in Seq(H) /\ future \in Seq(H)
      BY <1>1, <1>2 DEF EditsIn
    <2> QED BY <1>2, <2>1, <2>2, SeqMonotonic, EmptySeq
  <1>4. /\ Len(past) + Len(future) <= MaxHistory /\ MaxHistory \in Nat \ {0}
        /\ Len(past) \in Nat /\ Len(future) \in Nat
    BY <1>3, EditorAssumption DEF EditorInv, HistoryTold
  <1>5. PICK l, k, m : l = past \o <<c>> \o future /\ k = Kept(past, c) /\ m = k \o <<d>> \o <<>>
    OBVIOUS
  <1>6. /\ k \in {SubSeq(l, 1, Len(past) + 1), SubSeq(l, 2, Len(past) + 1)} /\ k \in Seq(T)
        /\ Len(k) = IF Len(past) = MaxHistory THEN Len(past) ELSE Len(past) + 1
    BY <1>3, <1>4, <1>5, KeptOfLog
  <1>7. m \in Seq(T) /\ Len(m) = Len(k) + 1 /\ \A i \in 1 .. Len(k) : m[i] = k[i]
    <2>1. /\ m \in Seq(T) /\ Len(m) = Len(k) + 1 + Len(<<>>)
          /\ \A i \in 1 .. Len(k) + 1 + Len(<<>>) :
                m[i] = IF i <= Len(k) THEN k[i]
                       ELSE IF i = Len(k) + 1 THEN d ELSE <<>>[i - (Len(k) + 1)]
      BY <1>3, <1>5, <1>6, LogParts
    <2>2. Len(<<>>) = 0 /\ Len(k) \in Nat
      BY <1>6
    <2>3. \A i \in 1 .. Len(k) : i \in 1 .. Len(k) + 1 + Len(<<>>) /\ i <= Len(k)
      BY <2>2
    <2>4. \A i \in 1 .. Len(k) : m[i] = k[i]
      BY <2>1, <2>3
    <2> QED BY <2>1, <2>2, <2>4
  <1>8. SubSeq(m, 1, Len(k)) = k
    <2>1. Len(k) <= Len(m)
      BY <1>6, <1>7
    <2> QED BY <1>6, <1>7, <2>1, PrefixIsSubSeq
  <1>9. undoLog = l /\ cursor = Len(past) + 1
    BY <1>2, <1>5 DEF undoLog, cursor
  <1>10. undoLog' = m /\ cursor' = Len(k) + 1
    <2>1. past' = k /\ future' = <<>>
      BY <1>2, <1>5 DEF pushHistory, Kept
    <2> QED BY <1>2, <1>5, <2>1 DEF undoLog, cursor
  <1>11. /\ cursor > 0 /\ Len(m) <= MaxHistory + 1
         /\ cursor' = IF cursor = MaxHistory + 1 THEN cursor ELSE cursor + 1
    BY <1>4, <1>6, <1>7, <1>9, <1>10
  <1>12. k \in {SubSeq(undoLog, 1, cursor), SubSeq(undoLog, 2, cursor)}
    BY <1>6, <1>9
  <1>13. Log!Edit
    BY <1>7, <1>8, <1>10, <1>11, <1>12 DEF Log!Edit
  <1> QED BY <1>13 DEF LogStep, Log!Next

(* Every edit of a button or a key. *)
LEMMA UpdateInLog ==
  ASSUME EditorInv, NEW e, pushHistoryAndUpdate(e), Rest PROVE LogStep
  <1>1. CASE mixed' = "none"
    <2>1. mixed = "none" /\ ~Open
      BY <1>1 DEF pushHistoryAndUpdate, Overlap
    <2>2. committed = edit
      BY <2>1 DEF committed, Open
    <2> QED BY <1>1, <2>1, <2>2, EditInLog DEF pushHistoryAndUpdate
  <1> QED BY <1>1, OverlapInLog

(* Undo and redo move the cursor and leave the log alone. *)
LEMMA UndoInLog == ASSUME EditorInv, undo PROVE LogStep
  <1>1. CASE mixed' = "none"
    <2>1. mixed = "none" /\ ~Open
      BY <1>1 DEF undo, Overlap
    <2>2. committed = edit /\ committed' = edit'
      BY <2>1 DEF committed, Open, undo, Rest, gesture
    <2>3. PICK S : EditsIn(S)
      BY DEF EditorInv
    <2>4. past \in Seq(S) /\ past # <<>> /\ future \in Seq(S) /\ edit \in S
      BY <2>3 DEF EditsIn, undo
    <2>5. PICK p, x : p = SubSeq(past, 1, Len(past) - 1) /\ x = past[Len(past)]
      OBVIOUS
    <2>6. p \in Seq(S) /\ x \in S /\ p \o <<x>> = past /\ Len(p) = Len(past) - 1
      BY <2>4, <2>5, EndsOfSeq
    <2>7. past' = p /\ edit' = x /\ future' = <<edit>> \o future
      BY <2>5 DEF undo
    <2>8. (p \o <<x>>) \o <<edit>> \o future = p \o <<x>> \o (<<edit>> \o future)
      BY <2>4, <2>6, CursorMoves
    <2>9. undoLog' = undoLog
      BY <1>1, <2>1, <2>2, <2>6, <2>7, <2>8 DEF undoLog
    <2>10. Len(past) \in Nat \ {0}
      BY <2>4, EmptySeq
    <2>11. cursor = Len(past) + 1 /\ cursor' = Len(p) + 1
      BY <1>1, <2>1, <2>7 DEF cursor
    <2>12. cursor > 1 /\ cursor' = cursor - 1
      BY <2>6, <2>10, <2>11
    <2> QED BY <2>9, <2>12 DEF LogStep, Log!Next, Log!Undo
  <1> QED BY <1>1, OverlapInLog

(* Redo, the same way forward. *)
LEMMA RedoInLog == ASSUME EditorInv, redo PROVE LogStep
  <1>1. CASE mixed' = "none"
    <2>1. mixed = "none" /\ ~Open
      BY <1>1 DEF redo, Overlap
    <2>2. committed = edit /\ committed' = edit'
      BY <2>1 DEF committed, Open, redo, Rest, gesture
    <2>3. PICK S : EditsIn(S)
      BY DEF EditorInv
    <2>4. past \in Seq(S) /\ future # <<>> /\ future \in Seq(S) /\ edit \in S
      BY <2>3 DEF EditsIn, redo
    <2>5. PICK x, f : x = Head(future) /\ f = Tail(future)
      OBVIOUS
    <2>6. f \in Seq(S) /\ x \in S /\ <<x>> \o f = future
      BY <2>4, <2>5, EndsOfSeq
    <2>7. past' = past \o <<edit>> /\ edit' = x /\ future' = f
      BY <2>4, <2>5, AppendIsConcat DEF redo
    <2>8. (past \o <<edit>>) \o <<x>> \o f = past \o <<edit>> \o (<<x>> \o f)
      BY <2>4, <2>6, CursorMoves
    <2>9. undoLog' = undoLog
      BY <1>1, <2>1, <2>2, <2>6, <2>7, <2>8 DEF undoLog
    <2>10. Len(past') = Len(past) + 1
      BY <2>4, AppendProperties DEF redo
    <2>11. Len(undoLog) = Len(past) + 1 + Len(future)
      <3>1. undoLog = past \o <<edit>> \o future
        BY <2>1, <2>2 DEF undoLog
      <3> QED BY <2>4, <3>1, LogParts
    <2>12. Len(past) \in Nat /\ Len(future) \in Nat \ {0}
      BY <2>4, EmptySeq
    <2>13. cursor = Len(past) + 1 /\ cursor' = Len(past') + 1
      BY <1>1, <2>1 DEF cursor
    <2>14. cursor < Len(undoLog) /\ cursor > 0 /\ cursor' = cursor + 1
      BY <2>10, <2>11, <2>12, <2>13
    <2> QED BY <2>9, <2>14 DEF LogStep, Log!Next, Log!Redo
  <1> QED BY <1>1, OverlapInLog

(* The slider moves and is released: an edit when it is released. *)
LEMMA SliderInLog ==
  ASSUME EditorInv, commitStraighten \/ \E d \in Straightens : setStraighten(d)
  PROVE  LogStep
  <1>1. ASSUME NEW d, setStraighten(d), mixed' = "none" PROVE LogStep
    <2>1. drag = <<>> /\ mixed = "none" /\ UNCHANGED <<past, future, drag>>
      BY <1>1 DEF setStraighten, Overlap, history
    <2>2. \/ preStraighten = <<>> /\ preStraighten' = <<edit>>
          \/ preStraighten # <<>> /\ preStraighten' = preStraighten
      BY <1>1 DEF setStraighten
    <2>3. preStraighten' = <<edit>> => preStraighten'[1] = edit
      OBVIOUS
    <2>4. committed' = committed
      BY <2>1, <2>2, <2>3 DEF committed
    <2> QED BY <1>1, <2>1, <2>4, SameLog
  <1>2. ASSUME commitStraighten, mixed' = "none" PROVE LogStep
    <2>1. drag = <<>> /\ preStraighten # <<>> /\ mixed = "none"
      BY <1>2 DEF commitStraighten, Overlap
    <2>2. pushHistory(committed)
      BY <1>2, <2>1 DEF commitStraighten, Commit, Before, committed
    <2> QED BY <1>2, <2>1, <2>2, EditInLog
  <1> QED BY <1>1, <1>2, OverlapInLog

(* The pointer: a drag is an edit when it is released. *)
LEMMA PointerInLog == ASSUME EditorInv, Pointer PROVE LogStep
  <1> USE DEF history, gesture
  <1>1. ASSUME NEW handle, PointerDown(handle), mixed' = "none" PROVE LogStep
    <2>1. /\ drag = <<>> /\ preStraighten = <<>> /\ mixed = "none"
          /\ drag' = <<[handle |-> handle, orig |-> edit]>> /\ UNCHANGED <<past, future>>
      BY <1>1 DEF PointerDown, Overlap, Open
    <2>2. committed = edit
      BY <2>1 DEF committed
    <2>3. drag' # <<>> /\ drag'[1].orig = edit
      BY <2>1
    <2>4. committed' = edit
      BY <2>3 DEF committed, dragOrigin
    <2> QED BY <1>1, <2>1, <2>2, <2>4, SameLog
  <1>2. ASSUME NEW p, PointerMove(p[1], p[2]) PROVE LogStep
    <2>1. drag # <<>> /\ UNCHANGED <<past, future, drag, mixed>>
      BY <1>2 DEF PointerMove
    <2>2. committed' = committed
      BY <2>1 DEF committed, dragOrigin
    <2> QED BY <2>1, <2>2, SameLog
  <1>3. ASSUME PanDown \/ PanMove PROVE LogStep
    <2>1. UNCHANGED <<past, future, drag, preStraighten, edit, mixed>>
      BY <1>3 DEF PanDown, PanMove
    <2>2. committed' = committed
      BY <2>1 DEF committed, dragOrigin
    <2> QED BY <2>1, <2>2, SameLog
  <1>4. ASSUME PointerUp, mixed' = "none" PROVE LogStep
    <2>1. CASE ~view.isPanning /\ drag # <<>>
      <3>1. mixed = "none" /\ pushHistory(dragOrigin.orig)
        BY <1>4, <2>1 DEF PointerUp, Overlap, Commit, Before
      <3>2. committed = dragOrigin.orig
        BY <2>1 DEF committed
      <3> QED BY <1>4, <3>1, <3>2, EditInLog
    <2>2. CASE view.isPanning \/ drag = <<>>
      <3>1. UNCHANGED <<past, future, drag, preStraighten, edit, mixed>>
        BY <1>4, <2>2 DEF PointerUp
      <3>2. committed' = committed
        BY <3>1 DEF committed, dragOrigin
      <3> QED BY <3>1, <3>2, SameLog
    <2> QED BY <2>1, <2>2
  <1> QED BY <1>1, <1>2, <1>3, <1>4, OverlapInLog DEF Pointer

(* An image that is shown starts a new log. *)
LEMMA ShownInLog == ASSUME NEW s, Loaded(s) PROVE LogStep
  <1>1. CASE mixed' = "none"
    <2>1. past' = <<>> /\ future' = <<>>
      BY DEF Loaded
    <2>2. PICK c : c = committed'
      OBVIOUS
    <2>3. undoLog' = <<>> \o <<c>> \o <<>> /\ cursor' = Len(<<>>) + 1
      BY <1>1, <2>1, <2>2 DEF undoLog, cursor
    <2>4. Len(undoLog') = 1 /\ cursor' = 1
      BY <2>3
    <2> QED BY <2>4 DEF LogStep, Log!Next, Log!Load
  <1> QED BY <1>1, OverlapInLog

(* Steps that touch no edit. *)
LEMMA OthersInLog ==
  ASSUME UNCHANGED <<past, future, mixed, edit, preStraighten, drag>> PROVE LogStep
  <1>1. committed' = committed
    BY DEF committed, dragOrigin
  <1> QED BY <1>1, SameLog

(* Every step of the editor is a step of the log or leaves it alone. *)
LEMMA LogStepAny == EditorInv /\ [Next]_vars => LogStep
  <1> SUFFICES ASSUME EditorInv, [Next]_vars PROVE LogStep
    OBVIOUS
  <1> USE DEF history, gesture
  <1>1. ASSUME NEW v, Look(v) PROVE LogStep
    BY <1>1, OthersInLog DEF Look
  <1>2. ASSUME \/ \E m : setResizeMode(m)
               \/ \E by : rotate(by)
               \/ toggleFlipHorizontal \/ toggleFlipVertical \/ reset
               \/ \E t : applyTemplate(t)
        PROVE  LogStep
    BY <1>2, UpdateInLog
       DEF setResizeMode, rotate, toggleFlipHorizontal, toggleFlipVertical, reset, applyTemplate
  <1>3. CASE ZoomControls
    BY <1>1, <1>3 DEF ZoomControls, ZoomTo, zoomToFit
  <1>4. CASE Controls
    BY <1>1, <1>2, <1>3, <1>4, SliderInLog, UndoInLog, RedoInLog
       DEF Controls, ResizeModePicker, TemplatePicker, RotateControls, FlipControls,
           UndoRedoControls, ResetButton, CropButton, CloseCropButton, enterCropMode, exitCropMode
  <1>5. CASE Shortcut
    BY <1>2, <1>3, <1>5, UndoInLog, RedoInLog DEF Shortcut
  <1>6. CASE Pointer
    BY <1>6, PointerInLog
  <1>7. CASE \E z \in Zooms : ZoomTo(z)
    BY <1>1, <1>7 DEF ZoomTo
  <1>8. CASE \E s \in Sources : Loaded(s)
    BY <1>8, ShownInLog
  <1>9. CASE (\E s \in Sources : loadImage(s) \/ LoadFailed(s)) \/ Mount \/ Unmount \/ destroy
    <2>1. UNCHANGED <<past, future, mixed, edit, preStraighten, drag>>
      BY <1>9 DEF loadImage, LoadFailed, Mount, Unmount, destroy
    <2> QED BY <2>1, OthersInLog
  <1>10. CASE UNCHANGED vars
    BY <1>10, OthersInLog DEF vars
  <1> QED BY <1>4, <1>5, <1>6, <1>7, <1>8, <1>9, <1>10 DEF Next

(* The editor implements the bounded undo log, whatever the history limit,  *)
(* the images and the gestures are: a gesture is one edit, made when it     *)
(* ends, until another edit or an image overlaps it.                        *)
THEOREM EditorIsUndoLog == Spec => ImplementsUndoLog
  <1>1. Init => Log!Fresh
    <2> SUFFICES ASSUME Init PROVE Log!Fresh
      OBVIOUS
    <2>1. PICK c : c = committed
      OBVIOUS
    <2>2. undoLog = <<>> \o <<c>> \o <<>> /\ cursor = Len(<<>>) + 1
      BY <2>1 DEF Init, undoLog, cursor
    <2>3. Len(undoLog) = 1 /\ cursor = 1
      BY <2>2
    <2> QED BY <2>3 DEF Log!Fresh
  <1>2. EditorInv /\ [Next]_vars => [Log!Next]_(Log!vars)
    BY LogStepAny DEF LogStep
  <1> QED BY <1>1, <1>2, EditorCorrect, PTL DEF Spec, ImplementsUndoLog, Log!Spec

-----------------------------------------------------------------------------
(* The admin pages.  Three observations carry the proofs.  An acknowledged  *)
(* write was applied, so that no version it promises is ahead of the        *)
(* server.  What is cached or under way of the record was read after the    *)
(* last acknowledged write: the write threw away the rest.  The list is not *)
(* that lucky: a fetch that a row's delete started may have been answered   *)
(* before the write, and then joined says so.                               *)

(* What a form has been given, and that only an open form reads the record: *)
(* a form that deletes or writes has its values.                            *)
FormInv ==
    /\ form = Absent => detailFetch = Absent
    /\ form # Absent => /\ form.seed > 0 => form.record > 0
                        /\ form.remove # "closed" => form.seed > 0
    /\ \A w \in writes : FromForm(w) /\ Mine(w) => form.seed > 0

(* A write of the record that was applied is behind it. *)
WritesInv ==
    \A w \in writes : w.state = "done" /\ w.kind # "other" => w.etag < version

(* The user was told of versions the server has had. *)
ToldInv == home <= own /\ own <= version

(* The record's query, and an answer on its way to it, have what the user   *)
(* was told of.                                                             *)
RecordInv ==
    /\ detail # Absent => detail.version >= own
    /\ detailFetch \notin {Absent, Asked} => detailFetch.version >= own

(* A list that is fresh, and an answer on its way to it, have the write     *)
(* that led back to it.                                                     *)
ListInv ==
    /\ ~list.stale => list.version >= home \/ joined
    /\ listFetch \notin {Absent, Asked} => listFetch.version >= home \/ joined

AdminInv == AdminTypeOK /\ FormInv /\ WritesInv /\ ToldInv /\ RecordInv /\ ListInv

(* The list is on the screen and nothing has been done. *)
LEMMA AdminStarts == AdminInit => AdminInv
  <1> SUFFICES ASSUME AdminInit PROVE AdminInv
    OBVIOUS
  <1>1. 1 \in Versions
    BY AdminAssumption DEF Versions
  <1>2. AdminTypeOK
    BY <1>1 DEF AdminInit, AdminTypeOK, QueriesOK, FormOK, WritesOK, Closed, Dialogs
  <1>3. FormInv /\ WritesInv /\ ToldInv /\ RecordInv /\ ListInv
    BY DEF AdminInit, FormInv, WritesInv, ToldInv, RecordInv, ListInv
  <1> QED BY <1>2, <1>3 DEF AdminInv

(* A form is left for the list. *)
LEMMA LeaveStep ==
  ASSUME AdminInv, Leave \/ Cancel \/ BackLink PROVE AdminInv'
  <1> USE DEF AdminInv, QueriesOK, FormOK, WritesOK, Mine
  <1>1. /\ UNCHANGED <<version, live, list, detail, writes, opened, own, home, joined>>
        /\ form' = Absent /\ detailFetch' = Absent /\ confirm' = Closed
        /\ listFetch' \in {listFetch, Asked} /\ (listFetch' # listFetch => listFetch = Absent)
        /\ asked' \in BOOLEAN
    <2>1. form # Absent
      BY DEF Leave, Cancel, BackLink, Usable, Shown
    <2>2. form.edited \in BOOLEAN
      BY <2>1 DEF AdminTypeOK, Pages
    <2> QED BY <2>2 DEF Leave, Cancel, BackLink, ShowList, server, told
  <1>2. AdminTypeOK' /\ WritesInv' /\ ToldInv'
    BY <1>1 DEF AdminTypeOK, WritesInv, ToldInv, Closed, Dialogs
  <1>3. FormInv' /\ RecordInv'
    BY <1>1 DEF FormInv, RecordInv
  <1>4. ListInv'
    BY <1>1 DEF ListInv
  <1> QED BY <1>2, <1>3, <1>4

(* A form opens over what is cached of the record. *)
LEMMA OpenFormStep == ASSUME AdminInv, OpenForm PROVE AdminInv'
  <1> USE DEF AdminInv, QueriesOK, FormOK, WritesOK, Mine
  <1>1. PICK cached : cached = IF detail = Absent THEN 0 ELSE detail.version
    OBVIOUS
  <1>2. cached \in {0} \cup Versions
    BY <1>1 DEF AdminTypeOK, Details
  <1>3. form' = Opening(opened + 1, cached)
    BY <1>1 DEF OpenForm
  <1>4. form' \in Pages /\ form'.id = opened + 1
    BY <1>2, <1>3 DEF Opening, Pages, AdminTypeOK
  <1>5. form' # Absent
    BY <1>4, AbsentAssumption
  <1>6. AdminTypeOK'
    <2>1. opened' = opened + 1 /\ opened \in Nat
      BY DEF OpenForm, AdminTypeOK
    <2>2. opened' \in Nat /\ form'.id \in 1 .. opened'
      BY <1>4, <2>1
    <2>3. writes' \subseteq Requests /\ \A w \in writes' : w.id <= opened'
      <3>1. writes \subseteq Requests /\ \A w \in writes : w.id <= opened
        BY DEF AdminTypeOK
      <3>2. writes' = writes
        BY DEF OpenForm
      <3> QED BY <2>1, <3>1, <3>2 DEF Requests
    <2>4. /\ detailFetch' \in {Absent, Asked} /\ listFetch' = Absent /\ confirm' = Closed
          /\ asked' = FALSE /\ UNCHANGED <<version, live, list, detail, own, home, joined>>
      BY DEF OpenForm, server, told
    <2> QED BY <1>4, <2>2, <2>3, <2>4 DEF AdminTypeOK, Closed, Dialogs
  <1>7. FormInv'
    <2>1. \A w \in writes' : w.id # form'.id
      <3>1. writes' = writes /\ opened \in Nat
        BY DEF OpenForm, AdminTypeOK
      <3>2. \A w \in writes : w.id \in Nat /\ w.id <= opened
        BY DEF AdminTypeOK, Requests
      <3> QED BY <1>4, <3>1, <3>2
    <2>2. form'.seed = form'.record /\ form'.remove = "closed"
      BY <1>3 DEF Opening
    <2> QED BY <1>5, <2>1, <2>2 DEF FormInv
  <1>8. WritesInv' /\ ToldInv' /\ RecordInv' /\ ListInv'
    BY DEF OpenForm, WritesInv, ToldInv, RecordInv, ListInv, server, told
  <1> QED BY <1>6, <1>7, <1>8

(* What the server answers is its record as it is now. *)
LEMMA SnapshotFresh ==
  ASSUME AdminInv
  PROVE  Snapshot \in Answers /\ Snapshot.version = version /\ Snapshot \notin {Absent, Asked}
  <1>1. Snapshot \in Answers
    BY DEF Snapshot, Answers, AdminInv, AdminTypeOK
  <1> QED BY <1>1, AbsentAssumption DEF Snapshot

(* The list is served and arrives. *)
LEMMA ListStep ==
  ASSUME AdminInv, ServeList \/ ListArrives \/ ListFails PROVE AdminInv'
  <1> USE DEF AdminInv, QueriesOK, FormOK, WritesOK, Mine
  <1>1. CASE ServeList
    <2>1. AdminTypeOK' /\ FormInv' /\ WritesInv' /\ ToldInv' /\ RecordInv'
      BY <1>1, SnapshotFresh DEF ServeList, AdminTypeOK, FormInv, WritesInv, ToldInv, RecordInv,
         server, told
    <2>2. version >= home
      BY DEF AdminTypeOK, ToldInv, Versions
    <2>3. ListInv'
      BY <1>1, <2>2, SnapshotFresh, AbsentAssumption DEF ServeList, ListInv, server, told
    <2> QED BY <2>1, <2>3
  <1>2. CASE ListArrives
    <2>1. listFetch \in Answers
      BY <1>2 DEF ListArrives, AdminTypeOK
    <2>2. AdminTypeOK'
      <3>1. joined' \in BOOLEAN
        BY <1>2 DEF ListArrives
      <3> QED BY <1>2, <2>1, <3>1 DEF ListArrives, AdminTypeOK, Answers, server
    <2>3. FormInv' /\ WritesInv' /\ ToldInv' /\ RecordInv'
      BY <1>2 DEF ListArrives, FormInv, WritesInv, ToldInv, RecordInv, server, told
    <2>4. ListInv'
      <3>1. listFetch.version \in Nat /\ home \in Nat
        BY <2>1, AdminAssumption DEF Answers, AdminTypeOK, Versions
      <3>2. listFetch.version >= home \/ joined
        BY <1>2 DEF ListArrives, ListInv
      <3>3. list'.version = listFetch.version /\ listFetch' = Absent /\ home' = home
        BY <1>2 DEF ListArrives
      <3>4. CASE listFetch.version >= home
        BY <3>3, <3>4 DEF ListInv
      <3>5. CASE ~(listFetch.version >= home)
        <4>1. listFetch.version < home /\ joined
          BY <3>1, <3>2, <3>5
        <4>2. joined'
          BY <1>2, <4>1, Zenon DEF ListArrives
        <4> QED BY <3>3, <4>2 DEF ListInv
      <3> QED BY <3>4, <3>5
    <2> QED BY <2>2, <2>3, <2>4
  <1>3. CASE ListFails
    <2>1. PICK mark \in BOOLEAN : list' = [list EXCEPT !.stale = list.stale \/ mark]
      BY <1>3 DEF ListFails
    <2>2. /\ list' \in [version : Versions, live : BOOLEAN, stale : BOOLEAN]
          /\ list'.version = list.version /\ (~list'.stale => ~list.stale)
      BY <2>1 DEF AdminTypeOK
    <2>3. AdminTypeOK'
      BY <1>3, <2>2 DEF ListFails, AdminTypeOK, server, told
    <2>4. FormInv' /\ WritesInv' /\ ToldInv' /\ RecordInv'
      BY <1>3 DEF ListFails, FormInv, WritesInv, ToldInv, RecordInv, server, told
    <2>5. ListInv'
      BY <1>3, <2>2 DEF ListFails, ListInv, told
    <2> QED BY <2>3, <2>4, <2>5
  <1> QED BY <1>1, <1>2, <1>3

(* The record is served and arrives under the form. *)
LEMMA DetailStep ==
  ASSUME AdminInv, ServeDetail \/ DetailArrives \/ DetailFails PROVE AdminInv'
  <1> USE DEF AdminInv, QueriesOK, FormOK, WritesOK, Mine
  <1>1. CASE ServeDetail
    <2>1. AdminTypeOK'
      BY <1>1, SnapshotFresh DEF ServeDetail, AdminTypeOK, server, told
    <2>2. version >= own
      BY DEF AdminTypeOK, ToldInv, Versions
    <2>3. RecordInv'
      BY <1>1, <2>2, SnapshotFresh DEF ServeDetail, RecordInv, server, told
    <2>4. FormInv' /\ WritesInv' /\ ToldInv' /\ ListInv'
      BY <1>1, AbsentAssumption DEF ServeDetail, FormInv, WritesInv, ToldInv, ListInv, server, told
    <2> QED BY <2>1, <2>3, <2>4
  <1>2. CASE DetailArrives
    <2>1. detailFetch \in Answers
      BY <1>2 DEF DetailArrives, AdminTypeOK
    <2>2. form # Absent /\ form \in Pages /\ form.id \in 1 .. opened
      BY <1>2 DEF DetailArrives, FormInv, AdminTypeOK
    <2>3. /\ form' \in Pages /\ form'.id = form.id /\ form'.remove = form.remove
          /\ form'.seed > 0 => form'.record > 0
          /\ form.seed > 0 => form'.seed > 0
      <3>1. PICK v : v = detailFetch.version
        OBVIOUS
      <3>2. v \in Versions
        BY <2>1, <3>1 DEF Answers
      <3>3. form' = Seeded(form, v)
        BY <1>2, <3>1 DEF DetailArrives
      <3>4. v > 0 /\ v \in Nat
        BY <3>2, AdminAssumption DEF Versions
      <3>5. form' = [form EXCEPT !.record = v, !.failed = FALSE,
                                 !.seed = IF form.seed = 0 THEN v ELSE form.seed]
        BY <3>3, <2>2 DEF Seeded, Pages
      <3> QED BY <2>2, <3>2, <3>4, <3>5 DEF Pages
    <2>4. form' # Absent
      BY <2>3, AbsentAssumption
    <2>5. detail' \in {Absent} \cup Details /\ (detail' # Absent => detail'.version >= own)
      <3>1. detailFetch.version >= own /\ detailFetch.version \in Versions
        BY <1>2, <2>1 DEF DetailArrives, RecordInv, Answers
      <3>2. detail' = [version |-> detailFetch.version, stale |-> FALSE]
        BY <1>2 DEF DetailArrives
      <3> QED BY <3>1, <3>2 DEF Details
    <2>6. AdminTypeOK'
      BY <1>2, <2>2, <2>3, <2>5 DEF DetailArrives, AdminTypeOK, server, told
    <2>7. FormInv'
      BY <1>2, <2>2, <2>3, <2>4 DEF DetailArrives, FormInv
    <2>8. RecordInv'
      BY <1>2, <2>5 DEF DetailArrives, RecordInv, told
    <2>9. WritesInv' /\ ToldInv' /\ ListInv'
      BY <1>2, <2>2 DEF DetailArrives, WritesInv, ToldInv, ListInv, server, told
    <2> QED BY <2>6, <2>7, <2>8, <2>9
  <1>3. CASE DetailFails
    <2>1. form # Absent /\ form \in Pages /\ form.id \in 1 .. opened
      BY <1>3 DEF DetailFails, FormInv, AdminTypeOK
    <2>2. form' \in Pages /\ form' = [form EXCEPT !.failed = TRUE]
      BY <1>3, <2>1 DEF DetailFails, Pages
    <2>3. /\ form' # Absent /\ form'.id = form.id /\ form'.seed = form.seed
          /\ form'.record = form.record /\ form'.remove = form.remove
      BY <2>1, <2>2, AbsentAssumption DEF Pages
    <2>4. /\ detail' \in {Absent} \cup Details
          /\ detail' # Absent => detail # Absent /\ detail'.version = detail.version
      <3>1. CASE detail = Absent
        BY <1>3, <3>1 DEF DetailFails
      <3>2. CASE detail # Absent
        <4>1. detail \in Details
          BY <3>2 DEF AdminTypeOK
        <4>2. PICK mark \in BOOLEAN : detail' = [detail EXCEPT !.stale = detail.stale \/ mark]
          BY <1>3, <3>2 DEF DetailFails
        <4> QED BY <3>2, <4>1, <4>2 DEF Details
      <3> QED BY <3>1, <3>2
    <2>5. /\ UNCHANGED <<version, live, list, listFetch, confirm, writes, opened, own, home, joined>>
          /\ detailFetch' = Absent /\ asked' = FALSE
      BY <1>3 DEF DetailFails, server, told
    <2>6. AdminTypeOK'
      BY <2>1, <2>2, <2>3, <2>4, <2>5 DEF AdminTypeOK
    <2>7. FormInv'
      BY <2>1, <2>3, <2>5 DEF FormInv
    <2>8. RecordInv'
      BY <2>4, <2>5 DEF RecordInv
    <2>9. WritesInv' /\ ToldInv' /\ ListInv'
      BY <2>5 DEF WritesInv, ToldInv, ListInv
    <2> QED BY <2>6, <2>7, <2>8, <2>9
  <1> QED BY <1>1, <1>2, <1>3

(* The window is looked at again. *)
LEMMA RefocusStep == ASSUME AdminInv, Refocus PROVE AdminInv'
  <1> USE DEF AdminInv, QueriesOK, FormOK, WritesOK, Mine
  <1>1. list' \in [version : Versions, live : BOOLEAN, stale : BOOLEAN] /\ list'.stale
    BY DEF Refocus, AdminTypeOK
  <1>2. /\ detail' \in {Absent} \cup Details
        /\ detail' # Absent => detail'.version >= own
    <2>1. CASE detail = Absent
      BY <2>1 DEF Refocus
    <2>2. CASE detail # Absent
      <3>1. detail \in Details /\ detail' = [detail EXCEPT !.stale = TRUE] /\ detail.version >= own
        BY <2>2 DEF Refocus, AdminTypeOK, RecordInv
      <3> QED BY <3>1 DEF Details
    <2> QED BY <2>1, <2>2
  <1>3. /\ listFetch' \in {listFetch, Asked} /\ detailFetch' \in {detailFetch, Asked}
        /\ listFetch' # listFetch => form = Absent
        /\ detailFetch' # detailFetch => form # Absent
        /\ UNCHANGED <<version, live, form, confirm, writes, opened, own, home, joined>> /\ asked' = FALSE
    BY DEF Refocus, server, told
  <1>4. AdminTypeOK'
    BY <1>1, <1>2, <1>3 DEF AdminTypeOK
  <1>5. FormInv' /\ WritesInv' /\ ToldInv'
    BY <1>3 DEF FormInv, WritesInv, ToldInv
  <1>6. RecordInv'
    BY <1>2, <1>3 DEF RecordInv
  <1>7. ListInv'
    BY <1>1, <1>3 DEF ListInv
  <1> QED BY <1>4, <1>5, <1>6, <1>7

(* The edits of a form, and the requests it sends, change only the form and *)
(* what is under way.                                                       *)
LEMMA FormStep ==
  ASSUME AdminInv, Edit \/ mutate \/ onDelete \/ onRemoveOpenChange \/ confirmRemove
  PROVE  AdminInv'
  <1> USE DEF AdminInv, QueriesOK, FormOK, WritesOK, Mine
  <1>1. form # Absent /\ form.seed > 0 /\ form.record > 0
    BY DEF Edit, mutate, onDelete, onRemoveOpenChange, confirmRemove, Submittable, Usable, Shown,
       FormInv
  <1>2. form \in Pages /\ form.id \in 1 .. opened
    BY <1>1 DEF AdminTypeOK
  <1>3. /\ form' \in Pages /\ form'.id = form.id
        /\ form'.seed = form.seed /\ form'.record = form.record
    BY <1>2 DEF Edit, mutate, onDelete, onRemoveOpenChange, confirmRemove, Pages
  <1>4. form' # Absent
    BY <1>3, AbsentAssumption
  <1>5. \A w \in writes' : w \in writes \/ (w \in Requests /\ w.id = form.id /\ w.state = "sent")
    <2>1. form.record \in Versions /\ form.id \in Nat
      BY <1>1, <1>2 DEF Pages
    <2>2. /\ saveSecret(form.id, form.record) \in Requests
          /\ deleteSecret("delete", form.id, form.record) \in Requests
      BY <2>1 DEF saveSecret, deleteSecret, Requests
    <2> QED BY <2>2 DEF Edit, mutate, onDelete, onRemoveOpenChange, confirmRemove, saveSecret,
               deleteSecret
  <1>6. UNCHANGED <<version, live, list, detail, listFetch, detailFetch, confirm, opened, own, home, joined>>
        /\ asked' = FALSE
    BY DEF Edit, mutate, onDelete, onRemoveOpenChange, confirmRemove, server, queries, told
  <1>7. writes' \subseteq Requests /\ \A w \in writes' : w.id <= opened'
    <2>1. form.id <= opened
      BY <1>2 DEF AdminTypeOK
    <2> QED BY <1>5, <1>6, <2>1 DEF AdminTypeOK
  <1>8. AdminTypeOK'
    <2>1. QueriesOK'
      BY <1>6 DEF AdminTypeOK
    <2>2. FormOK'
      BY <1>2, <1>3, <1>6 DEF AdminTypeOK
    <2>3. WritesOK'
      BY <1>7
    <2> QED BY <1>6, <2>1, <2>2, <2>3 DEF AdminTypeOK
  <1>9. FormInv' /\ ToldInv' /\ RecordInv' /\ ListInv'
    BY <1>1, <1>3, <1>4, <1>6 DEF FormInv, ToldInv, RecordInv, ListInv
  <1>10. WritesInv'
    BY <1>5, <1>6 DEF WritesInv
  <1> QED BY <1>8, <1>9, <1>10

(* The list's delete dialog. *)
LEMMA DialogStep ==
  ASSUME AdminInv, NEW other \in BOOLEAN, openRemove(other) \/ closeRemove \/ confirmRowRemove
  PROVE  AdminInv'
  <1> USE DEF AdminInv, QueriesOK, FormOK, WritesOK, Mine
  <1>1. confirm' \in Dialogs
    <2>1. confirm \in Dialogs
      BY DEF AdminTypeOK
    <2>2. CASE openRemove(other)
      BY <2>2 DEF openRemove, Dialogs
    <2>3. CASE closeRemove
      BY <2>1, <2>3 DEF closeRemove, Dialogs
    <2>4. CASE confirmRowRemove
      BY <2>1, <2>4 DEF confirmRowRemove, Dialogs
    <2> QED BY <2>2, <2>3, <2>4
  <1>2. \A w \in writes' :
           \/ w \in writes
           \/ w \in Requests /\ w.id = opened /\ w.state = "sent" /\ w.kind \in {"row", "other"}
    <2>1. \A kind \in {"row", "other"} : deleteSecret(kind, opened, list.version) \in Requests
      BY DEF deleteSecret, Requests, AdminTypeOK
    <2> QED BY <2>1 DEF openRemove, closeRemove, confirmRowRemove, deleteSecret
  <1>3. UNCHANGED <<version, live, list, detail, listFetch, detailFetch, form, opened, own, home, joined>>
        /\ asked' = FALSE
    BY DEF openRemove, closeRemove, confirmRowRemove, server, queries, told
  <1>4. writes' \subseteq Requests /\ \A w \in writes' : w.id <= opened'
    BY <1>2, <1>3 DEF AdminTypeOK
  <1>5. AdminTypeOK'
    BY <1>1, <1>3, <1>4 DEF AdminTypeOK
  <1>6. ToldInv' /\ RecordInv' /\ ListInv'
    BY <1>3 DEF ToldInv, RecordInv, ListInv
  <1>7. FormInv'
    BY <1>2, <1>3 DEF FormInv, FromForm
  <1>8. WritesInv'
    BY <1>2, <1>3 DEF WritesInv
  <1> QED BY <1>5, <1>6, <1>7, <1>8

(* The record moves on to its next version: what was behind it stays so.    *)
LEMMA Later ==
  ASSUME AdminInv, live, version <= MaxVersion, version' = version + 1,
         UNCHANGED <<list, detail, listFetch, detailFetch, form, confirm, opened, own, home, joined>>
  PROVE  /\ version' \in Versions /\ version < version'
         /\ ToldInv' /\ RecordInv' /\ ListInv'
  <1> USE DEF AdminInv, QueriesOK, FormOK, WritesOK, Mine
  <1>1. version \in Nat /\ version >= 1 /\ own \in Nat
    BY AdminAssumption DEF AdminTypeOK, Versions
  <1>2. version' \in Versions /\ version < version'
    BY <1>1, AdminAssumption DEF Versions
  <1>3. ToldInv'
    BY <1>1 DEF ToldInv
  <1>4. RecordInv' /\ ListInv'
    BY DEF RecordInv, ListInv
  <1> QED BY <1>2, <1>3, <1>4

(* Another user saves. *)
LEMMA OtherSaveStep == ASSUME AdminInv, OtherSave PROVE AdminInv'
  <1> USE DEF AdminInv, QueriesOK, FormOK, WritesOK, Mine
  <1>1. /\ version' \in Versions /\ version < version'
        /\ ToldInv' /\ RecordInv' /\ ListInv'
    BY Later DEF OtherSave, queries, told
  <1>2. AdminTypeOK'
    <2>1. QueriesOK' /\ FormOK' /\ WritesOK'
      BY DEF OtherSave, AdminTypeOK, queries
    <2> QED BY <1>1, <2>1 DEF OtherSave, AdminTypeOK, told
  <1>3. WritesInv'
    <2>1. \A w \in writes : w.etag \in Nat
      BY AdminAssumption DEF AdminTypeOK, Requests, Versions
    <2>2. version \in Nat /\ version' \in Nat
      BY <1>1, AdminAssumption DEF AdminTypeOK, Versions
    <2> QED BY <1>1, <2>1, <2>2 DEF OtherSave, WritesInv
  <1>4. FormInv'
    BY DEF OtherSave, FormInv, queries
  <1> QED BY <1>1, <1>2, <1>3, <1>4

(* The server applies a write, or refuses it. *)
LEMMA ServeWriteStep == ASSUME AdminInv, NEW w \in writes, ServeWrite(w) PROVE AdminInv'
  <1> USE DEF AdminInv, QueriesOK, FormOK, WritesOK, Mine
  <1>1. w \in Requests
    BY DEF AdminTypeOK
  <1>2. UNCHANGED <<list, detail, listFetch, detailFetch, form, confirm, opened, own, home, joined>>
        /\ asked' = FALSE
    BY DEF ServeWrite, queries, told
  <1>3. ASSUME NEW x, writes' = (writes \ {w}) \cup {x}, x.id = w.id, x.kind = w.kind
        PROVE  FormInv'
    BY <1>2, <1>3 DEF FormInv, FromForm
  <1>4. CASE ~Matches(w.etag)
    <2>1. PICK x : x = [w EXCEPT !.state = "refused"]
      OBVIOUS
    <2>2. x \in Requests /\ x.id = w.id /\ x.kind = w.kind /\ x.state = "refused"
      BY <1>1, <2>1 DEF Requests
    <2>3. UNCHANGED <<version, live>> /\ writes' = (writes \ {w}) \cup {x}
      BY <1>4, <2>1 DEF ServeWrite, AdminTypeOK
    <2>4. AdminTypeOK'
      <3>1. WritesOK'
        BY <1>2, <2>2, <2>3 DEF AdminTypeOK
      <3>2. QueriesOK' /\ FormOK'
        BY <1>2 DEF AdminTypeOK
      <3> QED BY <1>2, <2>3, <3>1, <3>2 DEF AdminTypeOK
    <2>5. ToldInv' /\ RecordInv' /\ ListInv'
      BY <1>2, <2>3 DEF ToldInv, RecordInv, ListInv
    <2>6. FormInv'
      BY <1>3, <2>2, <2>3
    <2>7. WritesInv'
      BY <2>2, <2>3 DEF WritesInv
    <2> QED BY <2>4, <2>5, <2>6, <2>7
  <1>5. CASE Matches(w.etag)
    <2>1. PICK x : x = [w EXCEPT !.state = "done"]
      OBVIOUS
    <2>2. x \in Requests /\ x.id = w.id /\ x.etag = version /\ x.kind = w.kind
      BY <1>1, <1>5, <2>1 DEF Requests, Matches
    <2>3. /\ live /\ version <= MaxVersion /\ version' = version + 1
          /\ writes' = (writes \ {w}) \cup {x}
          /\ live' = (w.kind = "save")
      BY <1>5, <2>1 DEF ServeWrite, Matches
    <2>4. /\ version' \in Versions /\ version < version'
          /\ ToldInv' /\ RecordInv' /\ ListInv'
      BY <1>2, <2>3, Later
    <2>5. FormInv'
      BY <1>3, <2>2, <2>3
    <2>6. live' \in BOOLEAN
      BY <2>3
    <2>7. AdminTypeOK'
      <3>1. WritesOK'
        BY <1>2, <2>2, <2>3 DEF AdminTypeOK
      <3>2. QueriesOK' /\ FormOK'
        BY <1>2 DEF AdminTypeOK
      <3> QED BY <1>2, <2>4, <2>6, <3>1, <3>2 DEF AdminTypeOK
    <2>8. ASSUME NEW y \in writes', y.state = "done", y.kind # "other"
          PROVE  y.etag < version'
      <3>1. CASE y = x
        BY <2>2, <2>3, <2>4, <3>1
      <3>2. CASE y # x
        <4>1. y \in writes /\ y \in Requests
          BY <2>3, <3>2 DEF AdminTypeOK
        <4>2. y.etag < version
          BY <2>8, <4>1 DEF WritesInv
        <4>3. y.etag \in Nat /\ version \in Nat /\ version' \in Nat
          BY <2>4, <4>1, AdminAssumption DEF Requests, Versions, AdminTypeOK
        <4> QED BY <2>4, <4>2, <4>3
      <3> QED BY <3>1, <3>2
    <2> QED BY <2>4, <2>7, <2>8, <2>5 DEF WritesInv
  <1> QED BY <1>4, <1>5

(* The delete of another row is served. *)
LEMMA ServeOtherStep == ASSUME AdminInv, NEW w \in writes, ServeOther(w) PROVE AdminInv'
  <1> USE DEF AdminInv, QueriesOK, FormOK, WritesOK, Mine
  <1>1. w \in Requests /\ w.kind = "other"
    BY DEF AdminTypeOK, ServeOther
  <1>2. PICK state \in {"done", "refused"} : writes' = (writes \ {w}) \cup {[w EXCEPT !.state = state]}
    BY DEF ServeOther
  <1>3. PICK x : x = [w EXCEPT !.state = state]
    OBVIOUS
  <1>4. x \in Requests /\ x.id = w.id /\ x.kind = "other" /\ writes' = (writes \ {w}) \cup {x}
    BY <1>1, <1>2, <1>3 DEF Requests
  <1>5. /\ UNCHANGED <<version, live, list, detail, listFetch, detailFetch, form, confirm, opened, own,
                       home, joined>>
        /\ asked' = FALSE
    BY DEF ServeOther, server, queries, told
  <1>6. AdminTypeOK'
    <2>1. WritesOK'
      BY <1>4, <1>5 DEF AdminTypeOK
    <2>2. QueriesOK' /\ FormOK'
      BY <1>5 DEF AdminTypeOK
    <2> QED BY <1>5, <2>1, <2>2 DEF AdminTypeOK
  <1>7. FormInv' /\ WritesInv'
    BY <1>4, <1>5 DEF FormInv, FromForm, WritesInv
  <1>8. ToldInv' /\ RecordInv' /\ ListInv'
    BY <1>5 DEF ToldInv, RecordInv, ListInv
  <1> QED BY <1>6, <1>7, <1>8

(* A form's write succeeded.  The version it made is not ahead of the       *)
(* server; the record's query and its fetch are thrown away; and only the   *)
(* form that sent it, which lets it through, raises home.                   *)
LEMMA SucceededStep == ASSUME AdminInv, NEW w \in writes, Succeeded(w) PROVE AdminInv'
  <1> USE DEF AdminInv, QueriesOK, FormOK, WritesOK, Mine
  <1>1. /\ w \in Requests /\ w.state = "done" /\ writes' = writes \ {w}
        /\ w.kind # "other" /\ UNCHANGED <<version, live, opened>>
        /\ joined' = (joined \/ (Mine(w) /\ listFetch \notin {Absent, Asked}))
    BY DEF Succeeded, AdminTypeOK, server, FromForm
  <1>2. w.etag \in Nat /\ version \in Nat /\ own \in Nat /\ home \in Nat /\ w.etag < version
    BY <1>1, AdminAssumption DEF Requests, Versions, AdminTypeOK, WritesInv
  <1>3. /\ own' \in Nat /\ own' <= version /\ own <= own'
        /\ own' = own \/ own' = w.etag + 1
    BY <1>2 DEF Succeeded, ToldInv
  <1>4. home' \in {home, own'} /\ home' <= own' /\ (home' # home => Mine(w))
    BY <1>2, <1>3 DEF Succeeded, ToldInv
  <1>5. own' \in {0} \cup Versions /\ home' \in {0} \cup Versions
    <2>1. own \in {0} \cup Versions /\ home \in {0} \cup Versions /\ version \in Versions
      BY DEF AdminTypeOK
    <2>2. own' \in {0} \cup Versions
      BY <1>2, <1>3, <2>1, AdminAssumption DEF Versions
    <2> QED BY <1>4, <2>1, <2>2
  <1>6. list' = [list EXCEPT !.stale = TRUE] /\ detail' = Absent
    BY DEF Succeeded, goBackAndRefresh, Invalid, Forgotten
  <1>7. /\ list' \in [version : Versions, live : BOOLEAN, stale : BOOLEAN]
        /\ list'.stale = TRUE
    BY <1>6 DEF AdminTypeOK
  <1>8. \/ /\ form # Absent /\ form' = Absent /\ detailFetch' = Absent /\ confirm' = Closed
           /\ listFetch' = IF listFetch = Absent THEN Asked ELSE listFetch
        \/ /\ form # Absent /\ ~Mine(w) /\ detailFetch' = Asked
           /\ UNCHANGED <<form, confirm, listFetch>>
        \/ /\ form = Absent /\ UNCHANGED <<form, confirm, listFetch, detailFetch>>
    BY <1>6, <1>7 DEF Succeeded, goBackAndRefresh, ShowList, Guarded, Passes, Mine
  <1>9. asked' \in BOOLEAN
    <2>1. form # Absent => form.edited \in BOOLEAN
      BY DEF AdminTypeOK, Pages
    <2> QED BY <2>1 DEF Succeeded, goBackAndRefresh, Guarded
  <1>10. AdminTypeOK'
    <2>1. listFetch' \in {Absent, Asked} \cup Answers /\ detailFetch' \in {Absent, Asked} \cup Answers
      BY <1>8 DEF AdminTypeOK
    <2>2. QueriesOK'
      BY <1>6, <1>7, <2>1
    <2>3. FormOK'
      BY <1>1, <1>8 DEF AdminTypeOK
    <2>4. WritesOK'
      BY <1>1 DEF AdminTypeOK
    <2>5. confirm' \in Dialogs
      <3>1. Closed \in Dialogs
        BY DEF Closed, Dialogs
      <3> QED BY <1>8, <3>1 DEF AdminTypeOK
    <2> QED BY <1>1, <1>5, <1>9, <2>2, <2>3, <2>4, <2>5 DEF AdminTypeOK
  <1>11. FormInv' /\ WritesInv' /\ ToldInv'
    BY <1>1, <1>3, <1>4, <1>8 DEF FormInv, WritesInv, ToldInv
  <1>12. RecordInv'
    <2>1. detailFetch' \in {Absent, Asked}
      BY <1>8 DEF FormInv
    <2> QED BY <1>6, <2>1 DEF RecordInv
  <1>13. ListInv'
    <2>1. ASSUME listFetch' \notin {Absent, Asked} PROVE listFetch'.version >= home' \/ joined'
      <3>1. listFetch' = listFetch /\ listFetch \notin {Absent, Asked}
        BY <1>8, <2>1
      <3>2. CASE Mine(w)
        BY <1>1, <3>1, <3>2
      <3>3. CASE ~Mine(w)
        BY <1>1, <1>4, <3>1, <3>3 DEF ListInv
      <3> QED BY <3>2, <3>3
    <2> QED BY <1>7, <2>1 DEF ListInv
  <1> QED BY <1>10, <1>11, <1>12, <1>13

(* A form's write failed: the form, if it is still open, has its buttons.   *)
LEMMA FailedStep ==
  ASSUME AdminInv, NEW w \in writes, NEW thrown \in BOOLEAN, Failed(w, thrown) PROVE AdminInv'
  <1> USE DEF AdminInv, QueriesOK, FormOK, WritesOK, Mine
  <1>1. /\ UNCHANGED <<version, live, list, detail, listFetch, detailFetch, confirm, opened, own, home, joined>>
        /\ asked' = FALSE /\ writes' = writes \ {w} /\ FromForm(w)
    BY DEF Failed, server, queries, told
  <1>2. /\ form = Absent => form' = Absent
        /\ form # Absent => /\ form' \in Pages /\ form'.id = form.id
                            /\ form'.seed = form.seed /\ form'.record = form.record
                            /\ form'.remove # "closed" => form.seed > 0
    <2>1. CASE ~Mine(w)
      BY <2>1 DEF Failed, AdminTypeOK, FormInv
    <2>2. CASE Mine(w)
      <3>1. form # Absent /\ form \in Pages /\ form.seed > 0
        BY <1>1, <2>2 DEF AdminTypeOK, FormInv
      <3>2. form' = Fail(form, w, thrown)
        BY <2>2 DEF Failed
      <3> QED BY <3>1, <3>2 DEF Fail, Pages
    <2> QED BY <2>1, <2>2
  <1>3. form # Absent => form' # Absent
    BY <1>2, AbsentAssumption
  <1>4. AdminTypeOK'
    <2>1. QueriesOK'
      BY <1>1 DEF AdminTypeOK
    <2>2. FormOK'
      BY <1>1, <1>2, <1>3 DEF AdminTypeOK
    <2>3. WritesOK'
      BY <1>1 DEF AdminTypeOK
    <2> QED BY <1>1, <2>1, <2>2, <2>3 DEF AdminTypeOK
  <1>5. FormInv'
    BY <1>1, <1>2, <1>3 DEF FormInv
  <1>6. WritesInv' /\ ToldInv' /\ RecordInv'
    BY <1>1 DEF WritesInv, ToldInv, RecordInv
  <1>7. ListInv'
    BY <1>1, <1>2 DEF ListInv
  <1> QED BY <1>4, <1>5, <1>6, <1>7

(* The list hears of a row's delete, or never does. *)
LEMMA RowStep ==
  ASSUME AdminInv, NEW w \in writes, RowDeleted(w) \/ RowLost(w) PROVE AdminInv'
  <1> USE DEF AdminInv, QueriesOK, FormOK, WritesOK, Mine
  <1>1. /\ UNCHANGED <<version, live, list, detail, detailFetch, form, opened, own, home, joined>>
        /\ asked' = FALSE /\ writes' = writes \ {w}
    BY DEF RowDeleted, RowLost, server, queries, told
  <1>2. listFetch' = listFetch \/ (listFetch' = Asked /\ w.state = "done")
    BY DEF RowDeleted, RowLost, queries
  <1>3. confirm' \in Dialogs
    <2>1. confirm \in Dialogs
      BY DEF AdminTypeOK
    <2>2. Closed \in Dialogs
      BY DEF Closed, Dialogs
    <2>3. [confirm EXCEPT !.pending = FALSE, !.error = TRUE] \in Dialogs
      BY <2>1 DEF Dialogs
    <2> QED BY <2>1, <2>2, <2>3 DEF RowDeleted, RowLost
  <1>4. AdminTypeOK'
    <2>1. QueriesOK'
      BY <1>1, <1>2 DEF AdminTypeOK
    <2>2. FormOK' /\ WritesOK'
      BY <1>1 DEF AdminTypeOK
    <2> QED BY <1>1, <1>3, <2>1, <2>2 DEF AdminTypeOK
  <1>5. FormInv' /\ WritesInv' /\ ToldInv' /\ RecordInv'
    BY <1>1 DEF FormInv, WritesInv, ToldInv, RecordInv
  <1>6. ListInv'
    BY <1>1, <1>2 DEF ListInv
  <1> QED BY <1>4, <1>5, <1>6

(* Every step of the user, the server and the connection. *)
LEMMA AdminStep == AdminInv /\ [AdminNext]_adminVars => AdminInv'
  <1> SUFFICES ASSUME AdminInv, [AdminNext]_adminVars PROVE AdminInv'
    OBVIOUS
  <1>1. CASE Leave \/ Cancel \/ BackLink
    BY <1>1, LeaveStep
  <1>2. CASE OpenForm
    BY <1>2, OpenFormStep
  <1>3. CASE Reads
    BY <1>3, ListStep, DetailStep DEF Reads
  <1>4. CASE Refocus
    BY <1>4, RefocusStep
  <1>5. CASE Edit \/ mutate \/ onDelete \/ onRemoveOpenChange \/ confirmRemove
    BY <1>5, FormStep
  <1>6. ASSUME NEW other \in BOOLEAN, openRemove(other) \/ closeRemove \/ confirmRowRemove
        PROVE  AdminInv'
    BY <1>6, DialogStep
  <1>7. ASSUME NEW w \in writes, Settle(w) PROVE AdminInv'
    <2>1. CASE ServeWrite(w) \/ ServeOther(w) \/ Succeeded(w)
      BY <2>1, ServeWriteStep, ServeOtherStep, SucceededStep
    <2>2. CASE Failed(w, FALSE) \/ Failed(w, TRUE)
      BY <2>2, FailedStep
    <2>3. CASE RowDeleted(w) \/ RowLost(w)
      BY <2>3, RowStep
    <2> QED BY <1>7, <2>1, <2>2, <2>3 DEF Settle
  <1>8. CASE OtherSave
    BY <1>8, OtherSaveStep
  <1>9. CASE UNCHANGED adminVars
    <2>1. AdminTypeOK' /\ ToldInv' /\ RecordInv'
      BY <1>9 DEF adminVars, AdminInv, AdminTypeOK, QueriesOK, FormOK, WritesOK, ToldInv, RecordInv
    <2>2. FormInv' /\ WritesInv' /\ ListInv'
      BY <1>9 DEF adminVars, AdminInv, FormInv, WritesInv, ListInv, Mine
    <2> QED BY <2>1, <2>2 DEF AdminInv
  <1> QED BY <1>1, <1>2, <1>3, <1>4, <1>5, <1>6, <1>7, <1>8, <1>9 DEF AdminNext

(* The invariant of the admin pages holds in every behaviour. *)
THEOREM AdminCorrect == AdminSpec => []AdminInv
  <1> QED BY AdminStarts, AdminStep, PTL DEF AdminSpec

(* goBackAndRefresh, for any number of writes and forms: a list that is     *)
(* shown as fresh has the write that led back to it, unless it took for its *)
(* own fetch an answer that was on its way before (useResourceList).        *)
THEOREM ListIsFresh == AdminSpec => []ListFresh
  <1>1. AdminInv => ListFresh
    BY DEF AdminInv, ListInv, ListFresh
  <1> QED BY <1>1, AdminCorrect, PTL

(* removeQueries, for any number of writes and forms: the values a form     *)
(* starts from are no older than the last write the user was told of.       *)
THEOREM FormsSeededFresh == AdminSpec => SeededFresh
  <1>1. ASSUME AdminInv, [AdminNext]_adminVars, form' # Absent, form'.seed > 0,
               form # Absent => form.seed = 0
        PROVE  form'.seed >= own
    <2>1. CASE OpenForm
      <3>1. detail # Absent /\ form'.seed = detail.version
        BY <1>1, <2>1 DEF OpenForm, Opening
      <3> QED BY <1>1, <3>1 DEF AdminInv, RecordInv
    <2>2. CASE DetailArrives
      <3>1. form # Absent /\ form \in Pages /\ form.seed = 0
        BY <1>1, <2>2 DEF DetailArrives, AdminInv, FormInv, AdminTypeOK, FormOK
      <3>2. form' = [form EXCEPT !.record = detailFetch.version, !.failed = FALSE,
                                 !.seed = detailFetch.version]
        BY <2>2, <3>1 DEF DetailArrives, Seeded, Pages
      <3>3. form'.seed = detailFetch.version
        BY <3>1, <3>2 DEF Pages
      <3> QED BY <1>1, <2>2, <3>3 DEF DetailArrives, AdminInv, RecordInv
    <2>3. CASE ~OpenForm /\ ~DetailArrives
      <3>1. form # Absent => form \in Pages
        BY <1>1 DEF AdminInv, AdminTypeOK, FormOK
      <3>2. form' = Absent \/ form' = form \/ (form # Absent /\ form'.seed = form.seed)
        <4>1. CASE Leave \/ Cancel \/ BackLink
          BY <4>1 DEF Leave, Cancel, BackLink, ShowList
        <4>2. CASE Edit \/ mutate \/ onDelete \/ onRemoveOpenChange \/ confirmRemove
          BY <3>1, <4>2 DEF Edit, mutate, onDelete, onRemoveOpenChange, confirmRemove, Submittable,
             Usable, Shown, Pages
        <4>3. CASE (\E other \in BOOLEAN : openRemove(other)) \/ closeRemove \/ confirmRowRemove
                     \/ OtherSave \/ Refocus
          BY <4>3 DEF openRemove, closeRemove, confirmRowRemove, OtherSave, Refocus
        <4>4. CASE Reads
          <5>1. DetailFails => form # Absent
            BY <1>1 DEF DetailFails, AdminInv, FormInv
          <5> QED BY <2>3, <3>1, <4>4, <5>1 DEF Reads, ServeList, ListArrives, ListFails, ServeDetail,
                 DetailFails, Pages
        <4>5. ASSUME NEW w \in writes, Settle(w)
              PROVE  form' = Absent \/ form' = form \/ (form # Absent /\ form'.seed = form.seed)
          <5>1. CASE ServeWrite(w) \/ ServeOther(w) \/ RowDeleted(w) \/ RowLost(w)
            BY <5>1 DEF ServeWrite, ServeOther, RowDeleted, RowLost
          <5>2. CASE Succeeded(w)
            BY <5>2 DEF Succeeded, goBackAndRefresh, ShowList
          <5>3. CASE Failed(w, FALSE) \/ Failed(w, TRUE)
            BY <3>1, <5>3 DEF Failed, Fail, Mine, Pages
          <5> QED BY <4>5, <5>1, <5>2, <5>3 DEF Settle
        <4>6. CASE UNCHANGED adminVars
          BY <4>6 DEF adminVars
        <4> QED BY <1>1, <2>3, <4>1, <4>2, <4>3, <4>4, <4>5, <4>6 DEF AdminNext
      <3> QED BY <1>1, <3>2
    <2> QED BY <2>1, <2>2, <2>3
  <1>2. AdminInv /\ [AdminNext]_adminVars =>
           [(form' # Absent /\ form'.seed > 0 /\ (form # Absent => form.seed = 0))
              => form'.seed >= own]_adminVars
    BY <1>1
  <1> QED BY <1>2, AdminCorrect, PTL DEF AdminSpec, SeededFresh

(* The blockers and their passes, for any number of writes and forms: edits *)
(* are not lost without a question.                                         *)
THEOREM EditsAreGuarded == AdminSpec => EditsGuarded
  <1>1. ASSUME AdminInv, [AdminNext]_adminVars, form # Absent, form.edited, form' = Absent
        PROVE  \/ asked'
               \/ \E w \in writes \ writes' : w.id = form.id /\ w.state = "done"
               \/ BackLink
    <2>1. form \in Pages
      BY <1>1 DEF AdminInv, AdminTypeOK, FormOK
    <2>2. CASE Leave \/ Cancel
      BY <1>1, <2>2 DEF Leave, Cancel
    <2>3. CASE OpenForm
      BY <1>1, <2>3 DEF OpenForm
    <2>4. CASE Reads
      <3>1. CASE DetailArrives
        <4>1. detailFetch \in Answers
          BY <1>1, <3>1 DEF DetailArrives, AdminInv, AdminTypeOK, QueriesOK
        <4>2. PICK v \in Versions : v = detailFetch.version
          BY <4>1 DEF Answers
        <4>3. Seeded(form, v) \in Pages
          BY <2>1 DEF Seeded, Pages
        <4>4. form' \in Pages
          BY <3>1, <4>2, <4>3 DEF DetailArrives
        <4> QED BY <1>1, <4>4, AbsentAssumption
      <3>2. CASE ServeList \/ ListArrives \/ ListFails \/ ServeDetail
        BY <1>1, <3>2 DEF ServeList, ListArrives, ListFails, ServeDetail
      <3>3. CASE DetailFails
        <4>1. form' \in Pages
          BY <2>1, <3>3 DEF DetailFails, Pages
        <4> QED BY <1>1, <4>1, AbsentAssumption
      <3> QED BY <2>4, <3>1, <3>2, <3>3 DEF Reads
    <2>5. CASE Edit \/ mutate \/ onDelete \/ onRemoveOpenChange \/ confirmRemove
      <3>1. form' \in Pages
        BY <2>1, <2>5 DEF Edit, mutate, onDelete, onRemoveOpenChange, confirmRemove, Pages
      <3> QED BY <1>1, <3>1, AbsentAssumption
    <2>6. CASE (\E other \in BOOLEAN : openRemove(other)) \/ closeRemove \/ confirmRowRemove
                 \/ OtherSave \/ Refocus
      BY <1>1, <2>6 DEF openRemove, closeRemove, confirmRowRemove, OtherSave, Refocus
    <2>7. ASSUME NEW w \in writes, Settle(w)
          PROVE  asked' \/ \E x \in writes \ writes' : x.id = form.id /\ x.state = "done"
      <3>1. CASE ServeWrite(w) \/ ServeOther(w) \/ RowDeleted(w) \/ RowLost(w)
        BY <1>1, <3>1 DEF ServeWrite, ServeOther, RowDeleted, RowLost
      <3>2. CASE Failed(w, FALSE) \/ Failed(w, TRUE)
        <4>1. form' \in Pages
          BY <2>1, <3>2 DEF Failed, Fail, Mine, Pages
        <4> QED BY <1>1, <4>1, AbsentAssumption
      <3>3. CASE Succeeded(w)
        <4>1. w.state = "done" /\ writes' = writes \ {w} /\ asked' = Guarded(w.id)
          BY <1>1, <3>3 DEF Succeeded, goBackAndRefresh
        <4> QED BY <1>1, <4>1 DEF Guarded, Passes
      <3> QED BY <2>7, <3>1, <3>2, <3>3 DEF Settle
    <2>8. CASE UNCHANGED adminVars
      BY <1>1, <2>8 DEF adminVars
    <2> QED BY <1>1, <2>2, <2>3, <2>4, <2>5, <2>6, <2>7, <2>8 DEF AdminNext
  <1>2. AdminInv /\ [AdminNext]_adminVars =>
           [(form # Absent /\ form.edited /\ form' = Absent) =>
               \/ asked'
               \/ \E w \in writes \ writes' : w.id = form.id /\ w.state = "done"
               \/ BackLink]_adminVars
    BY <1>1
  <1> QED BY <1>2, AdminCorrect, PTL DEF AdminSpec, EditsGuarded
=============================================================================
