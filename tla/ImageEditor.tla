---------------------------- MODULE ImageEditor ----------------------------
(***************************************************************************)
(* ImageEditorEngine: an image behind a crop window, edited by buttons,    *)
(* a straighten slider, pointer drags and keyboard shortcuts that arrive   *)
(* in any order, with undo and redo, while images load in the background   *)
(* and the canvas comes and goes.  The React hooks around it forward every *)
(* call of its controls.                                                   *)
(***************************************************************************)
EXTENDS CropMath, Sequences, FiniteSets, Functions

CONSTANTS
    Sources,       \* the images that are asked for
    First,         \* the one the engine is made with: options.src
    Size,          \* Size[src]: natural width and height, in pixels
    Ratio,         \* Ratio[template]: its ratio, Zero for the Free template
    Handles,       \* the drag handles a pointer can hit, "move" among them
    Pulls,         \* the distances of pointer moves: pairs of pixels
    Straightens,   \* slider positions, in steps of CropMath's angle
    Zooms,         \* levels passed to setZoom
    MaxHistory,
    MaxOps,        \* bound: edits, gestures and loads
    None

Templates == DOMAIN Ratio
ZoomMin == 10
ZoomMax == 800
ZoomStep == 25

ASSUME EditorAssumption ==
    /\ MaxHistory \in Nat \ {0}
    /\ "Free" \in Templates /\ Ratio["Free"] = Zero
    /\ MinCropSize \in Nat
    /\ 0 \in Straightens /\ Zooms \subseteq Int

VARIABLES
    edit,        \* the undoable part of the state
    initial,     \* initialEditState
    past, future,
    preStraighten,   \* preStraightenEditState: none or one
    drag,        \* dragOrigin: none or one, with the handle and, as
                 \* preDragEditState too, the edit state at its start
    flags,       \* canUndo, canRedo, isDirty, isDragging
    view,        \* zoom, zoomMode, panned, isPanning, mode
    image,       \* natural size of the image that is shown
    status,      \* imageStatus
    src,         \* the state's src
    loading,     \* loading[s]: how many loads of s are in flight
    cancelled,   \* loadCancelled
    pending,     \* pendingSrc
    mounted,     \* "never", "mounted", "unmounted", "destroyed"
    pressed,     \* how many pointers are held down on the canvas
    mixed,       \* observer: what overlapped a gesture, "none", "edit" or "image"
    ops

history == <<past, future>>
gesture == <<preStraighten, drag, pressed>>
load == <<image, status, src, loading, cancelled, pending>>
vars == <<edit, initial, history, gesture, flags, view, load, mounted, mixed, ops>>

Fresh(w, h, template) ==
    [w |-> w, h |-> h, rotation |-> 0, straighten |-> 0,
     scale |-> One, tx |-> Zero, ty |-> Zero, flipH |-> FALSE, flipV |-> FALSE,
     template |-> template, resizeMode |-> "crop"]

(* isEditStateDirty, in which NaN differs from everything. *)
Differs(a, b) == a # b \/ NaN \in {a.scale, a.tx, a.ty, b.scale, b.tx, b.ty}

Quiet == [canUndo |-> FALSE, canRedo |-> FALSE, isDirty |-> FALSE, isDragging |-> FALSE]
FitView == [zoom |-> 100, zoomMode |-> "fit", panned |-> FALSE, isPanning |-> FALSE,
            mode |-> "view"]

EditOK(e) ==
    /\ DOMAIN e = DOMAIN Fresh(Zero, Zero, None)
    /\ e.rotation \in {0, 90, 180, 270}
    /\ e.straighten \in Straightens
    /\ e.template \in Templates \cup {None}
    /\ e.resizeMode \in {"crop", "cover", "fit"}
    /\ Len(e.scale) = 2 /\ Len(e.tx) = 2 /\ Len(e.ty) = 2

Views == [zoom : ZoomMin..ZoomMax, zoomMode : {"fit", "manual"}, panned : BOOLEAN,
          isPanning : BOOLEAN, mode : {"view", "crop"}]

(* Every edit state, shown or remembered, is one of the editor's: quarter    *)
(* turns, known templates and modes; and the zoom stays within its bounds.   *)
TypeOK ==
    /\ \A e \in {edit, initial} \cup Range(past) \cup Range(future)
                                \cup Range(preStraighten) : EditOK(e)
    /\ \A d \in Range(drag) : d.handle \in Handles /\ EditOK(d.orig)
    /\ flags \in [canUndo : BOOLEAN, canRedo : BOOLEAN, isDirty : BOOLEAN, isDragging : BOOLEAN]
    /\ view \in Views
    /\ status \in {"idle", "loading", "loaded", "error"}
    /\ mounted \in {"never", "mounted", "unmounted", "destroyed"}
    /\ mixed \in {"none", "edit", "image"}

(* The engine of a React editor: made with a source, which loads at mount.  *)
Init ==
    /\ edit = Fresh(Zero, Zero, "Free")
    /\ initial = edit
    /\ past = <<>> /\ future = <<>>
    /\ preStraighten = <<>> /\ drag = <<>> /\ pressed = 0
    /\ flags = Quiet
    /\ view = FitView
    /\ image = [w |-> Zero, h |-> Zero]
    /\ status = "idle"
    /\ src = First /\ pending = First
    /\ loading = [s \in Sources |-> 0] /\ cancelled = FALSE
    /\ mounted = "never"
    /\ mixed = "none" /\ ops = 0

-----------------------------------------------------------------------------
(* State management *)

Angle(e) == [c |-> Cos(e.rotation, e.straighten), s |-> Sin(e.rotation, e.straighten)]

(* Mutant: the oldest entry is not dropped. *)
pushHistory_Unbounded(e) ==
    /\ past' = Append(past, e)
    /\ future' = <<>>

(* A new edit is remembered, the oldest one is dropped beyond the limit and *)
(* what was undone is forgotten.                                            *)
pushHistory(e) ==
    /\ past' = IF Len(past) = MaxHistory THEN Append(Tail(past), e) ELSE Append(past, e)
    /\ future' = <<>>

(* A gesture is under way: the slider moved or a handle is dragged. *)
Open == preStraighten # <<>> \/ drag # <<>>

(* The observer's value when a step met a gesture it is not part of. *)
Overlap(met) == IF met /\ mixed = "none" THEN "edit" ELSE mixed

(* pushHistoryAndUpdate: one undoable step to e. *)
pushHistoryAndUpdate(e) ==
    /\ pushHistory(edit)
    /\ edit' = e
    /\ flags' = [flags EXCEPT !.canUndo = TRUE, !.canRedo = FALSE,
                              !.isDirty = Differs(e, initial)]
    /\ mixed' = Overlap(Open)

(* Edit e with a window of w by h: the scale is raised to what the angle    *)
(* needs and the shift is clamped to what that leaves.                      *)
Fit(e, w, h) ==
    LET a == Angle(e)
        scale == Larger(e.scale, computeMinScale(w, h, image, a.c, a.s))
        max == computeTranslationBounds(w, h, image, scale, a.c, a.s)
    IN  [e EXCEPT !.w = w, !.h = h, !.scale = scale,
                  !.tx = clampTranslation(@, max.tx), !.ty = clampTranslation(@, max.ty)]

Act == mounted = "mounted" /\ ops < MaxOps /\ ops' = ops + 1
Rest == UNCHANGED <<view, load, mounted, initial, gesture>>

-----------------------------------------------------------------------------
(* Edits *)

setResizeMode(m) ==
    /\ Act /\ Rest
    /\ pushHistoryAndUpdate([edit EXCEPT !.resizeMode = m])

quarterTurn(deg) == deg % 360

(* rotateClockwise and rotateCounterClockwise. *)
rotate(by) ==
    /\ Act /\ Rest
    /\ LET turned == [edit EXCEPT !.rotation = quarterTurn(@ + by)]
       IN  pushHistoryAndUpdate(Fit(turned, edit.w, edit.h))

toggleFlipHorizontal ==
    /\ Act /\ Rest
    /\ pushHistoryAndUpdate([edit EXCEPT !.flipH = ~@])

toggleFlipVertical ==
    /\ Act /\ Rest
    /\ pushHistoryAndUpdate([edit EXCEPT !.flipV = ~@])

(* A template with a ratio gives a new window, Free keeps it; the active    *)
(* one is taken off by a second click and keeps it too.                     *)
applyTemplate(t) ==
    LET taken == edit.template = t
        e == [edit EXCEPT !.template = IF taken THEN None ELSE t]
        box == applyCropTemplate(Ratio[t], image)
    IN  /\ Act /\ Rest
        /\ pushHistoryAndUpdate(IF taken \/ Ratio[t] = Zero THEN e ELSE Fit(e, box.w, box.h))

reset ==
    /\ Act /\ Rest
    /\ pushHistoryAndUpdate(initial)

(* The slider moves: the first move remembers the state before it, and none *)
(* of them is an undoable step.                                             *)
setStraighten(d) ==
    /\ Act
    /\ preStraighten' = IF preStraighten = <<>> THEN <<edit>> ELSE preStraighten
    /\ edit' = Fit([edit EXCEPT !.straighten = d], edit.w, edit.h)
    /\ mixed' = Overlap(drag # <<>>)
    /\ UNCHANGED <<initial, history, drag, pressed, flags, view, load, mounted>>

(* Mutant: the release of the slider pushes the state it led to. *)
Before_After(pre) == edit

(* What the end of a gesture makes undoable: the state before it. *)
Before(pre) == pre

(* A gesture that began in state pre ends; a drag may go on under a slider. *)
Commit(pre, dragging) ==
    /\ pushHistory(Before(pre))
    /\ flags' = [flags EXCEPT !.canUndo = TRUE, !.canRedo = FALSE, !.isDragging = dragging,
                              !.isDirty = Differs(edit, initial)]
    /\ UNCHANGED <<edit, initial, load, mounted, ops>>

commitStraighten ==
    /\ preStraighten # <<>> /\ mounted = "mounted"
    /\ Commit(preStraighten[1], flags.isDragging)
    /\ preStraighten' = <<>>
    /\ mixed' = Overlap(drag # <<>>)
    /\ UNCHANGED <<drag, pressed, view>>

undo ==
    /\ past # <<>>
    /\ Act /\ Rest
    /\ edit' = past[Len(past)]
    /\ past' = SubSeq(past, 1, Len(past) - 1)
    /\ future' = <<edit>> \o future
    /\ flags' = [flags EXCEPT !.canUndo = Len(past) > 1, !.canRedo = TRUE,
                              !.isDirty = Differs(edit', initial)]
    /\ mixed' = Overlap(Open)

redo ==
    /\ future # <<>>
    /\ Act /\ Rest
    /\ edit' = Head(future)
    /\ past' = Append(past, edit)
    /\ future' = Tail(future)
    /\ flags' = [flags EXCEPT !.canUndo = TRUE, !.canRedo = Len(future) > 1,
                              !.isDirty = Differs(edit', initial)]
    /\ mixed' = Overlap(Open)

-----------------------------------------------------------------------------
(* Zoom and mode *)

Look(v) ==
    /\ Act
    /\ view' = v
    /\ UNCHANGED <<edit, initial, history, gesture, flags, load, mounted, mixed>>

Bounded(z) == IF z < ZoomMin THEN ZoomMin ELSE IF z > ZoomMax THEN ZoomMax ELSE z

(* zoomIn, zoomOut and setZoom. *)
ZoomTo(z) == Look([view EXCEPT !.zoom = Bounded(z), !.zoomMode = "manual"])

zoomToFit == Look([view EXCEPT !.zoom = 100, !.zoomMode = "fit", !.panned = FALSE])

enterCropMode == Look([view EXCEPT !.mode = "crop"])
exitCropMode == Look([view EXCEPT !.mode = "view"])

-----------------------------------------------------------------------------
(* The pointer.  The canvas captures it, so its moves reach the engine      *)
(* until it is released; a canvas that is taken away loses the release.     *)

Seen == mounted = "mounted"

PanDown ==
    /\ status = "loaded" /\ view.mode = "crop"
    /\ view.zoomMode = "manual" /\ view.zoom > 100
    /\ Act
    /\ pressed' = pressed + 1
    /\ view' = [view EXCEPT !.isPanning = TRUE]
    /\ UNCHANGED <<edit, initial, history, preStraighten, drag, flags, load, mounted, mixed>>

(* A pointer that hits a handle while another one drags takes the drag over, *)
(* from the edit state it finds.                                            *)
PointerDown(handle) ==
    /\ status = "loaded" /\ view.mode = "crop"
    /\ Act
    /\ pressed' = pressed + 1
    /\ drag' = <<[handle |-> handle, orig |-> edit]>>
    /\ flags' = [flags EXCEPT !.isDragging = TRUE]
    /\ mixed' = Overlap(Open)
    /\ UNCHANGED <<edit, initial, history, preStraighten, view, load, mounted>>

PanMove ==
    /\ Seen /\ view.isPanning
    /\ view' = [view EXCEPT !.panned = TRUE]
    /\ UNCHANGED <<edit, initial, history, gesture, flags, load, mounted, mixed, ops>>

dragOrigin == drag[1]

(* The image follows the pointer, clamped to its bounds. *)
Moved(dx, dy) ==
    LET a == Angle(edit)
        max == computeTranslationBounds(edit.w, edit.h, image, edit.scale, a.c, a.s)
    IN  [edit EXCEPT !.tx = clampTranslation(Plus(dragOrigin.orig.tx, Int2Frac(dx)), max.tx),
                     !.ty = clampTranslation(Plus(dragOrigin.orig.ty, Int2Frac(dy)), max.ty)]

(* The window a handle is pulled to, no larger than the image and with the  *)
(* ratio of the template enforced again after that.                         *)
Pulled(dx, dy) ==
    LET t == dragOrigin.orig.template
        ratio == IF t = None THEN Zero ELSE Ratio[t]
        box == resizeCropFromHandle(dragOrigin.handle, dx, dy, dragOrigin.orig.w, dragOrigin.orig.h, ratio)
        w == Smaller(box.w, image.w)
        h == Smaller(box.h, image.h)
    IN  IF ratio = Zero THEN [w |-> w, h |-> h]
        ELSE IF Leq(Over(w, h), ratio) THEN [w |-> w, h |-> Over(w, ratio)]
        ELSE [w |-> Times(h, ratio), h |-> h]

(* The scale is set to the least the window needs, unless something else    *)
(* raised it since the drag began.                                          *)
Resized(box) ==
    LET a == Angle(edit)
        least == computeMinScale(box.w, box.h, image, a.c, a.s)
        scale == IF Leq(edit.scale, dragOrigin.orig.scale) THEN least ELSE Larger(least, edit.scale)
    IN  Fit([edit EXCEPT !.scale = scale], box.w, box.h)

PointerMove(dx, dy) ==
    /\ Seen /\ ~view.isPanning /\ drag # <<>>
    /\ edit' = IF dragOrigin.handle = "move" THEN Moved(dx, dy) ELSE Resized(Pulled(dx, dy))
    /\ UNCHANGED <<initial, history, gesture, flags, view, load, mounted, mixed, ops>>

(* Released or cancelled: a pan ends before a drag does. *)
PointerUp ==
    /\ Seen /\ pressed > 0
    /\ pressed' = pressed - 1
    /\ UNCHANGED preStraighten
    /\ \/ /\ view.isPanning
          /\ view' = [view EXCEPT !.isPanning = FALSE]
          /\ UNCHANGED <<edit, initial, history, flags, load, mounted, drag, mixed, ops>>
       \/ /\ ~view.isPanning /\ drag # <<>>
          /\ Commit(dragOrigin.orig, FALSE)
          /\ drag' = <<>>
          /\ mixed' = Overlap(preStraighten # <<>>)
          /\ UNCHANGED view
       \/ /\ ~view.isPanning /\ drag = <<>>
          /\ UNCHANGED <<edit, initial, history, flags, load, mounted, drag, mixed, ops, view>>

-----------------------------------------------------------------------------
(* Loading and mounting *)

(* loadImage: the flag that is raised and lowered again stops no earlier    *)
(* load.                                                                    *)
Begin(s) ==
    /\ src' = s
    /\ status' = "loading"
    /\ cancelled' = FALSE
    /\ loading' = [loading EXCEPT ![s] = @ + 1]

loadImage(s) ==
    /\ Act
    /\ Begin(s)
    /\ UNCHANGED <<edit, initial, history, gesture, flags, view, mounted, image, pending, mixed>>

(* Mutant: the name is left to the call that asked for the image. *)
Names_Asked(s) == src

(* The source that a finished load names. *)
Names(s) == s

(* onload: whichever load it is of, its image is shown, untouched; a        *)
(* gesture that is under way is not ended.                                  *)
Loaded(s) ==
    /\ loading[s] > 0
    /\ loading' = [loading EXCEPT ![s] = @ - 1]
    /\ ~cancelled
    /\ image' = Size[s]
    /\ src' = Names(s)
    /\ status' = "loaded"
    /\ edit' = Fresh(Size[s].w, Size[s].h, edit.template)
    /\ initial' = edit'
    /\ past' = <<>> /\ future' = <<>>
    /\ flags' = Quiet
    /\ view' = FitView
    /\ mixed' = IF Open THEN "image" ELSE "none"
    /\ UNCHANGED <<gesture, cancelled, pending, mounted, ops>>

LoadFailed(s) ==
    /\ loading[s] > 0
    /\ loading' = [loading EXCEPT ![s] = @ - 1]
    /\ ~cancelled
    /\ status' = "error"
    /\ UNCHANGED <<edit, initial, history, gesture, flags, view, image, src, cancelled,
                   pending, mounted, mixed, ops>>

(* The first mount starts the load of the source the engine was made with. *)
Mount ==
    /\ mounted \in {"never", "unmounted"}
    /\ mounted' = "mounted"
    /\ pending' = None
    /\ IF pending # None THEN Begin(pending)
       ELSE UNCHANGED <<src, status, cancelled, loading>>
    /\ UNCHANGED <<edit, initial, history, gesture, flags, view, image, mixed, ops>>

(* The listeners go; the gesture is not ended and its release is not heard. *)
Unmount ==
    /\ mounted = "mounted"
    /\ ops < MaxOps /\ ops' = ops + 1
    /\ mounted' = "unmounted"
    /\ pressed' = 0
    /\ UNCHANGED <<edit, initial, history, preStraighten, drag, flags, view, load, mixed>>

destroy ==
    /\ mounted \in {"mounted", "unmounted"}
    /\ ops < MaxOps /\ ops' = ops + 1
    /\ mounted' = "destroyed"
    /\ cancelled' = TRUE
    /\ pressed' = 0
    /\ UNCHANGED <<edit, initial, history, preStraighten, drag, flags, view, image, status,
                   src, loading, pending, mixed>>

-----------------------------------------------------------------------------

(* The controls: most are shown in crop mode, and some are disabled by the  *)
(* engine's flags.                                                          *)

ResizeModePicker ==
    /\ view.mode = "crop"
    /\ \E m \in {"crop", "cover", "fit"} \ {edit.resizeMode} : setResizeMode(m)

TemplatePicker == view.mode = "crop" /\ \E t \in Templates : applyTemplate(t)

RotateControls ==
    /\ view.mode = "crop"
    /\ (\E by \in {90, 270} : rotate(by)) \/ (\E d \in Straightens : setStraighten(d))
          \/ commitStraighten

FlipControls == view.mode = "crop" /\ (toggleFlipHorizontal \/ toggleFlipVertical)

UndoRedoControls == (flags.canUndo /\ undo) \/ (flags.canRedo /\ redo)

ResetButton == flags.isDirty /\ reset

ZoomControls == (\E by \in {ZoomStep, -ZoomStep} : ZoomTo(view.zoom + by)) \/ zoomToFit

CropButton == view.mode = "view" /\ enterCropMode
CloseCropButton == view.mode = "crop" /\ exitCropMode

(* The keyboard shortcuts work in both modes and look at no flag. *)
Shortcut ==
    \/ undo \/ redo
    \/ \E by \in {90, 270} : rotate(by)
    \/ toggleFlipHorizontal \/ toggleFlipVertical
    \/ ZoomControls
    \/ reset

Controls ==
    \/ ResizeModePicker \/ TemplatePicker \/ RotateControls \/ FlipControls
    \/ UndoRedoControls \/ ResetButton \/ ZoomControls \/ CropButton \/ CloseCropButton

Pointer ==
    \/ PanDown \/ PanMove
    \/ \E handle \in Handles : PointerDown(handle)
    \/ \E p \in Pulls : PointerMove(p[1], p[2])
    \/ PointerUp

Next ==
    \/ Controls \/ Shortcut \/ Pointer
    \/ \E z \in Zooms : ZoomTo(z)
    \/ \E s \in Sources : loadImage(s) \/ Loaded(s) \/ LoadFailed(s)
    \/ Mount \/ Unmount \/ destroy

Spec == Init /\ [][Next]_vars

-----------------------------------------------------------------------------
(* Properties *)

(* The history never grows past its limit however edits, undos and redos    *)
(* mix, and the undo and redo buttons are live exactly when there is        *)
(* something to undo or to redo.                                            *)
HistoryTold ==
    /\ Len(past) + Len(future) <= MaxHistory
    /\ flags.canUndo <=> past # <<>>
    /\ flags.canRedo <=> future # <<>>

(* Between gestures, isDirty (which arms the reset button) says whether the *)
(* edit differs from the image as it was loaded.                            *)
DirtyTold == Open \/ (flags.isDirty <=> Differs(edit, initial))

(* What the editor tells its callers about undo, redo and unsaved changes  *)
(* is what its history and its edit hold.                                  *)
Told == TypeOK /\ HistoryTold /\ DirtyTold

OnImage(e) ==
    LET a == Angle(e) IN Covered(e.w, e.h, image, e.scale, e.tx, e.ty, a.c, a.s)

(* The image covers the whole crop window, now and in every state undo and  *)
(* redo lead to, as long as no image arrived in the middle of a gesture.    *)
(* The claim is made where the image is shifted along one axis or turned by *)
(* quarters: the translation bounds treat the axes apart.                   *)
NoDeadPixels ==
    (/\ status = "loaded" /\ mixed # "image"
     /\ edit.straighten = 0 \/ edit.tx = Zero \/ edit.ty = Zero) => OnImage(edit)

(* An image that is shown is the image src names, whichever order loads     *)
(* that overlap finish in.                                                  *)
ShownIsNamed == status = "loaded" => image = Size[src]

(* docs/image-editor.md: three formulas "guarantee zero dead pixels at any  *)
(* rotation angle and translation".                                         *)
NoDeadPixelsAnywhere == (status = "loaded" /\ mixed # "image") => OnImage(edit)

(* The state of the last edit: a gesture is one that has not happened yet.   *)
committed == IF drag # <<>> THEN dragOrigin.orig
             ELSE IF preStraighten # <<>> THEN preStraighten[1] ELSE edit

undoLog == IF mixed # "none" THEN <<>> ELSE past \o <<committed>> \o future
cursor == IF mixed # "none" THEN 0 ELSE Len(past) + 1

Log == INSTANCE UndoLog WITH log <- undoLog, at <- cursor

(* With a gesture counted as one edit that has not happened yet, the engine *)
(* implements a plain bounded undo log, until a gesture is overlapped by    *)
(* another edit.                                                            *)
ImplementsUndoLog == Log!Spec
=============================================================================
