----------------------------- MODULE BufferViews -----------------------------
(***************************************************************************)
(* BufferViewCollection (src/src/buffer_view.rs): views onto shared        *)
(* buffers, each with its cursor, and the propagation of every edit made   *)
(* through one view to the cursors of its siblings (the other views on the *)
(* same buffer), for insert_text, remove_in_selection, undo and redo.      *)
(*                                                                         *)
(* A buffer's text is a sequence of character identities, a position an   *)
(* offset into it (lines are abstracted away; the shift rules of spec 4.5  *)
(* are the same on offsets).  The buffer, its undo history and Cursor's    *)
(* insert and remove rules are outside this source set and are modelled    *)
(* from the spec (sections 3 and 4.5); undo and redo may yield any edits   *)
(* of the text, since the history itself is out of the spec's scope.       *)
(*                                                                         *)
(* Each view holds one cursor.  Each cursor end carries a ghost mark: the  *)
(* character it stands before (0 at the end of the text).  A mark follows  *)
(* its character through edits and moves to the next surviving character  *)
(* when its own is removed; it is reset only where the code sets the       *)
(* cursor outright (a move, a collapse, a swap, the acting view of an      *)
(* undo or redo).                                                          *)
(***************************************************************************)
EXTENDS Integers, Sequences

CONSTANTS
    Buffers,    \* buffer handles (model values)
    MaxViews,   \* bound on the number of views pushed
    MaxLen,     \* bound on the length of a buffer's text
    MaxIds      \* bound on the characters ever inserted (fresh identities)

VARIABLES
    views,      \* buffer_views: Seq of [buffer, anchor, position, amark, pmark]
    text,       \* text[b]: the characters of buffer b, in order
    nextId      \* the identity of the next character inserted

vars == <<views, text, nextId>>

End == 0

Range(from, to) == [from |-> from, to |-> to]

\* The character an offset stands before.
MarkAt(t, p) == IF p < Len(t) THEN t[p + 1] ELSE End

\* The offset of a mark in t; -1 when its character is not there.
OffsetOf(t, m) ==
    IF m = End THEN Len(t)
    ELSE IF \E p \in 0..(Len(t) - 1) : t[p + 1] = m
            THEN CHOOSE p \in 0..(Len(t) - 1) : t[p + 1] = m
            ELSE -1

\* Buffer::insert_text and Buffer::remove_range: the text and the range.
Inserted(t, p, s) == SubSeq(t, 1, p) \o s \o SubSeq(t, p + 1, Len(t))
Removed(t, r) == SubSeq(t, 1, r.from) \o SubSeq(t, r.to + 1, Len(t))

Fresh(n) == [j \in 1..n |-> nextId + j - 1]

(***************************************************************************)
(* Cursor::insert and Cursor::remove on each end (spec 4.5): an insert at  *)
(* or before it pushes it forward by the inserted length; a remove         *)
(* containing it collapses it to the range's start; one before it shifts   *)
(* it back.                                                                *)
(***************************************************************************)
InsertShift(p, r) == IF p >= r.from THEN p + (r.to - r.from) ELSE p
RemoveShift(p, r) ==
    IF p >= r.to THEN p - (r.to - r.from) ELSE IF p > r.from THEN r.from ELSE p

CursorInsert(v, r) ==
    [v EXCEPT !.anchor = InsertShift(@, r), !.position = InsertShift(@, r)]
CursorRemove(v, r) ==
    [v EXCEPT !.anchor = RemoveShift(@, r), !.position = RemoveShift(@, r)]

\* Cursor::range: the selection between anchor and position.
Selection(v) ==
    IF v.anchor <= v.position THEN Range(v.anchor, v.position)
                              ELSE Range(v.position, v.anchor)

\* Ghost: after a removal of r from t, a mark whose character went moves
\* to the first character after r.
Survive(m, t, r) ==
    IF m # End /\ OffsetOf(t, m) \in r.from..(r.to - 1) THEN MarkAt(t, r.to) ELSE m

Track(v, t, r) == [v EXCEPT !.amark = Survive(@, t, r), !.pmark = Survive(@, t, r)]

\* The cursor set outright at p: its marks are the character at p.
SetAt(v, t, p) == [v EXCEPT !.anchor = p, !.position = p,
                            !.amark = MarkAt(t, p), !.pmark = MarkAt(t, p)]

(***************************************************************************)
(* current_and_other_buffer_views_mut: the views other than index i that  *)
(* hold the buffer of view i.                                              *)
(***************************************************************************)
Siblings(i) ==
    {j \in DOMAIN views : j # i /\ views[j].buffer = views[i].buffer}

Init ==
    /\ views = <<>>
    /\ text = [b \in Buffers |-> <<>>]
    /\ nextId = 1

\* BufferViewCollection::push of BufferView::with_handle(b): a new cursor at 0.
Push(b) ==
    /\ Len(views) < MaxViews
    /\ views' = Append(views, [buffer |-> b, anchor |-> 0, position |-> 0,
                               amark |-> MarkAt(text[b], 0), pmark |-> MarkAt(text[b], 0)])
    /\ UNCHANGED <<text, nextId>>

\* Mutant: the target column is not capped at the line's length.
MoveCursorsUncapped(i, d) ==
    LET t == text[views[i].buffer]
        target == views[i].position + d
    IN /\ \E p \in IF target < 0 THEN {0, Len(t)} ELSE {target} :
             views' = [views EXCEPT ![i].position = p, ![i].pmark = MarkAt(t, p)]
       /\ UNCHANGED <<text, nextId>>

(***************************************************************************)
(* BufferView::move_cursors by a column offset d: the target column is     *)
(* capped at the line's length but not raised to 0.  Its conversion back   *)
(* to a BufferPosition is in buffer_position.rs, outside this source set:  *)
(* a negative column lands at either bound of the line.                    *)
(***************************************************************************)
MoveCursors(i, d) ==
    LET t == text[views[i].buffer]
        target == views[i].position + d
    IN /\ \E p \in IF target < 0 THEN {0, Len(t)}
                   ELSE {IF target < Len(t) THEN target ELSE Len(t)} :
             views' = [views EXCEPT ![i].position = p, ![i].pmark = MarkAt(t, p)]
       /\ UNCHANGED <<text, nextId>>

\* BufferView::collapse_cursor_anchors.
CollapseCursorAnchors(i) ==
    /\ views' = [views EXCEPT ![i].anchor = views[i].position, ![i].amark = views[i].pmark]
    /\ UNCHANGED <<text, nextId>>

\* BufferView::swap_cursor_position_and_anchor.
SwapCursorPositionAndAnchor(i) ==
    /\ views' = [views EXCEPT ![i].anchor = views[i].position, ![i].position = views[i].anchor,
                              ![i].amark = views[i].pmark, ![i].pmark = views[i].amark]
    /\ UNCHANGED <<text, nextId>>

(***************************************************************************)
(* BufferViewCollection::insert_text of n characters through view i: the  *)
(* buffer inserts them at the cursor's position, the cursor takes the      *)
(* returned range, and the same range is applied to every sibling's       *)
(* cursor.                                                                 *)
(***************************************************************************)
InsertText(i, n) ==
    LET b == views[i].buffer
        r == Range(views[i].position, views[i].position + n)
    IN /\ Len(text[b]) + n <= MaxLen
       /\ nextId + n - 1 <= MaxIds
       /\ text' = [text EXCEPT ![b] = Inserted(@, r.from, Fresh(n))]
       /\ views' = [j \in DOMAIN views |->
                      IF j = i \/ j \in Siblings(i) THEN CursorInsert(views[j], r)
                                                    ELSE views[j]]
       /\ nextId' = nextId + n

(***************************************************************************)
(* BufferViewCollection::remove_in_selection through view i: the buffer    *)
(* removes the cursor's selection, the cursor collapses to its start, and  *)
(* the range is applied to every sibling's cursor.                         *)
(***************************************************************************)
RemoveInSelection(i) ==
    LET b == views[i].buffer
        t == text[b]
        r == Selection(views[i])
    IN /\ text' = [text EXCEPT ![b] = Removed(t, r)]
       /\ views' = [j \in DOMAIN views |->
                      IF j = i \/ j \in Siblings(i)
                         THEN Track(CursorRemove(views[j], r), t, r)
                         ELSE views[j]]
       /\ UNCHANGED nextId

\* An edit the buffer's history yields: its kind, its range, the characters.
Edit(kind, r, s) == [kind |-> kind, range |-> r, chars |-> s]

\* Mutant: the siblings of an undone or redone removal are shifted as for an insert.
ApplyEditRemoveAsInsert(i, vs, t, e) ==
    LET sib == {j \in DOMAIN vs : j # i /\ vs[j].buffer = vs[i].buffer}
        nt == IF e.kind = "Insert" THEN Inserted(t, e.range.from, e.chars)
                                   ELSE Removed(t, e.range)
    IN [views |-> [j \in DOMAIN vs |->
                    CASE j = i /\ e.kind = "Insert" -> SetAt(vs[j], nt, e.range.to)
                      [] j = i                      -> SetAt(vs[j], nt, e.range.from)
                      [] j \in sib                  -> CursorInsert(vs[j], e.range)
                      [] OTHER                      -> vs[j]],
       text |-> nt]

(***************************************************************************)
(* One step of BufferViewCollection::apply_edits on views vs and text t:  *)
(* the buffer applies edit e; the acting view's cursor is set to the end   *)
(* of an inserted range or the start of a removed one; the siblings'      *)
(* cursors take the range as for any insert or remove.                     *)
(***************************************************************************)
ApplyEdit(i, vs, t, e) ==
    LET sib == {j \in DOMAIN vs : j # i /\ vs[j].buffer = vs[i].buffer}
        nt == IF e.kind = "Insert" THEN Inserted(t, e.range.from, e.chars)
                                   ELSE Removed(t, e.range)
    IN [views |-> [j \in DOMAIN vs |->
                    CASE j = i /\ e.kind = "Insert" -> SetAt(vs[j], nt, e.range.to)
                      [] j = i                      -> SetAt(vs[j], nt, e.range.from)
                      [] j \in sib /\ e.kind = "Insert" -> CursorInsert(vs[j], e.range)
                      [] j \in sib                  -> Track(CursorRemove(vs[j], e.range), t, e.range)
                      [] OTHER                      -> vs[j]],
       text |-> nt]

\* apply_edits: the edits in the order the buffer yields them.
RECURSIVE ApplyEdits(_, _, _, _)
ApplyEdits(i, vs, t, es) ==
    IF es = <<>> THEN [views |-> vs, text |-> t]
    ELSE LET s == ApplyEdit(i, vs, t, Head(es))
         IN ApplyEdits(i, s.views, s.text, Tail(es))

\* The single edits the history may hold for text t: one character
\* inserted anywhere, or a non-empty range removed.
EditsOf(t, id) ==
    {Edit("Insert", Range(p, p + 1), <<id>>) : p \in 0..Len(t)}
    \cup {Edit("Remove", r, <<>>) :
            r \in {q \in {Range(f, g) : f, g \in 0..Len(t)} : q.from < q.to}}

TextAfter(t, e) ==
    IF e.kind = "Insert" THEN Inserted(t, e.range.from, e.chars) ELSE Removed(t, e.range)

IdsUsed(es) == Len(SelectSeq(es, LAMBDA e : e.kind = "Insert"))

(***************************************************************************)
(* Buffer::undo (or redo) yields one or two edits of the text, within the  *)
(* bounds; apply_edits applies them through view i.                        *)
(***************************************************************************)
UndoRedoEdits(t) ==
    {<<e>> : e \in EditsOf(t, nextId)}
    \cup UNION {{<<e, f>> : f \in EditsOf(TextAfter(t, e), nextId + IdsUsed(<<e>>))} :
                e \in EditsOf(t, nextId)}

HistoryStep(i) ==
    LET b == views[i].buffer IN
    \E es \in UndoRedoEdits(text[b]) :
       LET s == ApplyEdits(i, views, text[b], es) IN
       /\ Len(TextAfter(text[b], Head(es))) <= MaxLen
       /\ Len(s.text) <= MaxLen
       /\ nextId + IdsUsed(es) - 1 <= MaxIds
       /\ views' = s.views
       /\ text' = [text EXCEPT ![b] = s.text]
       /\ nextId' = nextId + IdsUsed(es)

\* BufferViewCollection::undo: apply_edits(index, buffer.undo()).
Undo(i) == HistoryStep(i)

\* BufferViewCollection::redo: apply_edits(index, buffer.redo()).
Redo(i) == HistoryStep(i)

Next ==
    \/ \E b \in Buffers : Push(b)
    \/ \E i \in DOMAIN views, d \in {-1, 1} : MoveCursors(i, d)
    \/ \E i \in DOMAIN views : CollapseCursorAnchors(i)
    \/ \E i \in DOMAIN views : SwapCursorPositionAndAnchor(i)
    \/ \E i \in DOMAIN views, n \in 1..2 : InsertText(i, n)
    \/ \E i \in DOMAIN views : RemoveInSelection(i)
    \/ \E i \in DOMAIN views : Undo(i)
    \/ \E i \in DOMAIN views : Redo(i)

Spec == Init /\ [][Next]_vars

-----------------------------------------------------------------------------

(***************************************************************************)
(* Every cursor end is a position of its buffer's text (spec 3: positions *)
(* are always valid buffer locations).                                     *)
(***************************************************************************)
TypeOK ==
    /\ views \in Seq([buffer : Buffers, anchor : 0..MaxLen, position : 0..MaxLen,
                      amark : 0..MaxIds, pmark : 0..MaxIds])
    /\ Len(views) <= MaxViews
    /\ text \in [Buffers -> Seq(1..MaxIds)]
    /\ nextId \in 1..(MaxIds + 1)
    /\ \A j \in DOMAIN views : {views[j].anchor, views[j].position} \subseteq 0..Len(text[views[j].buffer])

(***************************************************************************)
(* Every cursor end of every view stands before the character it stood    *)
(* before when the code last set it (or the next one surviving, when that  *)
(* one was removed), however the views of the buffer interleave their     *)
(* inserts, removals, undos and redos: insert_text, remove_in_selection    *)
(* and apply_edits broadcast each range to exactly the siblings of the     *)
(* acting view (spec 4.5, sibling cursor consistency).                     *)
(***************************************************************************)
CursorsFollowText ==
    \A j \in DOMAIN views :
       /\ views[j].anchor = OffsetOf(text[views[j].buffer], views[j].amark)
       /\ views[j].position = OffsetOf(text[views[j].buffer], views[j].pmark)

=============================================================================
