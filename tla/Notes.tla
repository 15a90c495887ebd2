-------------------------------- MODULE Notes --------------------------------
(***************************************************************************)
(* A private note, from the editor of a title's page to the member's row   *)
(* and back: web/js/note.js and noteeditor.js, which read whatever the     *)
(* browser has left in the editor into blocks of runs and write those out, *)
(* and eifo_core/notes.py, which does the same again to what it is sent.   *)
(*                                                                         *)
(* HTML is a sequence of tokens, its elements closed in order.  Escaping,  *)
(* and the letters a word is made of, are left out.                        *)
(***************************************************************************)
EXTENDS Naturals, Sequences, FiniteSetsExt, SequencesExt

CONSTANTS
    Pages,       \* what a browser may leave in the editor
    Plains,      \* what a client sends that knows nothing of formatting
    MaxLength,   \* NOTE_MAX_LENGTH
    MaxStored,   \* NOTE_STORED_MAX_LENGTH, in tokens
    None

VARIABLES
    page,     \* what the editor holds
    sent,     \* the note of the request in flight, None for no note
    stored,   \* user_items.note
    pc,       \* of the page
    kept      \* history: the last note was kept as the page would write it

vars == <<page, sent, stored, pc, kept>>

Text(c) == [token |-> "text", of |-> c, attr |-> None]
Br == [token |-> "br", of |-> "br", attr |-> None]
Open(tag, attr) == [token |-> "open", of |-> tag, attr |-> attr]
Close(tag) == [token |-> "close", of |-> tag, attr |-> None]
HasTags(html) == \E i \in DOMAIN html : html[i].token # "text"

BLOCKS == {"p", "h1"}
BLOCKISH == {"div"}
DROPPED == {"script"}
INLINE == [b |-> "bold", strong |-> "bold", i |-> "italic"]

(* A run is text of one look: its marks, and where it links to.            *)
PLAIN == [marks |-> {}, href |-> None]
Run(text, look) == [text |-> text, look |-> look]
Block(kind, dir, runs) == [kind |-> kind, dir |-> dir, runs |-> runs]

(* SPACES: white space of the markup is a space.                           *)
Spaced(c) == IF c = "\n" THEN " " ELSE c

(* safeHref: of the addresses here only one may be kept.                   *)
SafeHref(attr) == IF attr = "https" THEN attr ELSE None
Direction(attr) == IF attr \in {"rtl", "ltr"} THEN attr ELSE None

-----------------------------------------------------------------------------
(* Tidying, which the two sides do alike.                                  *)

Chars(runs) == FlattenSeq([i \in DOMAIN runs |->
                   [j \in DOMAIN runs[i].text |-> Run(<<runs[i].text[j]>>, runs[i].look)]])
EndsWith(kept_, c) == kept_ # <<>> /\ Last(kept_).text = <<c>>
TextOf(block) == FlattenSeq([i \in DOMAIN block.runs |-> block.runs[i].text])
IsBlank(blocks) == \A i \in DOMAIN blocks : ToSet(TextOf(blocks[i])) \subseteq {" ", "\n"}

WithoutLast(chars, c) == IF EndsWith(chars, c) THEN Front(chars) ELSE chars

(* One character more: spaces collapse, and none is left before a break.   *)
Collapse(chars, char) ==
    IF char.text = <<" ">>
    THEN IF chars = <<>> \/ EndsWith(chars, " ") \/ EndsWith(chars, "\n") THEN chars
         ELSE Append(chars, char)
    ELSE Append(IF char.text = <<"\n">> THEN WithoutLast(chars, " ") ELSE chars, char)

Merge(runs, char) ==
    IF runs # <<>> /\ Last(runs).look = char.look
    THEN Append(Front(runs), Run(Last(runs).text \o char.text, char.look))
    ELSE Append(runs, char)

(* Without the break a browser puts at the end of a block.                 *)
TidyRuns(runs) ==
    FoldLeft(Merge, <<>>,
             WithoutLast(WithoutLast(FoldLeft(Collapse, <<>>, Chars(runs)), " "), "\n"))

(* Empty blocks are dropped at both ends.                                  *)
Tidy(blocks) ==
    LET tidied == [i \in DOMAIN blocks |-> [blocks[i] EXCEPT !.runs = TidyRuns(@)]]
        said == {i \in DOMAIN blocks : tidied[i].runs # <<>>}
    IN  IF said = {} THEN <<>> ELSE SubSeq(tidied, Min(said), Max(said))

Length(blocks) ==
    LET texts == [i \in DOMAIN blocks |-> Len(TextOf(blocks[i]))]
    IN  FoldLeft(+, 0, texts) + (IF blocks = <<>> THEN 0 ELSE Len(blocks) - 1)

-----------------------------------------------------------------------------
(* note.js: a walk over the nodes, with a frame for each element entered.  *)

(* styled: what an inline style says.                                      *)
Styled(attr, look) ==
    [look EXCEPT !.marks = CASE attr = "heavy" -> @ \cup {"bold"}
                             [] attr = "normal" -> @ \ {"bold"}
                             [] OTHER -> @]

Frame(kind, dir, look, dropped) == [kind |-> kind, dir |-> dir, look |-> look, dropped |-> dropped]

(* open, and add.                                                          *)
OpenBlock(at, kind, dir) ==
    [at EXCEPT !.blocks = Append(@, Block(kind, dir, <<>>)), !.current = TRUE]
Add(at, run, kind, dir) ==
    LET in == IF at.current THEN at ELSE OpenBlock(at, kind, dir)
    IN  [in EXCEPT !.blocks[Len(in.blocks)].runs = Append(@, run)]

(* element: into a node,                                                   *)
Enter(at, tag, attr) ==
    LET up == Last(at.frames)
        inner == Frame(IF tag \in BLOCKS THEN tag ELSE up.kind,
                       IF Direction(attr) # None THEN Direction(attr) ELSE up.dir,
                       Styled(attr, up.look), FALSE)
        fresh == [at EXCEPT !.current = FALSE]
        marked == IF tag = "a"
                  THEN [up.look EXCEPT !.href = IF SafeHref(attr) # None THEN SafeHref(attr) ELSE @]
                  ELSE IF tag \in DOMAIN INLINE
                       THEN [up.look EXCEPT !.marks = @ \cup {INLINE[tag]}] ELSE up.look
        into(state, frame) == [state EXCEPT !.frames = Append(@, frame)]
    IN  CASE up.dropped \/ tag \in DROPPED -> into(at, [up EXCEPT !.dropped = TRUE])
          [] tag \in BLOCKS -> into(OpenBlock(fresh, inner.kind, inner.dir), inner)
          [] tag \in BLOCKISH -> into(fresh, inner)
          [] OTHER -> into(at, [up EXCEPT !.look = Styled(attr, marked)])

(* and out of it.                                                          *)
Leave(at, tag) ==
    [at EXCEPT !.frames = Front(@),
               !.current = @ /\ (Last(at.frames).dropped \/ tag \notin BLOCKS \cup BLOCKISH)]

Walk(at, node) ==
    LET here == Last(at.frames) IN
    CASE node.token = "open" -> Enter(at, node.of, node.attr)
      [] node.token = "close" -> Leave(at, node.of)
      [] here.dropped -> at
      [] node.token = "br" -> Add(at, Run(<<"\n">>, here.look), here.kind, here.dir)
      [] OTHER -> Add(at, Run(<<Spaced(node.of)>>, here.look), here.kind, here.dir)

ReadNote(html) ==
    Tidy(FoldLeft(Walk, [blocks |-> <<>>, current |-> FALSE,
                         frames |-> <<Frame("p", None, PLAIN, FALSE)>>], html).blocks)

(* writeRun, writeBlock, writeNote: the one way a note is written out.     *)
Characters(text) == [i \in DOMAIN text |-> IF text[i] = "\n" THEN Br ELSE Text(text[i])]
Within(on, tag, attr, html) == IF on THEN <<Open(tag, attr)>> \o html \o <<Close(tag)>> ELSE html
WriteRun(run) ==
    Within(run.look.href # None, "a", run.look.href,
       Within("bold" \in run.look.marks, "b", None,
          Within("italic" \in run.look.marks, "i", None, Characters(run.text))))
SlipLowBlock(block) ==
    Within(TRUE, block.kind, block.dir,
           FlattenSeq([i \in DOMAIN block.runs |-> WriteRun(block.runs[i])]))

WriteBlock(block) ==
    LET inner == FlattenSeq([i \in DOMAIN block.runs |-> WriteRun(block.runs[i])])
        tall == IF block.runs = <<>> \/ Last(TextOf(block)) = "\n" THEN <<Br>> ELSE <<>>
    IN  Within(TRUE, block.kind, block.dir, inner \o tall)
WriteNote(blocks) == FlattenSeq([i \in DOMAIN blocks |-> WriteBlock(blocks[i])])

-----------------------------------------------------------------------------
(* notes.py: a parser's events, with what is open of each sort.            *)

Inherited(reader) ==
    IF reader.containers = <<>> THEN Block("p", None, <<>>) ELSE Last(reader.containers).gives

(* _open_block, _add: the innermost link that survived.                    *)
ReaderOpens(reader) ==
    [reader EXCEPT !.blocks = Append(@, Inherited(reader)), !.block = TRUE]
ReaderAdds(reader, c) ==
    LET in == IF reader.block THEN reader ELSE ReaderOpens(reader)
        links == SelectSeq(reader.marks, LAMBDA m : m.href # None)
        looks == {INLINE[m.tag] : m \in {m \in ToSet(reader.marks) : m.tag # "a"}}
        look == [marks |-> looks, href |-> IF links = <<>> THEN None ELSE Last(links).href]
    IN  [in EXCEPT !.blocks[Len(in.blocks)].runs = Append(@, Run(<<c>>, look))]

HandleStart(reader, tag, attr) ==
    LET up == Inherited(reader)
        gives == Block(IF tag \in BLOCKS THEN tag ELSE up.kind,
                       IF Direction(attr) # None THEN Direction(attr) ELSE up.dir, <<>>)
        inside == [reader EXCEPT !.block = FALSE,
                                 !.containers = Append(@, [tag |-> tag, gives |-> gives])]
    IN  CASE tag \in DROPPED -> [reader EXCEPT !.dropping = Append(@, tag)]
          [] reader.dropping # <<>> -> reader
          [] tag \in BLOCKS -> ReaderOpens(inside)
          [] tag \in BLOCKISH -> inside
          [] tag = "a" -> [reader EXCEPT !.marks = Append(@, [tag |-> tag, href |-> SafeHref(attr)])]
          [] tag \in DOMAIN INLINE -> [reader EXCEPT !.marks = Append(@, [tag |-> tag, href |-> None])]
          [] OTHER -> reader

Innermost(open, tag) == Max({i \in DOMAIN open : open[i].tag = tag})

HandleEnd(reader, tag) ==
    CASE reader.dropping # <<>> ->
            IF tag = Last(reader.dropping) THEN [reader EXCEPT !.dropping = Front(@)] ELSE reader
      [] tag \in BLOCKS \cup BLOCKISH ->
            [reader EXCEPT !.block = FALSE,
                           !.containers = SubSeq(@, 1, Innermost(@, tag) - 1)]
      [] tag \in DOMAIN INLINE \cup {"a"} ->
            [reader EXCEPT !.marks = RemoveAt(@, Innermost(@, tag))]
      [] OTHER -> reader

Feed(reader, event) ==
    CASE event.token = "open" -> HandleStart(reader, event.of, event.attr)
      [] event.token = "close" -> HandleEnd(reader, event.of)
      [] reader.dropping # <<>> -> reader
      [] event.token = "br" -> ReaderAdds(reader, "\n")
      [] OTHER -> ReaderAdds(reader, Spaced(event.of))

(* Without tags, a paragraph a line.                                       *)
Lines(html) ==
    FoldLeft(LAMBDA lines, node : IF node.of = "\n" THEN Append(lines, Block("p", None, <<>>))
                                  ELSE [lines EXCEPT ![Len(lines)].runs = Append(@, Run(<<node.of>>, PLAIN))],
             <<Block("p", None, <<>>)>>, html)

Read(html) ==
    Tidy(IF HasTags(html)
         THEN FoldLeft(Feed, [blocks |-> <<>>, block |-> FALSE, containers |-> <<>>,
                              marks |-> <<>>, dropping |-> <<>>], html).blocks
         ELSE Lines(html))

(* render: _run_html and _block_html write what note.js writes.            *)
Render(blocks) == WriteNote(blocks)

(* clean, and the limits of the router: 422 for what is too long, or has   *)
(* too much formatting.                                                    *)
Clean(html) == IF IsBlank(Read(html)) THEN None ELSE Render(Read(html))
TooLong(html) == ~IsBlank(Read(html)) /\ Length(Read(html)) > MaxLength
TooFormatted(html) == ~IsBlank(Read(html)) /\ Len(Clean(html)) > MaxStored

-----------------------------------------------------------------------------

TypeOK ==
    /\ pc \in {"editing", "saving", "saved", "failed"}
    /\ kept \in BOOLEAN

Init ==
    /\ page \in Pages /\ pc = "editing"
    /\ sent = None /\ stored = None /\ kept = TRUE

(* paintCount: no note that is too long is saved.                          *)
Saveable(blocks) == IsBlank(blocks) \/ Length(blocks) <= MaxLength

(* What the page has to send of it.                                        *)
NoteOf(html) == IF IsBlank(ReadNote(html)) THEN None ELSE WriteNote(ReadNote(html))

Save ==
    /\ pc # "saving" /\ Saveable(ReadNote(page))
    /\ sent' = NoteOf(page) /\ pc' = "saving"
    /\ UNCHANGED <<page, stored, kept>>

(* A client that reads nothing out of its page sends it as it stands (as a *)
(* bound, a member's first).                                               *)
SendAsIs ==
    /\ pc = "editing" /\ stored = None /\ Saveable(ReadNote(page)) /\ HasTags(page)
    /\ \A i \in DOMAIN page : page[i].attr \notin {"heavy", "normal"}
    /\ sent' = page /\ pc' = "saving"
    /\ UNCHANGED <<page, stored, kept>>

(* The router, and _apply: a note is cleaned and kept, or refused.         *)
Refused(html) == TooLong(html) \/ TooFormatted(html)

Kept ==
    /\ pc = "saving" /\ (sent # None => ~Refused(sent))
    /\ stored' = IF sent = None THEN None ELSE Clean(sent)
    /\ kept' = (stored' = NoteOf(IF sent = None THEN <<>> ELSE sent))
    /\ pc' = "saved" /\ sent' = None
    /\ UNCHANGED page

Refuse ==
    /\ pc = "saving" /\ sent # None /\ Refused(sent)
    /\ kept' = ~TooLong(sent)
    /\ pc' = "failed" /\ sent' = None
    /\ UNCHANGED <<page, stored>>

(* Another client's note (as a bound, a member's first, from nothing).     *)
PlainText(text) ==
    /\ pc = "editing" /\ page = <<>> /\ stored = None /\ ~Refused(text)
    /\ stored' = Clean(text)
    /\ UNCHANGED <<page, sent, pc, kept>>

(* load: the page is opened, the note rebuilt from its blocks.             *)
Load ==
    /\ pc # "saving"
    /\ page' = IF stored = None THEN <<>> ELSE WriteNote(ReadNote(stored))
    /\ pc' = "editing"
    /\ UNCHANGED <<sent, stored, kept>>

Next == Save \/ SendAsIs \/ Kept \/ Refuse \/ Load \/ \E text \in Plains : PlainText(text)

Spec == Init /\ [][Next]_vars

-----------------------------------------------------------------------------

(* A note comes back as it was written: of whatever it is sent the server  *)
(* keeps, to the letter, what the editor would have written of it, and     *)
(* finds nothing too long that the editor lets be saved; and what is kept, *)
(* whoever wrote it, is what the editor and the server write of it again.  *)
(* (notes.py: "The two must agree on what a note looks like written out".) *)
NotesComeBack ==
    /\ kept
    /\ stored # None => WriteNote(ReadNote(stored)) = stored /\ Clean(stored) = stored
=============================================================================
