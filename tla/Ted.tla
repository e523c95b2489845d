-------------------------------- MODULE Ted --------------------------------
(***************************************************************************)
(* The line editor (user/bin/ted.c).  The buffer is an array of numbered   *)
(* lines; a file is the sequence of its characters, because what comes     *)
(* back from a file depends on how lines are written and read.  A typed    *)
(* line is a sequence of words, of which the numbers and the texts are     *)
(* spelled out.                                                            *)
(***************************************************************************)
EXTENDS Integers, SequencesExt

CONSTANTS Spelling,    \* the characters of numbers and texts that are typed
          Lines,       \* the lines that may be typed
          Names,       \* names of files
          Unwritable,  \* the names open() cannot create
          Files,       \* what there is on the disk at first
          MAX_LINES, MAX_COLS,
          IntBits,     \* the width of an int
          MaxBytes,    \* the size a file may have
          MaxTyped     \* lines typed before the editor is left

VARIABLES buffer, dirty, current_file,
          disk,     \* the files
          typing,   \* lines that may still be typed, -1 when ted is not running
          program,  \* history: the text of each line number
          synced,   \* history: the buffer when it was last cleared, read, written
          saved     \* history: the buffer was written when it was last synced

tedvars == <<buffer, dirty, current_file, disk, typing, program, synced, saved>>

Absent == <<"absent">>

-----------------------------------------------------------------------------
(* Characters and numbers. *)

Digits == <<"0", "1", "2", "3", "4", "5", "6", "7", "8", "9">>
Digit == Range(Digits)
Value == [c \in Digit |-> SelectInSeq(Digits, LAMBDA d : d = c) - 1]

\* s from the first character that is not in C.
After(s, C) == LET k == SelectInSeq(s, LAMBDA c : c \notin C) IN
               IF k = 0 THEN <<>> ELSE SubSeq(s, k, Len(s))

skipws(s) == After(s, {" "})
begin_with_digit(s) == s # <<>> /\ s[1] \in Digit

\* What an int holds after arithmetic that gives n.
AsInt(n) == LET half == 2 ^ (IntBits - 1) IN ((n + half) % (2 * half)) - half

parse_int_token(s) ==
    LET rest == After(s, Digit)
        digits == SubSeq(s, 1, Len(s) - Len(rest)) IN
    [ok |-> digits # <<>>, rest |-> rest,
     number |-> FoldLeft(LAMBDA n, c : AsInt(10 * n + Value[c]), 0, digits)]

\* The digits save_file() writes: none for a negative number.
RECURSIVE Decimal(_)
Decimal(n) == IF n < 0 THEN <<>>
              ELSE IF n < 10 THEN <<Digits[n + 1]>>
              ELSE Append(Decimal(n \div 10), Digits[(n % 10) + 1])

editor_copy(s) == SubSeq(s, 1, Min({Len(s), MAX_COLS - 1}))

-----------------------------------------------------------------------------
(* The buffer. *)

\* The index after the line, if there is one with the number.
Mutfind_insert_index(b, number) ==
    LET k == SelectInSeq(b, LAMBDA l : l.number > number) IN
    IF k = 0 THEN Len(b) + 1 ELSE k

\* The index, from 1, of the first line whose number is not smaller.
find_insert_index(b, number) ==
    LET k == SelectInSeq(b, LAMBDA l : l.number >= number) IN
    IF k = 0 THEN Len(b) + 1 ELSE k

Has(b, idx, number) == idx <= Len(b) /\ b[idx].number = number

upsert_line(b, l) ==
    LET idx == find_insert_index(b, l.number)
        line == [l EXCEPT !.text = editor_copy(@)] IN
    IF Len(b) >= MAX_LINES THEN b
    ELSE IF Has(b, idx, l.number) THEN [b EXCEPT ![idx] = line]
    ELSE InsertAt(b, idx, line)

delete_line_number(b, number) ==
    LET idx == find_insert_index(b, number) IN
    IF Has(b, idx, number) THEN RemoveAt(b, idx) ELSE b

\* LIST start end; a bound below 0 is none.
list_lines(b, start, end) ==
    SelectSeq(b, LAMBDA l : /\ start >= 0 => l.number >= start
                            /\ end >= 0 => l.number <= end)

\* What the operations mean for a program, the texts by their numbers.
Put(prog, l) == IF Cardinality(DOMAIN prog) >= MAX_LINES THEN prog
                ELSE (l.number :> editor_copy(l.text)) @@ prog
Drop(prog, number) == [n \in DOMAIN prog \ {number} |-> prog[n]]

-----------------------------------------------------------------------------
(* Files. *)

\* write(): the kernel writes all of s at the offset, or nothing when the file
\* would become too large; what it returns is not looked at.
write(f, s) ==
    LET end == f.off + Len(s) IN
    IF end > MaxBytes THEN f
    ELSE [f EXCEPT !.off = end,
                   !.bytes = SubSeq(@, 1, f.off) \o s \o SubSeq(@, end + 1, Len(@))]

\* The loop of save_file() over a file with these bytes: three writes a line,
\* from the beginning of the file, which is not cut off.
Written(b, bytes) ==
    FoldLeft(LAMBDA f, l : write(write(write(f, Decimal(l.number) \o <<" ">>),
                                       l.text), <<"\n">>),
             [bytes |-> bytes, off |-> 0], b).bytes

\* The lines of a file, each cut to the size of linebuf, the last one with or
\* without a newline.
RawLines(bytes) ==
    LET ends == SetToSortSeq({k \in 1..Len(bytes) : bytes[k] = "\n"} \cup
                             (IF bytes = <<>> \/ Last(bytes) = "\n" THEN {}
                              ELSE {Len(bytes) + 1}), <) IN
    [k \in 1..Len(ends) |->
        editor_copy(SubSeq(bytes, IF k = 1 THEN 1 ELSE ends[k - 1] + 1, ends[k] - 1))]

\* A line load_file() has read: its number, or 10 after the last one.
LoadLine(r, line) ==
    LET t == parse_int_token(line)
        number == IF t.ok THEN t.number ELSE AsInt(r.last + 10) IN
    [last |-> IF t.ok THEN Max({number, r.last}) ELSE number,
     lines |-> Append(r.lines, [number |-> number,
                                text |-> IF t.ok THEN skipws(t.rest) ELSE line])]

LinesOf(bytes) ==
    FoldLeft(LoadLine, [last |-> 0, lines |-> <<>>], RawLines(bytes)).lines

Loaded(bytes) == FoldLeft(upsert_line, <<>>, LinesOf(bytes))

-----------------------------------------------------------------------------
(* The handlers. *)

Typed == typing > 0 /\ typing' = typing - 1

\* The buffer is what was just read, written or cleared.
Sync(b) == buffer' = b /\ synced' = b /\ dirty' = FALSE

clear_buffer == Sync(<<>>) /\ program' = <<>> /\ saved' = FALSE

load_file(name) ==
    LET bytes == IF disk[name] = Absent THEN <<>> ELSE disk[name] IN
    /\ Sync(Loaded(bytes))
    /\ program' = FoldLeft(Put, <<>>, LinesOf(bytes))
    /\ current_file' = name
    /\ saved' = FALSE
    /\ UNCHANGED disk

save_file(name) ==
    IF name \in Unwritable
    THEN UNCHANGED <<buffer, synced, dirty, disk, current_file, program, saved>>
    ELSE /\ disk' = [disk EXCEPT ![name] =
                       Written(buffer, IF @ = Absent THEN <<>> ELSE @)]
         /\ Sync(buffer)
         /\ saved' = TRUE
         /\ current_file' = name
         /\ UNCHANGED program

\* An edit through the command line: dirty is set if there was something to do.
Edit(b, prog) ==
    /\ buffer' = b
    /\ program' = prog
    /\ UNCHANGED <<current_file, disk, synced, saved>>

\* A deletion does not mark the buffer.
MutDelete(number) == /\ Edit(delete_line_number(buffer, number), Drop(program, number))
                     /\ UNCHANGED dirty

Delete(number) ==
    /\ Edit(delete_line_number(buffer, number), Drop(program, number))
    /\ dirty' = (dirty \/ Has(buffer, find_insert_index(buffer, number), number))

Upsert(l) == /\ Edit(upsert_line(buffer, l), Put(program, l))
             /\ dirty' = (dirty \/ Len(buffer) < MAX_LINES)

Nothing == UNCHANGED <<buffer, dirty, current_file, disk, program, synced, saved>>

\* The words from the k-th one, spelled, with blanks between them.
Spelled(line, k) ==
    FlattenSeq([n \in 1..(Len(line) - k + 1) |->
                  (IF n = 1 THEN <<>> ELSE <<" ">>) \o Spelling[line[n + k - 1]]])

NumberLine(line) == /\ line # <<>> /\ line[1] \in DOMAIN Spelling
                    /\ begin_with_digit(Spelling[line[1]])

handle_line_input(line) ==
    /\ Typed /\ NumberLine(line)
    /\ LET t == parse_int_token(Spelled(line, 1))
           text == skipws(t.rest) IN
       IF t.number <= 0 THEN Nothing
       ELSE IF text = <<>> THEN Delete(t.number)
       ELSE Upsert([number |-> t.number, text |-> text])

DeleteCommand(line) ==
    /\ Typed /\ line # <<>> /\ line[1] \in {"DELETE", "D"}
    /\ LET t == parse_int_token(Spelled(line, 2)) IN
       IF t.ok THEN Delete(t.number) ELSE Nothing

NewCommand(line) ==
    /\ Typed /\ line # <<>> /\ line[1] = "NEW"
    /\ clear_buffer
    /\ UNCHANGED <<current_file, disk>>

OpenCommand(line) ==
    /\ Typed /\ line # <<>> /\ line[1] \in {"OPEN", "O"}
    /\ IF Len(line) = 1 THEN Nothing ELSE load_file(line[2])

WriteCommand(line) ==
    /\ Typed /\ line # <<>> /\ line[1] \in {"WRITE", "W", "SAVE"}
    /\ LET name == IF Len(line) > 1 THEN line[2] ELSE current_file IN
       IF name = "" THEN Nothing ELSE save_file(name)

\* HELP, LIST, what is no command, and an empty line.
OtherCommand(line) ==
    /\ Typed
    /\ ~ NumberLine(line)
    /\ line # <<>> => line[1] \notin {"DELETE", "D", "NEW", "OPEN", "O", "WRITE",
                                      "W", "SAVE", "q", "Q", "q!"}
    /\ Nothing

\* q with unsaved edits is refused.
QuitRefused(line) ==
    /\ Typed /\ line \in {<<"q">>, <<"Q">>}
    /\ dirty
    /\ Nothing

TedCommand(line) ==
    \/ handle_line_input(line) \/ DeleteCommand(line) \/ NewCommand(line)
    \/ OpenCommand(line) \/ WriteCommand(line) \/ OtherCommand(line)
    \/ QuitRefused(line)

Leave == /\ typing' = -1
         /\ Sync(<<>>) /\ program' = <<>> /\ saved' = FALSE /\ current_file' = ""
         /\ UNCHANGED disk

\* q! always ends the editor, q when there are no unsaved edits.
TedQuit(line) ==
    /\ typing >= 0
    /\ line = <<"q!">> \/ (line \in {<<"q">>, <<"Q">>} /\ ~ dirty)
    /\ Leave

\* main(): the file named on the command line is read.
TedStart(args) ==
    /\ typing = -1
    /\ typing' = MaxTyped
    /\ IF args = <<>> THEN Nothing ELSE load_file(args[1])

TedInit ==
    /\ buffer = <<>> /\ dirty = FALSE /\ current_file = ""
    /\ disk = Files
    /\ typing = -1
    /\ program = <<>> /\ synced = <<>> /\ saved = FALSE

-----------------------------------------------------------------------------
(* Properties. *)

TedTypeOK ==
    /\ Len(buffer) <= MAX_LINES
    /\ \A l \in Range(buffer) : Len(l.text) < MAX_COLS
    /\ dirty \in BOOLEAN
    /\ current_file \in Names \cup {""}
    /\ \A name \in Names : disk[name] = Absent \/ Len(disk[name]) <= MaxBytes

Numbers == DOMAIN program \cup {-1}

\* Whatever was typed and read, in whatever order, LIST a b shows the program's
\* lines from a to b, each number once, in ascending order, and the buffer
\* keeps to its MAX_LINES lines of at most MAX_COLS - 1 characters.
ListIsProgram ==
    /\ TedTypeOK
    /\ \A a, b \in Numbers :
        LET shown == {n \in DOMAIN program : (a >= 0 => n >= a) /\ (b >= 0 => n <= b)} IN
        list_lines(buffer, a, b) =
            [k \in 1..Cardinality(shown) |->
                LET n == SetToSortSeq(shown, <)[k] IN
                [number |-> n, text |-> program[n]]]

\* The buffer as it should be in a file.
Text(b) == FlattenSeq([k \in 1..Len(b) |->
    Decimal(b[k].number) \o <<" ">> \o b[k].text \o <<"\n">>])

\* A line that comes back as it was: it has a number that can be written, fits
\* with it, and does not begin with a blank.
Plain(l) == /\ l.number >= 0
            /\ Len(Decimal(l.number)) + 1 + Len(l.text) <= MAX_COLS - 1
            /\ l.text = skipws(l.text)

\* q leaves without a word only with a buffer that is as it was last cleared,
\* read or written.  If it was written, and its text is not too long for a
\* file, the text is at the beginning of the file; and a file that holds
\* nothing else, with plain lines, is read back as the buffer.  save_file() does
\* not look at what write() returns: a text that is too long is cut off, the
\* buffer is marked clean all the same, and q does drop edits.
CleanIsSaved ==
    ~ dirty =>
      /\ buffer = synced
      /\ saved /\ Len(Text(buffer)) <= MaxBytes =>
           LET bytes == disk[current_file] IN
           /\ IsPrefix(Text(buffer), bytes)
           /\ bytes = Text(buffer) /\ (\A l \in Range(buffer) : Plain(l)) =>
                Loaded(bytes) = buffer
=============================================================================
