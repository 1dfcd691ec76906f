------------------------------ MODULE Terminal ------------------------------
(***************************************************************************)
(* kernel/src/out/terminal.rs over framebuffer.rs and utils/psf.rs: text   *)
(* drawn pixel by pixel on the last line of a frame buffer, which scrolls. *)
(* A frame buffer maps byte offsets to the pixels that begin there.        *)
(***************************************************************************)
EXTENDS Words, Sequences, SequencesExt

CONSTANTS
    Width, Height,     \* the frame buffer, in pixels
    Stride,            \* bytes from one row to the next
    GlyphWidth, GlyphHeight,
    Font,              \* what the file has after its header, cut into glyphs: sequences of bytes, as words
    GlyphCount,        \* what the font's header says
    Newline            \* the code of '\n'

ASSUME TerminalAssumption ==
    /\ Width \in Nat /\ Height \in Nat /\ Stride \in Nat /\ 4 * Width <= Stride /\ Stride % 4 = 0
    /\ GlyphWidth \in 1 .. Width /\ GlyphHeight \in 1 .. Height
    /\ Newline < GlyphCount

BLACK == "black"
WHITE == "white"
Old == "old"   \* what a pixel shows before the first text

Offset(x, y) == x * 4 + y * Stride

Column(o) == (o % Stride) \div 4
Row(o) == o \div Stride

Rectangle(x, y, width, height) == {Offset(x + col, y + row) : col \in 0 .. width - 1, row \in 0 .. height - 1}

----------------------------------------------------------------------------
(* FrameBuffer                                                             *)

\* Copies within the buffer, row by row and from left to right: a pixel that was
\* written before it is read is read as it is then.
internal_blt(buffer, src_x, src_y, width, height, dst_x, dst_y) ==
    LET dst == Rectangle(dst_x, dst_y, width, height)
        shift == Offset(src_x, src_y) - Offset(dst_x, dst_y)
        copied[o \in dst] ==
            IF shift < 0 /\ o + shift \in dst THEN copied[o + shift] ELSE buffer[o + shift]
    IN  copied @@ buffer

fill_rect(buffer, x, y, width, height, color) ==
    [o \in Rectangle(x, y, width, height) |-> color] @@ buffer

\* The assertions hold: write_char keeps to the last line and a whole column.
write_bitmap(buffer, src, offset, width, height, stride, dst_x, dst_y, zero, one) ==
    LET pixel(col, row) ==
            LET bit_offset == col + offset
            IN  IF 7 - (bit_offset % 8) \in src[(bit_offset + row * stride) \div 8 + 1] THEN one ELSE zero
    IN  [o \in Rectangle(dst_x, dst_y, width, height) |-> pixel(Column(o) - dst_x, Row(o) - dst_y)] @@ buffer

----------------------------------------------------------------------------
(* Term1: buffer and char_col.  A glyph that the font lacks makes unwrap   *)
(* panic.                                                                  *)

get_glyph(i) == IF i \in DOMAIN Font THEN Font[i] ELSE <<>>

new_line(term) ==
    [buffer |-> fill_rect(internal_blt(term.buffer, 0, GlyphHeight, Width, Height - GlyphHeight, 0, 0),
                          0, Height - GlyphHeight, Width, GlyphHeight, BLACK),
     char_col |-> 0]

draw_glyph(term, glyph) ==
    [buffer |-> write_bitmap(term.buffer, glyph, 0, GlyphWidth, GlyphHeight, ((GlyphWidth + 7) \div 8) * 8,
                             term.char_col * GlyphWidth, Height - GlyphHeight, BLACK, WHITE),
     char_col |-> term.char_col + 1]

\* Mutant: a glyph that starts inside a line may end outside.
wrapLate(term) == IF term.char_col * GlyphWidth > Width THEN new_line(term) ELSE term
wrap(term) == IF (term.char_col + 1) * GlyphWidth > Width THEN new_line(term) ELSE term

\* What write_str gives write_char for a character.
Drawable(c) == IF c > GlyphCount THEN 0 ELSE c

write_char_panics(c) == c # Newline /\ get_glyph(c) = <<>>
write_char(term, c) ==
    IF c = Newline THEN new_line(term) ELSE draw_glyph(wrap(term), get_glyph(c))

TermInit ==
    [buffer |-> [o \in Rectangle(0, 0, Width, Height) |-> Old], char_col |-> 0]

----------------------------------------------------------------------------
(* A reference: where a text's characters stand, and the picture of its    *)
(* last lines.                                                             *)

Columns == Width \div GlyphWidth

\* How far a character is from the last newline before it.
Along(text, i) == i - 1 - Max({0} \cup {j \in 1 .. i - 1 : text[j] = Newline})

\* The characters before which a line ends.
Breaks(text) ==
    {i \in DOMAIN text : text[i] = Newline \/ (Along(text, i) > 0 /\ Along(text, i) % Columns = 0)}

Lines(text) ==
    [last |-> 1 + Cardinality(Breaks(text)),
     chars |-> {[code |-> text[i], line |-> 1 + Cardinality({j \in Breaks(text) : j <= i}),
                 col |-> Along(text, i) % Columns] : i \in {j \in DOMAIN text : text[j] # Newline}}]

\* The last line is at the bottom; the first is drawn over what was there.
Picture(lines) ==
    LET pixel(x, y) ==
            LET line == lines.last - ((Height - 1 - y) \div GlyphHeight)
                row == GlyphHeight - 1 - ((Height - 1 - y) % GlyphHeight)
                here == {c \in lines.chars : c.line = line /\ c.col = x \div GlyphWidth}
                lit(c) == 7 - ((x % GlyphWidth) % 8) \in
                            Font[c.code][1 + row * ((GlyphWidth + 7) \div 8) + (x % GlyphWidth) \div 8]
            IN  IF here # {} THEN IF \A c \in here : lit(c) THEN WHITE ELSE BLACK
                ELSE IF line > 1 THEN BLACK ELSE Old
    IN  [o \in DOMAIN TermInit.buffer |-> pixel(Column(o), Row(o))]
=============================================================================
