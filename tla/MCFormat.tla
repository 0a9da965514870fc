----------------------------- MODULE MCFormat ------------------------------
\* Bytes for unsigned ints: as for 2^32 values, the least int has as many
\* digits as the largest unsigned int, and bf is as large as that needs.
EXTENDS Format

Alphabet == {"%", "0", "2", "a", "d", "s"}
Letters == {"c", "u", "x", "X", "p", "l", "\n"}

\* Everything up to four characters of the letters that matter most, one
\* conversion of each other letter among them, and widths around and above the
\* largest int, 127: 200 becomes a negative one and 300 a positive one.
MCTexts ==
  UNION {[1 .. n -> Alphabet] : n \in 0 .. 4}
    \union {<<"%", f, c>> : f \in {"0", "2", "%"}, c \in Letters}
    \union {<<"%", "0", "5", c, "%", e>> : c \in Letters, e \in Letters \union {"d"}}
    \union {<<"%", "1", "0", c>> : c \in Letters \union {"d", "s"}}
    \union {<<"%", "1", "2", f, c>> : f \in {"7", "8"}, c \in {"d", "s"}}
    \union {<<"%", f, "0", "0", c>> : f \in {"2", "3"}, c \in {"d", "s"}}

MCWords == {0, 7, 9, 10, 16, 99, 100, 101, 127, 128, 129, 200, 246, 255}
MCStrings == {<<>>, <<"h", "i">>, <<"o", "n", "e">>, <<"2", "a">>}
=============================================================================
