--------------------------- MODULE MCEntityDecoder ---------------------------
EXTENDS EntityDecoder

\* Entities of the table, numeric entities inside and outside it, one past
\* the last code point, and an '&' that a numeric entity produces.
MCTokenSet == {"&", "#", ";", " ", "lt", "38", "39", "1114112"}

\* &amp; followed by the rest of another entity.
MCTokenSetAmp == {"&", "#", ";", "amp", "quot", "39"}

=============================================================================
