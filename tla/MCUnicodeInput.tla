--------------------------- MODULE MCUnicodeInput ----------------------------
(* UnicodeInput with the texts TLC types: a direct character, the shift        *)
(* character, blocks of one and two characters, and text no helper is for.    *)
EXTENDS UnicodeInput

TypedTexts == {<<"a">>, <<"u">>, <<"&", "a">>, <<"u", "u">>, <<"a", "u", "&">>,
               <<"u", "a", "u">>}
FieldContents == {<<>>, <<"a">>}
=============================================================================
