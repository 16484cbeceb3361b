-------------------------- MODULE MCBufferStrings ---------------------------
(* Code units of one, two and three bytes, both kinds of surrogates, and    *)
(* those that are special to hex and base64; bytes of every role in UTF-8.  *)
EXTENDS BufferStrings

SomeUnits == {45, 61, 65, 233, 8364, 55357, 56832}
SomeOctets == {65, 128, 160, 195, 237, 240, 244}
SomeTexts == {<<8364, 65>>, <<55357, 56832>>, <<65, 233>>, <<55357, 8364>>}
=============================================================================
