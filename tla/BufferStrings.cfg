SPECIFICATION StringSpec
CONSTANTS
    Units <- SomeUnits
    Octets <- SomeOctets
    Texts <- SomeTexts
    MaxUnits = 5
    MaxOctets = 4
    MaxConversions = 1
INVARIANTS
    BytesSurviveText
    Utf8RoundTrip
    WritesWholeCharacters
    Base64IsBits
CHECK_DEADLOCK FALSE
