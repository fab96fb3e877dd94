--------------------------- MODULE MCSerialization ---------------------------
(* Serialization with the scripts of the unit tests and the sweeps.        *)
EXTENDS SerializationTests

AllScripts ==
    UnitTests \o LibraryScripts \o FromZero(PositionScripts) \o FromZero(RotationScripts)
=============================================================================
