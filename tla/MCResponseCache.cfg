CONSTANTS
    Requests = {r1, r2}
    Headers = {"a", "b"}
    Words = {"a", "b", "x"}
    Fields <- SomeFields
    VaryFields <- SomeVaryFields
    MaxEntries = 1
    MaxVersion = 1
    None = None
SYMMETRY Symmetry
SPECIFICATION Spec
INVARIANTS HitsSuit HitsImpersonal
PROPERTIES FillsAdvance
