SPECIFICATION Spec
CONSTANT XLEN = 8
INVARIANTS MulHighExact DivRemExact ComparesExact ShiftsExact  NamesUnique
