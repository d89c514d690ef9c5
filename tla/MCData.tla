------------------------------- MODULE MCData -------------------------------
EXTENDS DataParts, TLC

\* Usual rates and those at the ends of the hardware's ranges.
MCRates ==
    {-1, 0, 8000, 24000, 44100, 48000, 96000, 100000, 150000, 192000, 225000, 225001, 300000,
     300001, 450000, 450001, 600000, 900000, 900001, 2299999, 2300001, 3200000, 3200001}

\* A raw listener's label is nothing but a name.
MCSymmetry == Permutations(RawLabel)
=============================================================================
