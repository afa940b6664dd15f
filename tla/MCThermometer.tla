---------------------------- MODULE MCThermometer ----------------------------
\* Constants for TLC: addresses of three bits, in pairs that differ in the
\* first, in the second and in the last bit.
EXTENDS Thermometer

MCRoms == {<<0, 1, 0>>, <<1, 0, 0>>, <<1, 0, 1>>, <<1, 1, 0>>, <<1, 1, 1>>}
=============================================================================
