---------------------------- MODULE MCNativeNmi ----------------------------
EXTENDS NativeNmi
=============================================================================
