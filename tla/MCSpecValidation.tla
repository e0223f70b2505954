-------------------------- MODULE MCSpecValidation --------------------------
EXTENDS SpecValidation



=============================================================================
