----------------------------- MODULE MCDetector -----------------------------
EXTENDS Detector

CONSTANT w1
=============================================================================
