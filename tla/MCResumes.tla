------------------------------- MODULE MCResumes -------------------------------
EXTENDS Resumes, TLC

Symmetry == Permutations(Requests) \cup Permutations(Skills)
===============================================================================
