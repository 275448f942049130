---------------------------- MODULE MCCoreSystem ----------------------------
EXTENDS CoreSystem, MCDatapath

\* lw, xori, sb, bne, jalr; and a misaligned lh, sb, jal.
MCPrograms == {Image(0, 160, 161, 162, 163, 164), Image(5, 165, 162, 167, 0, 0)}

\* The first of them; and lbu, auipc, sub, sw, jalr.
MCLivePrograms == {Image(0, 160, 161, 162, 163, 164), Image(0, 166, 170, 168, 169, 164)}
=============================================================================
